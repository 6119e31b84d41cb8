------------------------------ MODULE MCSessions ------------------------------
(***************************************************************************)
(* TDLib sessions from both sides, for TLC: the client of one session      *)
(* (TdlibRpc), and the browser logins that open sessions and have to close *)
(* them (WebLogin).  They share no state, so that a behaviour is about one *)
(* of them and the other stays in its initial state.                       *)
(***************************************************************************)
EXTENDS TdlibRpc

CONSTANTS Keys, Addresses, Attempts, Requests, Sweeper, MaxAll, MaxSame,
          OpenFails, Straddles

VARIABLES
    part,       \* the side a behaviour is about
    attempts, att, attMu, req, todo

W == INSTANCE WebLogin WITH mu <- attMu

ASSUME LoginOK == W!LoginAssumption

loginVars == <<attempts, att, attMu, req, todo>>
all == <<part, vars, loginVars>>

MCInit == part \in {"client", "login"} /\ Init /\ W!Init

MCNext ==
    /\ UNCHANGED part
    /\ \/ part = "client" /\ Next /\ UNCHANGED loginVars
       \/ part = "login" /\ W!Next /\ UNCHANGED vars

MCSpec ==
    /\ MCInit /\ [][MCNext]_all
    /\ \/ part = "client" /\ Fairness
       \/ part = "login" /\ W!Fairness

-----------------------------------------------------------------------------
\* WebLogin's: an open login session stays within reach, and what is handed over
\* is closed and in place.
AttemptsSound == W!AttemptsSound

\* WebLogin's: the limits on logins hold.
LimitsHold == W!LimitsHold

\* Sessions come to their end: a login's is closed, finished or not; Close
\* returns, and a cancelled session destroys its native client.
SessionsClose == SessionEnds /\ W!SessionsClose
=============================================================================
