-------------------------------- MODULE MCOAuth --------------------------------
(***************************************************************************)
(* The OAuth server's tables for TLC: grants with their tokens, and client *)
(* registrations.  They share no state the two modules read, so that a     *)
(* behaviour is about one of them and the other stays in its initial       *)
(* state.  Ids are interchangeable.                                        *)
(***************************************************************************)
EXTENDS OAuthGrants, TLC

CONSTANTS Registrations, MaxUnused

VARIABLES
    part,       \* the tables the behaviour is about
    clients, requests, late, codes, clock, regLock, tx, consented, released

R == INSTANCE OAuthRegistrations WITH Clients <- Registrations,
                                      lock <- regLock

ASSUME RegistrationsOK == R!RegistrationAssumption

regVars == <<clients, requests, late, codes, clock, regLock, tx, consented,
             released>>
all == <<part, vars, regVars>>

MCInit == part \in {"grants", "registrations"} /\ Init /\ R!Init

MCNext ==
    /\ UNCHANGED part
    /\ \/ part = "grants" /\ Next /\ UNCHANGED regVars
       \/ part = "registrations" /\ R!Next /\ UNCHANGED vars

MCSpec == MCInit /\ [][MCNext]_all

Symmetry ==
    UNION {Permutations(S) : S \in {Grants, Tokens, Scopes, Workers}}

-----------------------------------------------------------------------------
\* OAuthRegistrations': no client in use is evicted, and the pool of unused ones
\* is bounded.
RegistrationsSound == R!RegistrationsSound
=============================================================================
