-------------------------------- MODULE MCLocks --------------------------------
(***************************************************************************)
(* The transactions that queue for an advisory lock, for TLC: the writers  *)
(* of an audit chain and the OAuth requests of a grant.  The locks have    *)
(* different keys and the tables are different ones, so that a behaviour   *)
(* is about one of them and the other stays in its initial state.          *)
(***************************************************************************)
EXTENDS AuditChain

CONSTANTS Requests, Grants, Tokens, Scopes, Workers

VARIABLES
    part,       \* the lock a behaviour is about
    reqs, client, code, tok, online, expired, grantLock, step, job, closed,
    consumed, refused

G == INSTANCE OAuthGrants WITH lock <- grantLock, pc <- step

grantVars == <<reqs, client, code, tok, online, expired, grantLock, step, job,
               closed, consumed, refused>>
all == <<part, vars, grantVars>>

MCInit == part \in {"audit", "grants"} /\ Init /\ G!Init

MCNext ==
    /\ UNCHANGED part
    /\ \/ part = "audit" /\ Next /\ UNCHANGED grantVars
       \/ part = "grants" /\ G!Next /\ UNCHANGED vars

MCSpec ==
    /\ MCInit /\ [][MCNext]_all
    /\ \/ part = "audit" /\ Fairness
       \/ part = "grants" /\ G!Fairness

-----------------------------------------------------------------------------
\* OAuthGrants': a request that waits for a grant's advisory lock gets it,
\* whatever the requests before it do.
WaiterServed == G!WaiterServed
=============================================================================
