------------------------------- MODULE WebLogin -------------------------------
(***************************************************************************)
(* The browser login: the map of attempts under s.mu, each attempt with a  *)
(* mutex and a TDLib session of its own (internal/webauth/login.go), and   *)
(* maintain, which disposes of expired attempts (service.go).  Requests of *)
(* one browser carry the same login cookie, the key of the map, and may    *)
(* run at the same time.                                                   *)
(*                                                                         *)
(* A section under s.mu waits for nothing (the one a.mu taken inside is    *)
(* that of an attempt nobody has seen), so it is one step.  A section      *)
(* under a.mu holds it across calls to TDLib, the backend and the database.*)
(***************************************************************************)
EXTENDS Naturals, FiniteSets

CONSTANTS
    Keys,           \* login cookies
    Addresses,      \* client addresses
    Attempts,       \* attempts, one directory each
    Requests,       \* requests in flight
    None,           \* no attempt, nobody
    Sweeper,        \* the maintain goroutine
    MaxAll,         \* attempts at a time (20 in the code)
    MaxSame,        \* attempts of one address (5 in the code)
    OpenFails,      \* whether tdlib.Open may fail
    Straddles       \* whether an attempt may expire under a request at work

LoginAssumption ==
    /\ None \notin Attempts \cup Requests
    /\ Sweeper \notin Requests \cup {None}
    /\ MaxAll \in Nat /\ MaxSame \in Nat
    /\ OpenFails \in BOOLEAN /\ Straddles \in BOOLEAN

VARIABLES
    attempts,   \* s.attempts
    att,        \* the attempts
    mu,         \* holder of each attempt's mutex
    req,        \* step, key and attempt of each request
    todo        \* expired attempts maintain has taken out of the map

vars == <<attempts, att, mu, req, todo>>

-----------------------------------------------------------------------------
\* The session: not created, not opened yet, a nil *Session after a failed
\* Open, open, ready once the user authenticated, closed.
Sessions == {"unused", "none", "nil", "open", "ready", "closed"}
Records == [ses : Sessions, ip : Addresses \cup {None}, expired : BOOLEAN,
            closed : BOOLEAN, profile : BOOLEAN, account : BOOLEAN,
            complete : BOOLEAN, issued : BOOLEAN, gone : BOOLEAN]
Unused == [ses |-> "unused", ip |-> None, expired |-> FALSE, closed |-> FALSE,
           profile |-> FALSE, account |-> FALSE, complete |-> FALSE,
           issued |-> FALSE, gone |-> FALSE]
\* The steps at which a request holds its attempt's mutex, and those before and
\* after.
Inside == {"open", "inside", "authorize", "profile", "attach", "audit",
           "issue", "delete"}
Steps == {"idle", "drop", "discard", "lock"} \cup Inside
NoRequest == [step |-> "idle", key |-> None, att |-> None]

TypeOK ==
    /\ attempts \in [Keys -> Attempts \cup {None}]
    /\ att \in [Attempts -> Records]
    /\ mu \in [Attempts -> Requests \cup {Sweeper, None}]
    /\ req \in [Requests -> [step : Steps, key : Keys \cup {None},
                             att : Attempts \cup {None}]]
    /\ todo \in SUBSET Attempts
    /\ \A r \in Requests : req[r].step \in Inside <=> \E a \in Attempts : mu[a] = r

Init ==
    /\ attempts = [k \in Keys |-> None]
    /\ att = [a \in Attempts |-> Unused]
    /\ mu = [a \in Attempts |-> None]
    /\ req = [r \in Requests |-> NoRequest]
    /\ todo = {}

-----------------------------------------------------------------------------
Listed == {a \in Attempts : \E k \in Keys : attempts[k] = a}
Same(ip) == {a \in Listed : att[a].ip = ip}

To(r, step) == req' = [req EXCEPT ![r].step = step]
Ends(r) == req' = [req EXCEPT ![r] = NoRequest]
\* defer a.mu.Unlock()
Leave(r) == Ends(r) /\ mu' = [mu EXCEPT ![req[r].att] = None]

\* Mutant: the limits are off by one.
CrowdedLater(ip) == Cardinality(Listed) > MaxAll \/ Cardinality(Same(ip)) > MaxSame

Crowded(ip) == Cardinality(Listed) >= MaxAll \/ Cardinality(Same(ip)) >= MaxSame

\* POST /auth/login/start for a cookie without an attempt.
Start(r, k, ip, a) ==
    /\ req[r] = NoRequest /\ attempts[k] = None /\ ~Crowded(ip)
    /\ att[a] = Unused
    /\ att' = [att EXCEPT ![a].ses = "none", ![a].ip = ip]
    /\ attempts' = [attempts EXCEPT ![k] = a]
    /\ mu' = [mu EXCEPT ![a] = r]
    /\ req' = [req EXCEPT ![r] = [step |-> "open", key |-> k, att |-> a]]
    /\ UNCHANGED todo

\* NewLoginSession, and a.mu is released.  The *Session of a failed Open is nil,
\* the interface that holds it is not.
Opened(r) ==
    /\ req[r].step = "open"
    /\ att' = [att EXCEPT ![req[r].att].ses = "open"]
    /\ Leave(r)
    /\ UNCHANGED <<attempts, todo>>

OpenFailed(r) ==
    /\ OpenFails /\ req[r].step = "open"
    /\ att' = [att EXCEPT ![req[r].att].ses = "nil"]
    /\ To(r, "drop")
    /\ mu' = [mu EXCEPT ![req[r].att] = None]
    /\ UNCHANGED <<attempts, todo>>

\* delete(s.attempts, key), whatever attempt is there now.
Deleted(k) == attempts' = [attempts EXCEPT ![k] = None]

Drop(r) ==
    /\ req[r].step = "drop"
    /\ Deleted(req[r].key)
    /\ To(r, "discard")
    /\ UNCHANGED <<att, mu, todo>>

\* DiscardLoginStorage removes a directory no account uses.
Discarded(a) == [att EXCEPT ![a].gone = ~att[a].account]

Discard(r) ==
    /\ req[r].step = "discard"
    /\ att' = Discarded(req[r].att)
    /\ Ends(r)
    /\ UNCHANGED <<attempts, mu, todo>>

-----------------------------------------------------------------------------
\* /auth/login/state and /auth/login/action find the attempt ...
Look(r, k) ==
    /\ req[r] = NoRequest /\ attempts[k] # None /\ ~att[attempts[k]].expired
    /\ req' = [req EXCEPT ![r] = [step |-> "lock", key |-> k,
                                  att |-> attempts[k]]]
    /\ UNCHANGED <<attempts, att, mu, todo>>

\* Mutant: what was found without the lock is believed.
OverNever(a) == FALSE

Over(a) == att[a].closed \/ att[a].issued \/ att[a].expired

\* ... wait for it, and look again: 410, 503 or go on.
Enter(r) ==
    /\ req[r].step = "lock" /\ mu[req[r].att] = None
    /\ LET a == req[r].att IN
       IF Over(a) \/ att[a].ses = "none"
       THEN Ends(r) /\ UNCHANGED mu
       ELSE To(r, "inside") /\ mu' = [mu EXCEPT ![a] = r]
    /\ UNCHANGED <<attempts, att, todo>>

\* What the request is for: an action, the profile of a session that became
\* ready, the rest of a login whose profile is known, or the state only.
Choose(r) ==
    /\ req[r].step = "inside"
    /\ LET a == req[r].att IN
       \/ ~att[a].complete /\ ~att[a].profile /\ To(r, "authorize")
       \/ ~att[a].profile /\ att[a].ses \in {"ready", "nil"} /\ To(r, "profile")
       \/ att[a].profile /\ ~att[a].account /\ To(r, "attach")
       \/ att[a].account /\ ~att[a].complete /\ To(r, "audit")
       \/ att[a].complete /\ To(r, "issue")
    /\ UNCHANGED <<attempts, att, mu, todo>>

\* A refused or failed call, an answer with the state only, a rate limit, or a
\* nil *Session, whose panic net/http recovers.
Fail(r) ==
    /\ req[r].step \in Inside \ {"open", "delete"}
    /\ Leave(r)
    /\ UNCHANGED <<attempts, att, todo>>

\* getMe, then the session is closed before its directory is handed over.
Profile(r) ==
    /\ req[r].step = "profile" /\ att[req[r].att].ses = "ready"
    /\ att' = [att EXCEPT ![req[r].att].profile = TRUE,
                          ![req[r].att].ses = "closed"]
    /\ To(r, "attach")
    /\ UNCHANGED <<attempts, mu, todo>>

\* AttachLogin, the audit entry, and the cookie.
Attach(r) ==
    /\ req[r].step = "attach"
    /\ att' = [att EXCEPT ![req[r].att].account = TRUE]
    /\ To(r, "audit")
    /\ UNCHANGED <<attempts, mu, todo>>

Audit(r) ==
    /\ req[r].step = "audit"
    /\ att' = [att EXCEPT ![req[r].att].complete = TRUE]
    /\ To(r, "issue")
    /\ UNCHANGED <<attempts, mu, todo>>

Issue(r) ==
    /\ req[r].step = "issue"
    /\ att' = [att EXCEPT ![req[r].att].issued = TRUE]
    /\ To(r, "delete")
    /\ UNCHANGED <<attempts, mu, todo>>

Delete(r) ==
    /\ req[r].step = "delete"
    /\ Deleted(req[r].key)
    /\ Leave(r)
    /\ UNCHANGED <<att, todo>>

-----------------------------------------------------------------------------
\* The user authenticates.
Ready(a) ==
    /\ att[a].ses = "open"
    /\ att' = [att EXCEPT ![a].ses = "ready"]
    /\ UNCHANGED <<attempts, mu, req, todo>>

\* Ten minutes pass since the attempt was created.
Expire(a) ==
    /\ att[a].ses # "unused" /\ ~att[a].expired
    /\ Straddles \/ \A r \in Requests : req[r].att = a => req[r].step = "lock"
    /\ att' = [att EXCEPT ![a].expired = TRUE]
    /\ UNCHANGED <<attempts, mu, req, todo>>

\* maintain: the expired attempts leave the map together ...
Sweep ==
    /\ todo = {}
    /\ todo' = {a \in Listed : att[a].expired}
    /\ todo' # {}
    /\ attempts' = [k \in Keys |-> IF attempts[k] \in todo' THEN None
                                   ELSE attempts[k]]
    /\ UNCHANGED <<att, mu, req>>

\* ... and each is closed under its own lock, and its directory discarded.
SweepLock(a) ==
    /\ a \in todo /\ mu[a] = None /\ \A b \in Attempts : mu[b] # Sweeper
    /\ mu' = [mu EXCEPT ![a] = Sweeper]
    /\ att' = [att EXCEPT ![a].closed = TRUE]
    /\ UNCHANGED <<attempts, req, todo>>

SweepClose(a) ==
    /\ mu[a] = Sweeper
    /\ att' = [Discarded(a) EXCEPT ![a].ses = "closed"]
    /\ todo' = todo \ {a}
    /\ mu' = [mu EXCEPT ![a] = None]
    /\ UNCHANGED <<attempts, req>>

-----------------------------------------------------------------------------
Work(r) == \/ Opened(r) \/ OpenFailed(r) \/ Drop(r) \/ Discard(r)
           \/ Choose(r) \/ Fail(r) \/ Profile(r) \/ Attach(r) \/ Audit(r)
           \/ Issue(r) \/ Delete(r)
Sweeps == Sweep \/ \E a \in Attempts : SweepLock(a) \/ SweepClose(a)

Next ==
    \/ \E r \in Requests :
          \/ \E k \in Keys, ip \in Addresses, a \in Attempts : Start(r, k, ip, a)
          \/ \E k \in Keys : Look(r, k)
          \/ Enter(r) \/ Work(r)
    \/ \E a \in Attempts : Ready(a) \/ Expire(a)
    \/ Sweeps

Spec == Init /\ [][Next]_vars

\* Calls under a.mu have contexts and return, a Go mutex passes no waiter over
\* for ever, time passes, and maintain ticks every 30 s.
Fairness ==
    /\ \A r \in Requests : WF_vars(Work(r)) /\ SF_vars(Enter(r))
    /\ \A a \in Attempts : SF_vars(Expire(a)) /\ SF_vars(SweepLock(a))
    /\ WF_vars(Sweep)
    /\ \A a \in Attempts : WF_vars(SweepClose(a))

FairSpec == Spec /\ Fairness

-----------------------------------------------------------------------------
Live == {a \in Attempts : att[a].ses \in {"open", "ready"}}

\* Every open login session is still somebody's to close: its attempt is in the
\* map, or maintain has it, although requests delete map entries by key and not
\* by attempt (login.go:82, 175).
NoOrphan == Live \subseteq Listed \cup todo

\* The TDLib sessions of logins that nobody is disposing of stay within the
\* limits checked before they are opened (login.go:69).
LimitsHold ==
    /\ Cardinality(Live \ todo) <= MaxAll
    /\ \A ip \in Addresses :
          Cardinality({a \in Live \ todo : att[a].ip = ip}) <= MaxSame

\* "The login session must be closed before handing its encrypted directory
\* over" (public.go:25), and the directory is still there, although maintain
\* disposes of attempts while requests wait for them.
AttachSound ==
    \A r \in Requests :
        req[r].step = "attach" =>
            att[req[r].att].ses = "closed" /\ ~att[req[r].att].gone

\* A login session that was opened is closed in the end, finished or not, and
\* whatever requests wait for its attempt.
SessionsClose ==
    \A a \in Attempts : att[a].ses = "open" ~> att[a].ses = "closed"

\* Whatever requests and maintain do to the map of attempts, an open session
\* stays within reach, and what is handed over is closed and in place.
AttemptsSound == NoOrphan /\ AttachSound
=============================================================================
