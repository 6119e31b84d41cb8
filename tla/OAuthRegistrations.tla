-------------------------- MODULE OAuthRegistrations --------------------------
(***************************************************************************)
(* Anonymous OAuth client registrations and their eviction                 *)
(* (internal/oauth/registration.go), with the transactions that make and   *)
(* use a registration: register, authorize and consent                     *)
(* (internal/oauth/server.go), and the hourly clean-up.  Each takes one    *)
(* advisory lock; a denied consent and the deletion of expired rows do not.*)
(* The writes of a transaction are seen by others when it commits.  What   *)
(* the foreign keys would refuse is not refused here, so that the lock has *)
(* to keep it from happening.                                              *)
(***************************************************************************)
EXTENDS Naturals, FiniteSets

CONSTANTS
    Clients,        \* ids of registrations
    Requests,       \* ids of pending consents
    Workers,        \* HTTP requests, and the clean-up
    None,           \* nobody, nothing
    MaxUnused       \* unused registrations that are kept (1000 in the code)

RegistrationAssumption ==
    /\ None \notin Clients \cup Requests \cup Workers
    /\ MaxUnused \in Nat \ {0}

VARIABLES
    clients,    \* rows of oauth_clients: created_at, 24 hours old, activated_at
    requests,   \* rows of oauth_requests: client, or None when there is no row
    late,       \* requests whose ten minutes are over
    codes,      \* clients with rows in oauth_codes or oauth_refresh_tokens
    clock,      \* orders created_at
    lock,       \* holder of the advisory lock
    tx,         \* kind, step, client, request and staged deletions of each worker
    consented,  \* history: clients a user consented to
    released    \* history: clients whose last reference went without the lock
                \* since the last prune

vars == <<clients, requests, late, codes, clock, lock, tx, consented, released>>

-----------------------------------------------------------------------------
Absent == [at |-> 0, old |-> FALSE, active |-> FALSE]
\* A deleted row, whose id is not used again.
Evicted == [Absent EXCEPT !.old = TRUE]
Kinds == {"none", "register", "cleanup", "authorize", "consent"}
Idle == [kind |-> "none", step |-> "idle", client |-> None, req |-> None,
         drop |-> {}, since |-> {}]

Exists(c) == clients[c].at > 0

TypeOK ==
    /\ clients \in [Clients -> [at : Nat, old : BOOLEAN, active : BOOLEAN]]
    /\ requests \in [Requests -> Clients \cup {None}]
    /\ late \in SUBSET Requests
    /\ codes \in SUBSET Clients
    /\ clock \in Nat
    /\ lock \in Workers \cup {None}
    /\ tx \in [Workers -> [kind : Kinds,
                           step : {"idle", "lock", "prune", "write", "commit"},
                           client : Clients \cup {None},
                           req : Requests \cup {None},
                           drop : SUBSET Clients, since : SUBSET Clients]]
    /\ consented \in SUBSET Clients
    /\ released \in SUBSET Clients
    /\ \A w \in Workers : tx[w].step \in {"prune", "write", "commit"} => lock = w

Init ==
    /\ clients = [c \in Clients |-> Absent]
    /\ requests = [q \in Requests |-> None]
    /\ late = {} /\ codes = {}
    /\ clock = 0
    /\ lock = None
    /\ tx = [w \in Workers |-> Idle]
    /\ consented = {} /\ released = {}

-----------------------------------------------------------------------------
\* getClient, and the check under the lock: activated, or registered today.
Usable(c) == Exists(c) /\ (clients[c].active \/ ~clients[c].old)

Referenced(c) == c \in codes \/ \E q \in Requests : requests[q] = c
Unused == {c \in Clients : Exists(c) /\ ~clients[c].active /\ ~Referenced(c)}

\* row_number() OVER (ORDER BY created_at DESC)
Position(c) == Cardinality({d \in Unused : clients[d].at >= clients[c].at})

Stale(keep) == {c \in Unused : clients[c].old \/ Position(c) > keep}

Keep(kind) == IF kind = "register" THEN MaxUnused - 1 ELSE MaxUnused

-----------------------------------------------------------------------------
To(w, step) == tx' = [tx EXCEPT ![w].step = step]

\* A request arrives; what it reads before its transaction may change.
Begin(w, kind, c, q) ==
    /\ tx[w] = Idle
    /\ tx' = [tx EXCEPT ![w] = [Idle EXCEPT !.kind = kind, !.step = "lock",
                                            !.client = c, !.req = q]]
    /\ UNCHANGED <<clients, requests, late, codes, clock, lock, consented,
                   released>>

\* A random id is nobody else's.
Register(w, c) ==
    /\ clients[c] = Absent /\ \A v \in Workers : tx[v].client # c
    /\ Begin(w, "register", c, None)

Cleanup(w) == Begin(w, "cleanup", None, None)

Authorize(w, c, q) ==
    /\ Usable(c)
    /\ requests[q] = None /\ \A v \in Workers : tx[v].req # q
    /\ Begin(w, "authorize", c, q)

Consent(w, q) ==
    /\ requests[q] # None /\ q \notin late
    /\ Begin(w, "consent", requests[q], q)

\* lockRegistrations
Lock(w) ==
    /\ tx[w].step = "lock" /\ lock = None
    /\ lock' = w
    /\ To(w, IF tx[w].kind \in {"register", "cleanup"} THEN "prune" ELSE "write")
    /\ UNCHANGED <<clients, requests, late, codes, clock, consented, released>>

\* pruneRegistrations: one statement, seen by others after the commit.
Prune(w) ==
    /\ tx[w].step = "prune"
    /\ tx' = [tx EXCEPT ![w].drop = Stale(Keep(tx[w].kind)),
                        ![w].step = IF tx[w].kind = "register" THEN "write"
                                    ELSE "commit"]
    /\ UNCHANGED <<clients, requests, late, codes, clock, lock, consented,
                   released>>

\* The INSERT of register, the check and INSERT of authorize, or the UPDATE and
\* DELETE of consent; a check that fails is a Rollback.
Write(w) ==
    /\ tx[w].step = "write"
    /\ tx[w].kind = "authorize" => Usable(tx[w].client)
    /\ tx[w].kind = "consent" => requests[tx[w].req] # None /\ tx[w].req \notin late
    /\ To(w, "commit")
    /\ UNCHANGED <<clients, requests, late, codes, clock, lock, consented,
                   released>>

\* A consent keeps the row of its request locked until it ends.
RowLocked(q) ==
    \E w \in Workers : /\ tx[w].kind = "consent" /\ tx[w].step = "commit"
                       /\ tx[w].req = q

Ends(w) == tx' = [tx EXCEPT ![w] = Idle] /\ lock' = None

\* Mutant: the registration is pinned when its code is exchanged.
ActivatedLater(w) == [c \in Clients |->
    IF c = tx[w].client /\ tx[w].kind = "register"
    THEN [at |-> clock + 1, old |-> FALSE, active |-> FALSE]
    ELSE IF c \in tx[w].drop THEN Evicted
    ELSE clients[c]]

\* The rows of oauth_clients after the commit.
Activated(w) == [c \in Clients |->
    IF c = tx[w].client /\ tx[w].kind = "register"
    THEN [at |-> clock + 1, old |-> FALSE, active |-> FALSE]
    ELSE IF c \in tx[w].drop THEN Evicted
    ELSE IF c = tx[w].client /\ tx[w].kind = "consent"
    THEN [clients[c] EXCEPT !.active = Exists(c)]
    ELSE clients[c]]

Commit(w) ==
    /\ tx[w].step = "commit"
    /\ clients' = Activated(w)
    /\ clock' = IF tx[w].kind = "register" THEN clock + 1 ELSE clock
    /\ requests' = CASE tx[w].kind = "authorize" ->
                          [requests EXCEPT ![tx[w].req] = tx[w].client]
                     [] tx[w].kind = "consent" ->
                          [requests EXCEPT ![tx[w].req] = None]
                     [] OTHER -> requests
    /\ IF tx[w].kind = "consent"
       THEN /\ codes' = codes \cup {tx[w].client}
            /\ consented' = consented \cup {tx[w].client}
       ELSE UNCHANGED <<codes, consented>>
    /\ released' = IF tx[w].kind \in {"register", "cleanup"} THEN tx[w].since
                   ELSE released
    /\ Ends(w)
    /\ UNCHANGED late

\* A statement, a check or the commit fails, or the process ends.
Rollback(w) ==
    /\ tx[w] # Idle
    /\ tx' = [tx EXCEPT ![w] = Idle]
    /\ lock' = IF lock = w THEN None ELSE lock
    /\ UNCHANGED <<clients, requests, late, codes, clock, consented, released>>

-----------------------------------------------------------------------------
\* c may have lost its last reference.
Released(c) ==
    /\ released' = released \cup {c}
    /\ tx' = [w \in Workers |->
                IF /\ tx[w].kind \in {"register", "cleanup"}
                   /\ tx[w].step \in {"write", "commit"}
                THEN [tx[w] EXCEPT !.since = @ \cup {c}] ELSE tx[w]]

\* The user denies the consent, or the clean-up finds the request expired.
DropRequest(q) ==
    /\ requests[q] # None /\ ~RowLocked(q)
    /\ requests' = [requests EXCEPT ![q] = None]
    /\ late' = late \ {q}
    /\ Released(requests[q])
    /\ UNCHANGED <<clients, codes, clock, lock, consented>>

\* The last code or refresh token of a client is deleted.
DropCodes(c) ==
    /\ c \in codes
    /\ codes' = codes \ {c}
    /\ Released(c)
    /\ UNCHANGED <<clients, requests, late, clock, lock, consented>>

\* Ten minutes of a request, or a registration's day, are over.
Late(q) ==
    /\ requests[q] # None /\ q \notin late
    /\ late' = late \cup {q}
    /\ UNCHANGED <<clients, requests, codes, clock, lock, tx, consented,
                   released>>

Ages(c) ==
    /\ Exists(c) /\ ~clients[c].old
    /\ clients' = [clients EXCEPT ![c].old = TRUE]
    /\ UNCHANGED <<requests, late, codes, clock, lock, tx, consented, released>>

Next ==
    \/ \E w \in Workers :
          \/ \E c \in Clients : Register(w, c)
          \/ Cleanup(w)
          \/ \E c \in Clients, q \in Requests : Authorize(w, c, q)
          \/ \E q \in Requests : Consent(w, q)
          \/ Lock(w) \/ Prune(w) \/ Write(w) \/ Commit(w) \/ Rollback(w)
    \/ \E q \in Requests : DropRequest(q) \/ Late(q)
    \/ \E c \in Clients : DropCodes(c) \/ Ages(c)

Spec == Init /\ [][Next]_vars

-----------------------------------------------------------------------------
\* "Consented clients and registrations referenced by an authorization flow are
\* never evicted" (registration.go:10-11), the second half: a user on the way
\* from the authorization page to the consent finds the client still there.
PendingKept ==
    \A q \in Requests : requests[q] # None => Exists(requests[q])

\* The first half: a client a user consented to stays, and stays usable however
\* old it gets and whatever became of its codes.
ConsentedKept == \A c \in consented : Usable(c)

\* "Keep a bounded pool of unused registrations" (server.go:209): registrations
\* never make more than MaxUnused unused ones; only references that went away
\* since the last prune come on top.
PoolBounded == Cardinality(Unused \ released) <= MaxUnused

\* What registration, consent and clean-up keep between them, in any order:
\* no client in use is evicted, and the unused ones stay few.
RegistrationsSound == PendingKept /\ ConsentedKept /\ PoolBounded
=============================================================================
