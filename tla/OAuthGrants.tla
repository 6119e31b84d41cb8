----------------------------- MODULE OAuthGrants -----------------------------
(***************************************************************************)
(* The life of an OAuth authorization grant: consent, code exchange,       *)
(* refresh rotation, replay detection and revocation                       *)
(* (internal/oauth/server.go, internal/access/repository.go), against the  *)
(* account page, the administrator and the hourly clean-up, which do not   *)
(* all take the grant's lock.                                              *)
(*                                                                         *)
(* Each worker is one HTTP request with its database transaction.  A       *)
(* transaction looks its grant up, waits for LockGrant, reads again and    *)
(* decides, and commits later: until then its writes are invisible, and    *)
(* whatever does not take the lock may commit in between.  NOW() is the    *)
(* start of the transaction, so a check of expires_at uses the instant the *)
(* transaction began.  All grants belong to one account.  issue() inserts  *)
(* an access and a refresh token together, so one id names both.           *)
(***************************************************************************)
CONSTANTS
    Requests,   \* ids of oauth_requests
    Grants,     \* ids of gateway_clients
    Tokens,     \* ids of token pairs
    Scopes,     \* the scopes a client may ask for
    Workers,    \* requests being served
    None

ASSUME GrantAssumption ==
    /\ None \notin Requests \cup Grants \cup Tokens \cup Workers
    /\ Requests \cap Grants = {}
    /\ Requests \cap Tokens = {}
    /\ Grants \cap Tokens = {}

VARIABLES
    reqs,       \* oauth_requests: row and scopes of each request
    client,     \* gateway_clients: status, request and scopes of each grant
    code,       \* oauth_codes: whether the grant's code is there
    tok,        \* access_tokens and oauth_refresh_tokens
    online,     \* telegram_accounts.status = 'active'
    expired,    \* rows whose expires_at has passed
    lock,       \* holder of each grant's advisory lock
    pc, job,    \* the step of each worker and what it works on
    closed,     \* history: grants closed by RevokeGrant
    consumed,   \* history: refresh tokens that were rotated
    refused     \* history: consumed tokens presented again, told invalid_grant

vars == <<reqs, client, code, tok, online, expired, lock, pc, job,
          closed, consumed, refused>>

tables == <<reqs, client, code, tok>>
history == <<closed, consumed, refused>>

-----------------------------------------------------------------------------
NoRequest == [row |-> "none", scopes |-> {}]
NoGrant == [status |-> "none", req |-> None, scopes |-> {}]
NoToken == [grant |-> None, access |-> "none", refresh |-> "none", scopes |-> {}]
NoJob == [kind |-> "none", cred |-> None, grant |-> None, late |-> FALSE,
          scopes |-> {}]

Asked == SUBSET Scopes \ {{}}
Rows == [row : {"none", "pending", "gone"}, scopes : SUBSET Scopes]
Clients == [status : {"none", "active", "disabled"},
            req : Requests \cup {None}, scopes : SUBSET Scopes]
Pairs == [grant : Grants \cup {None}, access : {"none", "live", "revoked"},
          refresh : {"none", "live", "revoked", "purged"},
          scopes : SUBSET Scopes]
Jobs == [kind : {"none", "consent", "code", "refresh", "revoke", "account"},
         cred : Requests \cup Grants \cup Tokens \cup {None},
         grant : Grants \cup {None}, late : BOOLEAN, scopes : SUBSET Scopes]

\* The steps a worker takes with the grant's lock.
Locked == {"exec", "issue", "close"}

TypeOK ==
    /\ reqs \in [Requests -> Rows]
    /\ client \in [Grants -> Clients]
    /\ code \in [Grants -> BOOLEAN]
    /\ tok \in [Tokens -> Pairs]
    /\ online \in BOOLEAN
    /\ expired \in SUBSET (Requests \cup Grants \cup Tokens)
    /\ lock \in [Grants -> Workers \cup {None}]
    /\ pc \in [Workers -> {"idle", "consent", "lock"} \cup Locked]
    /\ job \in [Workers -> Jobs]
    /\ closed \in SUBSET Grants
    /\ consumed \in SUBSET Tokens
    /\ refused \in SUBSET Tokens
    /\ \A g \in Grants : lock[g] # None => pc[lock[g]] \in Locked

Init ==
    /\ reqs = [r \in Requests |-> NoRequest]
    /\ client = [g \in Grants |-> NoGrant]
    /\ code = [g \in Grants |-> FALSE]
    /\ tok = [i \in Tokens |-> NoToken]
    /\ online = TRUE
    /\ expired = {}
    /\ lock = [g \in Grants |-> None]
    /\ pc = [w \in Workers |-> "idle"]
    /\ job = [w \in Workers |-> NoJob]
    /\ closed = {} /\ consumed = {} /\ refused = {}

\* A row of oauth_refresh_tokens is there, revoked or not.
Stored(i) == tok[i].refresh \in {"live", "revoked"}

\* Mutant: the lock is a session lock that outlives the transaction.
EndTxKeepsLock(w) ==
    /\ pc' = [pc EXCEPT ![w] = "idle"]
    /\ job' = [job EXCEPT ![w] = NoJob]
    /\ UNCHANGED lock

\* Ends the transaction of w, which frees the lock it holds.
EndTx(w) ==
    /\ pc' = [pc EXCEPT ![w] = "idle"]
    /\ job' = [job EXCEPT ![w] = NoJob]
    /\ lock' = [g \in Grants |-> IF lock[g] = w THEN None ELSE lock[g]]

-----------------------------------------------------------------------------
\* authorize: the page of a signed-in user stores a request.
Authorize(r, s) ==
    /\ reqs[r] = NoRequest
    /\ reqs' = [reqs EXCEPT ![r] = [row |-> "pending", scopes |-> s]]
    /\ UNCHANGED <<client, code, tok, online, expired, lock, pc, job, history>>

\* consent reads the request and begins its transaction.  The NOW() of the
\* DELETE in ConsentAllow is taken here, so an expiry after this step does not
\* stop it.
ConsentRead(w, r) ==
    /\ pc[w] = "idle"
    /\ reqs[r].row = "pending" /\ r \notin expired
    /\ pc' = [pc EXCEPT ![w] = "consent"]
    /\ job' = [job EXCEPT ![w] = [NoJob EXCEPT !.kind = "consent", !.cred = r,
                                               !.scopes = reqs[r].scopes]]
    /\ UNCHANGED <<tables, online, expired, lock, history>>

ConsentDeny(w) ==
    /\ pc[w] = "consent"
    /\ reqs' = [reqs EXCEPT ![job[w].cred].row = "gone"]
    /\ EndTx(w)
    /\ UNCHANGED <<client, code, tok, online, expired, history>>

\* Mutant: RowsAffected of the DELETE is not looked at.
ConsentAllowTwice(w, g) ==
    /\ pc[w] = "consent"
    /\ online
    /\ client[g] = NoGrant
    /\ reqs' = [reqs EXCEPT ![job[w].cred].row = "gone"]
    /\ client' = [client EXCEPT ![g] =
            [status |-> "active", req |-> job[w].cred, scopes |-> job[w].scopes]]
    /\ code' = [code EXCEPT ![g] = TRUE]
    /\ EndTx(w)
    /\ UNCHANGED <<tok, online, expired, history>>

\* One transaction under lockRegistrations: the DELETE must still find the
\* request, the account must be active.
ConsentAllow(w, g) ==
    LET r == job[w].cred IN
    /\ pc[w] = "consent"
    /\ reqs[r].row = "pending"
    /\ online
    /\ client[g] = NoGrant
    /\ reqs' = [reqs EXCEPT ![r].row = "gone"]
    /\ client' = [client EXCEPT ![g] =
            [status |-> "active", req |-> r, scopes |-> job[w].scopes]]
    /\ code' = [code EXCEPT ![g] = TRUE]
    /\ EndTx(w)
    /\ UNCHANGED <<tok, online, expired, history>>

-----------------------------------------------------------------------------
\* token discovers the grant of a code or of a refresh token without a lock.
TokenByCode(w, g) ==
    /\ pc[w] = "idle"
    /\ code[g]
    /\ pc' = [pc EXCEPT ![w] = "lock"]
    /\ job' = [job EXCEPT ![w] = [kind |-> "code", cred |-> g, grant |-> g,
                     late |-> g \in expired, scopes |-> client[g].scopes]]
    /\ UNCHANGED <<tables, online, expired, lock, history>>

TokenByRefresh(w, i, s) ==
    /\ pc[w] = "idle"
    /\ Stored(i)
    /\ pc' = [pc EXCEPT ![w] = "lock"]
    /\ job' = [job EXCEPT ![w] = [kind |-> "refresh", cred |-> i,
                     grant |-> tok[i].grant, late |-> i \in expired,
                     scopes |-> s]]
    /\ UNCHANGED <<tables, online, expired, lock, history>>

\* The refresh token is not there any more: invalid_grant.
TokenUnknown(i) ==
    /\ tok[i].refresh = "purged"
    /\ refused' = refused \cup ({i} \cap consumed)
    /\ UNCHANGED <<tables, online, expired, lock, pc, job, closed, consumed>>

\* revoke discovers the grant of a refresh token, or of an access token whose
\* grant has a refresh token of the same client.
Revoke(w, i) ==
    /\ pc[w] = "idle"
    /\ \/ Stored(i)
       \/ /\ tok[i].access # "none"
          /\ \E j \in Tokens : Stored(j) /\ tok[j].grant = tok[i].grant
    /\ pc' = [pc EXCEPT ![w] = "lock"]
    /\ job' = [job EXCEPT ![w] = [NoJob EXCEPT !.kind = "revoke", !.cred = i,
                                               !.grant = tok[i].grant]]
    /\ UNCHANGED <<tables, online, expired, lock, history>>

\* accountRevoke: the owner names the grant.
AccountRevoke(w, g) ==
    /\ pc[w] = "idle"
    /\ client[g] # NoGrant
    /\ pc' = [pc EXCEPT ![w] = "lock"]
    /\ job' = [job EXCEPT ![w] = [NoJob EXCEPT !.kind = "account", !.cred = g,
                                               !.grant = g]]
    /\ UNCHANGED <<tables, online, expired, lock, history>>

\* Mutant: rotation and revocation are not serialized.
LockGrantShared(w) ==
    /\ pc[w] = "lock"
    /\ lock' = [lock EXCEPT ![job[w].grant] = w]
    /\ pc' = [pc EXCEPT ![w] = "exec"]
    /\ UNCHANGED <<tables, online, expired, job, history>>

\* LockGrant: pg_advisory_xact_lock.
LockGrant(w) ==
    /\ pc[w] = "lock"
    /\ lock[job[w].grant] = None
    /\ lock' = [lock EXCEPT ![job[w].grant] = w]
    /\ pc' = [pc EXCEPT ![w] = "exec"]
    /\ UNCHANGED <<tables, online, expired, job, history>>

\* Mutant: the code found before the lock is trusted.
ExecCodeUnread(w) ==
    /\ pc[w] = "exec" /\ job[w].kind = "code" /\ ~job[w].late
    /\ online /\ client[job[w].grant].status = "active"
    /\ pc' = [pc EXCEPT ![w] = "issue"]
    /\ UNCHANGED <<tables, online, expired, lock, job, history>>

\* The code read again FOR UPDATE: expiry, redirect and verifier checked, and
\* issue() finds grant and account active.
ExecCode(w) ==
    /\ pc[w] = "exec" /\ job[w].kind = "code"
    /\ code[job[w].grant] /\ ~job[w].late
    /\ online /\ client[job[w].grant].status = "active"
    /\ pc' = [pc EXCEPT ![w] = "issue"]
    /\ UNCHANGED <<tables, online, expired, lock, job, history>>

\* Mutant: a replayed token is only rejected.
ExecRefreshRejects(w) ==
    LET i == job[w].cred IN
    /\ pc[w] = "exec" /\ job[w].kind = "refresh"
    /\ \/ /\ tok[i].refresh = "revoked"
          /\ refused' = refused \cup ({i} \cap consumed)
          /\ EndTx(w)
       \/ /\ tok[i].refresh = "live" /\ ~job[w].late
          /\ online /\ client[job[w].grant].status = "active"
          /\ pc' = [pc EXCEPT ![w] = "issue"]
          /\ UNCHANGED <<lock, job, refused>>
    /\ UNCHANGED <<tables, online, expired, closed, consumed>>

\* Mutant: the requested scopes are not compared with the stored ones.
ExecRefreshWidens(w) ==
    LET i == job[w].cred IN
    /\ pc[w] = "exec" /\ job[w].kind = "refresh"
    /\ \/ /\ tok[i].refresh = "revoked"
          /\ pc' = [pc EXCEPT ![w] = "close"]
       \/ /\ tok[i].refresh = "live" /\ ~job[w].late
          /\ online /\ client[job[w].grant].status = "active"
          /\ pc' = [pc EXCEPT ![w] = "issue"]
    /\ UNCHANGED <<tables, online, expired, lock, job, history>>

\* The refresh token read again FOR UPDATE: a revoked one closes the grant, an
\* expired one is refused, the requested scopes may only narrow.
ExecRefresh(w) ==
    LET i == job[w].cred IN
    /\ pc[w] = "exec" /\ job[w].kind = "refresh"
    /\ \/ /\ tok[i].refresh = "revoked"
          /\ pc' = [pc EXCEPT ![w] = "close"]
       \/ /\ tok[i].refresh = "live" /\ ~job[w].late
          /\ job[w].scopes \subseteq tok[i].scopes
          /\ online /\ client[job[w].grant].status = "active"
          /\ pc' = [pc EXCEPT ![w] = "issue"]
    /\ UNCHANGED <<tables, online, expired, lock, job, history>>

\* The refresh token was purged before it was read again: invalid_grant.
ExecUnknown(w) ==
    /\ pc[w] = "exec" /\ job[w].kind = "refresh"
    /\ tok[job[w].cred].refresh = "purged"
    /\ refused' = refused \cup ({job[w].cred} \cap consumed)
    /\ EndTx(w)
    /\ UNCHANGED <<tables, online, expired, closed, consumed>>

\* RevokeGrant runs its statements; the account page first wants to see an
\* access token.
ExecRevoke(w) ==
    /\ pc[w] = "exec" /\ job[w].kind \in {"revoke", "account"}
    /\ job[w].kind = "account" =>
          \E i \in Tokens : tok[i].grant = job[w].grant
    /\ pc' = [pc EXCEPT ![w] = "close"]
    /\ UNCHANGED <<tables, online, expired, lock, job, history>>

\* The code is deleted, or the refresh token revoked, with the new pair stored.
CommitIssue(w, n) ==
    LET j == job[w]
        new == [grant |-> j.grant, access |-> "live", refresh |-> "live",
                scopes |-> j.scopes]
    IN
    /\ pc[w] = "issue"
    /\ tok[n] = NoToken
    /\ \/ /\ j.kind = "code"
          /\ code' = [code EXCEPT ![j.grant] = FALSE]
          /\ tok' = [tok EXCEPT ![n] = new]
          /\ UNCHANGED consumed
       \/ /\ j.kind = "refresh"
          /\ tok' = [tok EXCEPT ![n] = new, ![j.cred].refresh = "revoked"]
          /\ consumed' = consumed \cup {j.cred}
          /\ UNCHANGED code
    /\ EndTx(w)
    /\ UNCHANGED <<reqs, client, online, expired, closed, refused>>

\* What RevokeGrant leaves of the pairs: none of the grant's is live.
RevokedPairs(g) ==
    [i \in Tokens |->
        IF tok[i].grant # g THEN tok[i]
        ELSE [tok[i] EXCEPT !.access = "revoked",
                            !.refresh = IF @ = "live" THEN "revoked" ELSE @]]

CommitClose(w) ==
    LET g == job[w].grant IN
    /\ pc[w] = "close"
    /\ client' = [client EXCEPT ![g].status = "disabled"]
    /\ tok' = RevokedPairs(g)
    /\ code' = [code EXCEPT ![g] = FALSE]
    /\ closed' = closed \cup {g}
    /\ refused' = refused \cup (IF job[w].kind = "refresh"
                                THEN {job[w].cred} \cap consumed ELSE {})
    /\ EndTx(w)
    /\ UNCHANGED <<reqs, online, expired, consumed>>

\* Any check or statement fails, the client goes away or the process dies: the
\* transaction rolls back.
Rollback(w) ==
    /\ pc[w] # "idle"
    /\ EndTx(w)
    /\ UNCHANGED <<tables, online, expired, history>>

-----------------------------------------------------------------------------
\* adminRevokeClient disables the client and takes no lock.
AdminRevoke(g) ==
    /\ client[g].status = "active"
    /\ client' = [client EXCEPT ![g].status = "disabled"]
    /\ UNCHANGED <<reqs, code, tok, online, expired, lock, pc, job, history>>

\* The account is disconnected, or connected again.
AccountStatus ==
    /\ online' = ~online
    /\ UNCHANGED <<tables, expired, lock, pc, job, history>>

\* expires_at of a row passes.
Expire(x) ==
    /\ \/ x \in Requests /\ reqs[x].row = "pending"
       \/ x \in Grants /\ code[x]
       \/ x \in Tokens /\ Stored(x)
    /\ x \notin expired
    /\ expired' = expired \cup {x}
    /\ UNCHANGED <<tables, online, lock, pc, job, history>>

\* The row is locked by a transaction that read it FOR UPDATE or wrote it.
RowLocked(x) ==
    \E w \in Workers :
        \/ pc[w] \in {"issue", "close"} /\ job[w].cred = x
        \/ /\ pc[w] = "close"
           /\ \/ x = job[w].grant
              \/ x \in Tokens /\ tok[x].grant = job[w].grant

\* Maintain deletes the expired rows, one statement per table; a locked row
\* makes the statement wait.
PurgeRequests ==
    /\ reqs' = [r \in Requests |->
            IF r \in expired THEN [reqs[r] EXCEPT !.row = "gone"] ELSE reqs[r]]
    /\ UNCHANGED <<client, code, tok, online, expired, lock, pc, job, history>>

PurgeCodes ==
    /\ \A g \in expired \cap Grants : ~RowLocked(g)
    /\ code' = [g \in Grants |-> code[g] /\ g \notin expired]
    /\ UNCHANGED <<reqs, client, tok, online, expired, lock, pc, job, history>>

PurgeRefresh ==
    /\ \A i \in expired \cap Tokens : ~RowLocked(i)
    /\ tok' = [i \in Tokens |->
            IF i \in expired THEN [tok[i] EXCEPT !.refresh = "purged"]
                             ELSE tok[i]]
    /\ UNCHANGED <<reqs, client, code, online, expired, lock, pc, job, history>>

TxStep(w) ==
    \/ ConsentDeny(w)
    \/ \E g \in Grants : ConsentAllow(w, g)
    \/ LockGrant(w)
    \/ ExecCode(w) \/ ExecRefresh(w) \/ ExecUnknown(w) \/ ExecRevoke(w)
    \/ \E n \in Tokens : CommitIssue(w, n)
    \/ CommitClose(w)
    \/ Rollback(w)

Begin(w) ==
    \/ \E r \in Requests : ConsentRead(w, r)
    \/ \E g \in Grants : TokenByCode(w, g) \/ AccountRevoke(w, g)
    \/ \E i \in Tokens : Revoke(w, i) \/ \E s \in Asked : TokenByRefresh(w, i, s)

Next ==
    \/ \E w \in Workers : Begin(w) \/ TxStep(w)
    \/ \E r \in Requests, s \in Asked : Authorize(r, s)
    \/ \E i \in Tokens : TokenUnknown(i)
    \/ \E g \in Grants : AdminRevoke(g)
    \/ AccountStatus
    \/ \E x \in Requests \cup Grants \cup Tokens : Expire(x)
    \/ PurgeRequests \/ PurgeCodes \/ PurgeRefresh

Spec == Init /\ [][Next]_vars

\* A transaction past its lock ends, by commit or by rollback; advisory locks
\* are granted in the order they were asked for, so a waiter is not overtaken
\* for ever.
Fairness ==
    /\ \A w \in Workers :
          /\ WF_vars(pc[w] # "lock" /\ TxStep(w))
          /\ SF_vars(LockGrant(w))

FairSpec == Spec /\ Fairness

-----------------------------------------------------------------------------
\* A grant closed by RevokeGrant stays closed: whatever rotation or exchange
\* was under way, its client is disabled, its code is gone and none of its
\* tokens is live (repository.go:40-41, "including tokens issued by a
\* concurrent rotation").
ClosedStaysClosed ==
    \A g \in closed :
        /\ client[g].status = "disabled"
        /\ ~code[g]
        /\ \A i \in Tokens : tok[i].grant = g =>
              tok[i].access = "revoked" /\ tok[i].refresh # "live"

\* A grant has one way forward at most: its unspent code or one live refresh
\* token, so two concurrent exchanges of the same one cannot both succeed.
OneWayForward ==
    \A i, j \in Tokens :
        tok[i].refresh = "live" /\ tok[j].refresh = "live"
            /\ tok[i].grant = tok[j].grant
                => i = j /\ ~code[tok[i].grant]

\* One consent creates one grant, however often the form is submitted.
OneGrantPerRequest ==
    \A g, h \in Grants :
        client[g] # NoGrant /\ client[g].req = client[h].req => g = h

\* Rotation never widens what the user consented to.
ScopesNeverWiden ==
    \A i \in Tokens : tok[i] # NoToken =>
        tok[i].scopes \subseteq client[tok[i].grant].scopes

\* Presenting a consumed refresh token again closes its grant, as long as the
\* row that proves the replay has not been cleaned up.
DetectedReplayCloses ==
    \A i \in refused : tok[i].refresh = "purged" \/ tok[i].grant \in closed

\* README.md:250: "Reusing a consumed refresh token closes its entire
\* authorization grant, including successor refresh tokens and access tokens".
ReplayClosesGrant == \A i \in refused : tok[i].grant \in closed

\* Whoever waits for a grant's lock gets it or gives up.
WaiterServed == \A w \in Workers : pc[w] = "lock" ~> pc[w] # "lock"
=============================================================================
