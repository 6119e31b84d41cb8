------------------------- MODULE OAuthGrantsProofs -------------------------
(***************************************************************************)
(* The safety of OAuthGrants for any number of requests, grants, tokens    *)
(* and concurrent transactions.  The argument is the one repository.go     *)
(* makes for LockGrant: a transaction that is about to commit holds its    *)
(* grant's lock (LockHeld) and the credential it read is still what it     *)
(* read (Pending), because only lock holders spend credentials and the     *)
(* clean-up waits for locked rows.                                         *)
(*                                                                         *)
(* Then that of OAuthRegistrations, for any number of registrations and    *)
(* transactions and any MaxUnused: whoever holds the registration lock has *)
(* decided to delete only what is still unused (PruneHolds), because every *)
(* new reference is made under the same lock.                              *)
(***************************************************************************)
EXTENDS MCOAuth, FiniteSetTheorems, WellFoundedInduction, TLAPS

\* An absent grant has left no trace, and an unused id has no token.
Fresh ==
    /\ \A g \in Grants : client[g].status = "none" =>
          /\ client[g] = NoGrant
          /\ ~code[g]
          /\ g \notin closed
          /\ \A i \in Tokens : tok[i].grant # g
    /\ \A i \in Tokens :
          \/ tok[i] = NoToken /\ i \notin expired
          \/ tok[i].grant \in Grants /\ tok[i].access # "none"
                                     /\ tok[i].refresh # "none"

\* At step s, the job j is about a request or a grant that exists, with a
\* credential of that grant.
JobFits(s, j) ==
    /\ s = "consent" =>
          j.cred \in Requests /\ reqs[j.cred].row # "none"
    /\ s \in Locked \cup {"lock"} =>
          /\ j.grant \in Grants
          /\ client[j.grant].status # "none"
          /\ j.kind = "code" =>
                j.cred = j.grant /\ j.scopes = client[j.grant].scopes
          /\ j.kind = "refresh" =>
                j.cred \in Tokens /\ tok[j.cred].grant = j.grant

JobOK == \A w \in Workers : JobFits(pc[w], job[w])

\* Two transactions are never past LockGrant for the same grant.
LockHeld ==
    \A w \in Workers : pc[w] \in Locked => lock[job[w].grant] = w

\* The credential of job j is there to be spent.
Spendable(j) ==
    \/ j.kind = "code" /\ code[j.grant]
    \/ /\ j.kind = "refresh"
       /\ tok[j.cred].refresh = "live"
       /\ j.scopes \subseteq tok[j.cred].scopes

\* The credential read under the lock is still there at commit.
Pending == \A w \in Workers : pc[w] = "issue" => Spendable(job[w])

\* A grant keeps the request it was consented on, which is spent.
Consented ==
    \A g \in Grants : client[g].status # "none" =>
        client[g].req \in Requests /\ reqs[client[g].req].row = "gone"

\* A rotated refresh token is never live again.
Spent ==
    /\ \A i \in consumed : tok[i].refresh \in {"revoked", "purged"}
    /\ refused \subseteq consumed

\* What the workers rely on, and what the tables satisfy.
WorkerInv == JobOK /\ LockHeld /\ Pending

TableInv ==
    /\ Fresh
    /\ Consented
    /\ Spent
    /\ ClosedStaysClosed
    /\ OneWayForward
    /\ OneGrantPerRequest
    /\ ScopesNeverWiden
    /\ DetectedReplayCloses

IInv == TypeOK /\ WorkerInv /\ TableInv

-----------------------------------------------------------------------------
\* The type of pc, job and lock, and that only a worker past LockGrant holds a
\* lock.
WorkerType ==
    /\ lock \in [Grants -> Workers \cup {None}]
    /\ pc \in [Workers -> {"idle", "consent", "lock"} \cup Locked]
    /\ job \in [Workers -> Jobs]
    /\ \A g \in Grants : lock[g] # None => pc[lock[g]] \in Locked

TableType ==
    /\ reqs \in [Requests -> Rows]
    /\ client \in [Grants -> Clients]
    /\ code \in [Grants -> BOOLEAN]
    /\ tok \in [Tokens -> Pairs]
    /\ online \in BOOLEAN
    /\ expired \in SUBSET (Requests \cup Grants \cup Tokens)
    /\ closed \in SUBSET Grants
    /\ consumed \in SUBSET Tokens
    /\ refused \in SUBSET Tokens

\* The two halves of TypeOK.
LEMMA TypeSplit == TypeOK <=> WorkerType /\ TableType
  BY DEF TypeOK, WorkerType, TableType

\* IInv after a step, from its parts.
LEMMA Join ==
    ASSUME WorkerType', TableType', WorkerInv', TableInv'
    PROVE  IInv'
  BY DEF IInv, TypeOK, WorkerType, TableType

\* The null records have their types.
LEMMA Nulls ==
    /\ NoRequest \in Rows /\ NoGrant \in Clients /\ NoToken \in Pairs
    /\ NoJob \in Jobs
  BY DEF NoRequest, Rows, NoGrant, Clients, NoToken, Pairs, NoJob, Jobs

\* The end of a transaction keeps the types, and every other worker's lock.
LEMMA EndTxType ==
    ASSUME WorkerType, NEW w \in Workers, EndTx(w)
    PROVE  WorkerType'
<1> USE GrantAssumption DEF WorkerType, EndTx
<1>1. pc' \in [Workers -> {"idle", "consent", "lock"} \cup Locked]
  OBVIOUS
<1>2. job' \in [Workers -> Jobs]
  BY Nulls
<1>3. lock' \in [Grants -> Workers \cup {None}]
  OBVIOUS
<1>4. ASSUME NEW g \in Grants, lock'[g] # None
      PROVE  pc'[lock'[g]] \in Locked
  <2>1. lock'[g] = lock[g] /\ lock[g] # w /\ lock[g] \in Workers
    BY <1>4
  <2> QED BY <1>4, <2>1
<1> QED BY <1>1, <1>2, <1>3, <1>4

\* A worker begins with a well-typed job.
LEMMA BeginType ==
    ASSUME WorkerType, NEW w \in Workers, NEW s \in {"consent", "lock"},
           NEW j \in Jobs, pc[w] = "idle", pc' = [pc EXCEPT ![w] = s],
           job' = [job EXCEPT ![w] = j], lock' = lock
    PROVE  WorkerType'
<1> USE DEF WorkerType
<1>1. ASSUME NEW g \in Grants, lock'[g] # None
      PROVE  pc'[lock'[g]] \in Locked
  BY <1>1 DEF Locked
<1> QED BY <1>1

\* A worker with its lock goes on to another step with the lock.
LEMMA HeldType ==
    ASSUME WorkerType, NEW w \in Workers, NEW s \in Locked,
           pc' = [pc EXCEPT ![w] = s], UNCHANGED <<job, lock>>
    PROVE  WorkerType'
  BY DEF WorkerType

-----------------------------------------------------------------------------
\* The tables only move on: what a job refers to does not vanish or change.
Stable ==
    /\ \A r \in Requests : reqs[r].row # "none" => reqs'[r].row # "none"
    /\ \A g \in Grants : client[g].status # "none" =>
          client'[g].status # "none" /\ client'[g].scopes = client[g].scopes
    /\ \A i \in Tokens : tok[i].grant \in Grants => tok'[i].grant = tok[i].grant

\* A job that fits still does after the tables moved on.
LEMMA FitsStable ==
    ASSUME Stable, NEW s, NEW j, JobFits(s, j)
    PROVE  /\ s = "consent" =>
                 j.cred \in Requests /\ reqs'[j.cred].row # "none"
           /\ s \in Locked \cup {"lock"} =>
                 /\ j.grant \in Grants
                 /\ client'[j.grant].status # "none"
                 /\ j.kind = "code" =>
                       j.cred = j.grant /\ j.scopes = client'[j.grant].scopes
                 /\ j.kind = "refresh" =>
                       j.cred \in Tokens /\ tok'[j.cred].grant = j.grant
  BY DEF Stable, JobFits

\* The workers after a step that ends the transaction of w, where no other
\* worker loses the credential it is about to spend.
LEMMA EndWorkers ==
    ASSUME WorkerType, WorkerInv, Stable, NEW w \in Workers, EndTx(w),
           \A v \in Workers \ {w} : pc[v] = "issue" =>
               \/ job[v].kind = "code" /\ code'[job[v].grant]
               \/ /\ job[v].kind = "refresh"
                  /\ tok'[job[v].cred].refresh = "live"
                  /\ job[v].scopes \subseteq tok'[job[v].cred].scopes
    PROVE  WorkerInv'
<1>1. /\ pc'[w] = "idle"
      /\ \A v \in Workers \ {w} : pc'[v] = pc[v] /\ job'[v] = job[v]
  BY DEF WorkerType, EndTx
<1>2. JobOK'
  <2> SUFFICES ASSUME NEW v \in Workers PROVE JobFits(pc[v], job[v])'
    BY DEF JobOK
  <2>1. CASE v = w
    BY <1>1, <2>1 DEF JobFits, Locked
  <2>2. CASE v # w
    <3>1. JobFits(pc[v], job[v])
      BY DEF WorkerInv, JobOK
    <3> QED BY <1>1, <2>2, <3>1, FitsStable DEF JobFits
  <2> QED BY <2>1, <2>2
<1>3. LockHeld'
  <2> SUFFICES ASSUME NEW v \in Workers, pc'[v] \in Locked
               PROVE  lock'[job'[v].grant] = v
    BY DEF LockHeld
  <2>1. v # w
    BY <1>1 DEF Locked
  <2>2. lock[job[v].grant] = v /\ job[v].grant \in Grants
    BY <1>1, <2>1 DEF WorkerInv, LockHeld, JobOK, JobFits
  <2> QED BY <1>1, <2>1, <2>2 DEF EndTx
<1>4. Pending'
  <2> SUFFICES ASSUME NEW v \in Workers, pc'[v] = "issue"
               PROVE  Spendable(job[v])'
    BY DEF Pending
  <2>1. v # w
    BY <1>1
  <2> QED BY <1>1, <2>1 DEF Spendable
<1> QED BY <1>2, <1>3, <1>4 DEF WorkerInv

\* The workers after a step of somebody else.
LEMMA OtherWorkers ==
    ASSUME WorkerInv, Stable, UNCHANGED <<pc, job, lock>>,
           \A v \in Workers : pc[v] = "issue" =>
               \/ job[v].kind = "code" /\ code'[job[v].grant]
               \/ /\ job[v].kind = "refresh"
                  /\ tok'[job[v].cred].refresh = "live"
                  /\ job[v].scopes \subseteq tok'[job[v].cred].scopes
    PROVE  WorkerInv'
<1>1. JobOK'
  <2> SUFFICES ASSUME NEW v \in Workers PROVE JobFits(pc[v], job[v])'
    BY DEF JobOK
  <2>1. JobFits(pc[v], job[v])
    BY DEF WorkerInv, JobOK
  <2> QED BY <2>1, FitsStable DEF JobFits
<1>2. LockHeld'
  BY DEF WorkerInv, LockHeld
<1>3. Pending'
  BY DEF Pending, Spendable
<1> QED BY <1>1, <1>2, <1>3 DEF WorkerInv

\* The workers after w begins: its job must fit.
LEMMA BeginWorkers ==
    ASSUME WorkerType, WorkerInv, UNCHANGED <<tables, lock>>,
           NEW w \in Workers, NEW s \in {"consent", "lock"}, NEW j,
           JobFits(s, j), pc' = [pc EXCEPT ![w] = s],
           job' = [job EXCEPT ![w] = j]
    PROVE  WorkerInv'
<1>1. /\ pc'[w] = s /\ job'[w] = j
      /\ \A v \in Workers \ {w} : pc'[v] = pc[v] /\ job'[v] = job[v]
  BY DEF WorkerType
<1>2. UNCHANGED <<reqs, client, code, tok>>
  BY DEF tables
<1>3. JobOK'
  BY <1>1, <1>2 DEF WorkerInv, JobOK, JobFits
<1>4. LockHeld'
  BY <1>1 DEF WorkerInv, LockHeld, Locked
<1>5. Pending'
  BY <1>1, <1>2 DEF WorkerInv, Pending, Spendable
<1> QED BY <1>3, <1>4, <1>5 DEF WorkerInv

\* The workers after w, with its lock, reaches step s with a credential that
\* can be spent if s is the commit of an issue.
LEMMA HeldWorkers ==
    ASSUME WorkerType, WorkerInv, UNCHANGED <<tables, lock, job>>,
           NEW w \in Workers, NEW s \in Locked, pc[w] \in Locked,
           pc' = [pc EXCEPT ![w] = s], s = "issue" => Spendable(job[w])
    PROVE  WorkerInv'
<1>1. /\ pc'[w] = s
      /\ \A v \in Workers \ {w} : pc'[v] = pc[v]
  BY DEF WorkerType
<1>2. UNCHANGED <<reqs, client, code, tok>>
  BY DEF tables
<1>3. JobOK'
  BY <1>1, <1>2 DEF WorkerInv, JobOK, JobFits, Locked
<1>4. LockHeld'
  BY <1>1 DEF WorkerInv, LockHeld
<1>5. Pending'
  BY <1>1, <1>2 DEF WorkerInv, Pending, Spendable
<1> QED BY <1>3, <1>4, <1>5 DEF WorkerInv

\* TableInv speaks of the tables, the histories and expired tokens only.
LEMMA ExpiringTables ==
    ASSUME TableInv, UNCHANGED <<tables, history>>,
           \A i \in Tokens : i \in expired' => i \in expired \/ tok[i] # NoToken
    PROVE  TableInv'
<1>1. UNCHANGED <<reqs, client, code, tok, closed, consumed, refused>>
  BY DEF tables, history
<1>2. Fresh'
  BY <1>1 DEF TableInv, Fresh
<1>3. Consented' /\ Spent' /\ ClosedStaysClosed'
  BY <1>1 DEF TableInv, Consented, Spent, ClosedStaysClosed
<1>4. OneWayForward' /\ OneGrantPerRequest'
  BY <1>1 DEF TableInv, OneWayForward, OneGrantPerRequest
<1>5. ScopesNeverWiden' /\ DetectedReplayCloses'
  BY <1>1 DEF TableInv, ScopesNeverWiden, DetectedReplayCloses
<1> QED BY <1>2, <1>3, <1>4, <1>5 DEF TableInv

\* A step that leaves tables and histories alone keeps TableInv ...
LEMMA SameTables ==
    ASSUME TableInv, UNCHANGED <<tables, history, expired>>
    PROVE  TableInv'
<1>1. \A i \in Tokens : i \in expired' => i \in expired \/ tok[i] # NoToken
  OBVIOUS
<1> QED BY <1>1, ExpiringTables

\* ... and their types.
LEMMA SameTypes ==
    ASSUME TableType, UNCHANGED <<tables, history, expired>>, online' \in BOOLEAN
    PROVE  TableType'
<1>1. UNCHANGED <<reqs, client, code, tok, closed, consumed, refused>>
  BY DEF tables, history
<1> QED BY <1>1 DEF TableType

\* Nothing else changes when the tables stay.
LEMMA SameStable == UNCHANGED tables => Stable
  BY DEF tables, Stable

-----------------------------------------------------------------------------
\* Every request begins with a job that fits what it found.
LEMMA BeginStep ==
    ASSUME IInv, NEW w \in Workers, Begin(w)
    PROVE  IInv'
<1>1. WorkerType /\ TableType /\ WorkerInv /\ TableInv
  BY TypeSplit DEF IInv
<1>2. PICK s \in {"consent", "lock"}, j \in Jobs :
        /\ JobFits(s, j)
        /\ pc[w] = "idle"
        /\ pc' = [pc EXCEPT ![w] = s]
        /\ job' = [job EXCEPT ![w] = j]
        /\ UNCHANGED <<tables, online, expired, lock, history>>
  <2>1. ASSUME NEW r \in Requests, ConsentRead(w, r)
        PROVE  \E s \in {"consent", "lock"}, j \in Jobs :
                 /\ JobFits(s, j)
                 /\ pc[w] = "idle"
                 /\ pc' = [pc EXCEPT ![w] = s]
                 /\ job' = [job EXCEPT ![w] = j]
                 /\ UNCHANGED <<tables, online, expired, lock, history>>
    <3> DEFINE j == [NoJob EXCEPT !.kind = "consent", !.cred = r,
                                  !.scopes = reqs[r].scopes]
    <3>1. reqs[r].scopes \in SUBSET Scopes
      BY <1>1 DEF TableType, Rows
    <3>2. j \in Jobs
      BY <3>1 DEF NoJob, Jobs
    <3>3. JobFits("consent", j)
      BY <2>1 DEF ConsentRead, JobFits, NoJob, Locked
    <3> QED BY <2>1, <3>2, <3>3 DEF ConsentRead
  <2>2. ASSUME NEW g \in Grants, TokenByCode(w, g)
        PROVE  \E s \in {"consent", "lock"}, j \in Jobs :
                 /\ JobFits(s, j)
                 /\ pc[w] = "idle"
                 /\ pc' = [pc EXCEPT ![w] = s]
                 /\ job' = [job EXCEPT ![w] = j]
                 /\ UNCHANGED <<tables, online, expired, lock, history>>
    <3> DEFINE j == [kind |-> "code", cred |-> g, grant |-> g,
                     late |-> g \in expired, scopes |-> client[g].scopes]
    <3>1. client[g].scopes \in SUBSET Scopes
      BY <1>1 DEF TableType, Clients
    <3>2. j \in Jobs
      BY <3>1 DEF Jobs
    <3>3. client[g].status # "none"
      BY <1>1, <2>2 DEF TokenByCode, TableInv, Fresh
    <3>4. JobFits("lock", j)
      BY <3>3 DEF JobFits, Locked
    <3> QED BY <2>2, <3>2, <3>4 DEF TokenByCode
  <2>3. ASSUME NEW g \in Grants, AccountRevoke(w, g)
        PROVE  \E s \in {"consent", "lock"}, j \in Jobs :
                 /\ JobFits(s, j)
                 /\ pc[w] = "idle"
                 /\ pc' = [pc EXCEPT ![w] = s]
                 /\ job' = [job EXCEPT ![w] = j]
                 /\ UNCHANGED <<tables, online, expired, lock, history>>
    <3> DEFINE j == [NoJob EXCEPT !.kind = "account", !.cred = g, !.grant = g]
    <3>1. j \in Jobs
      BY DEF NoJob, Jobs
    <3>2. client[g].status # "none"
      BY <1>1, <2>3 DEF AccountRevoke, TableInv, Fresh
    <3>3. JobFits("lock", j)
      BY <3>2 DEF JobFits, NoJob
    <3> QED BY <2>3, <3>1, <3>3 DEF AccountRevoke
  <2>4. ASSUME NEW i \in Tokens, tok[i] # NoToken
        PROVE  tok[i].grant \in Grants /\ client[tok[i].grant].status # "none"
    BY <1>1, <2>4 DEF TableInv, Fresh
  <2>5. NoToken.refresh = "none" /\ NoToken.access = "none"
    BY DEF NoToken
  <2>6. ASSUME NEW i \in Tokens, Revoke(w, i)
        PROVE  \E s \in {"consent", "lock"}, j \in Jobs :
                 /\ JobFits(s, j)
                 /\ pc[w] = "idle"
                 /\ pc' = [pc EXCEPT ![w] = s]
                 /\ job' = [job EXCEPT ![w] = j]
                 /\ UNCHANGED <<tables, online, expired, lock, history>>
    <3> DEFINE j == [NoJob EXCEPT !.kind = "revoke", !.cred = i,
                                  !.grant = tok[i].grant]
    <3>1. tok[i] # NoToken
      BY <2>5, <2>6 DEF Revoke, Stored
    <3>2. tok[i].grant \in Grants /\ client[tok[i].grant].status # "none"
      BY <2>4, <3>1
    <3>3. j \in Jobs
      BY <3>2 DEF NoJob, Jobs
    <3>4. JobFits("lock", j)
      BY <3>2 DEF JobFits, NoJob
    <3> QED BY <2>6, <3>3, <3>4 DEF Revoke
  <2>7. ASSUME NEW i \in Tokens, NEW a \in Asked, TokenByRefresh(w, i, a)
        PROVE  \E s \in {"consent", "lock"}, j \in Jobs :
                 /\ JobFits(s, j)
                 /\ pc[w] = "idle"
                 /\ pc' = [pc EXCEPT ![w] = s]
                 /\ job' = [job EXCEPT ![w] = j]
                 /\ UNCHANGED <<tables, online, expired, lock, history>>
    <3> DEFINE j == [kind |-> "refresh", cred |-> i, grant |-> tok[i].grant,
                     late |-> i \in expired, scopes |-> a]
    <3>1. tok[i] # NoToken
      BY <2>5, <2>7 DEF TokenByRefresh, Stored
    <3>2. tok[i].grant \in Grants /\ client[tok[i].grant].status # "none"
      BY <2>4, <3>1
    <3>3. j \in Jobs
      BY <3>2 DEF Jobs, Asked
    <3>4. JobFits("lock", j)
      BY <3>2 DEF JobFits
    <3> QED BY <2>7, <3>3, <3>4 DEF TokenByRefresh
  <2> QED BY <2>1, <2>2, <2>3, <2>6, <2>7 DEF Begin
<1>3. WorkerType'
  BY <1>1, <1>2, BeginType
<1>4. WorkerInv'
  BY <1>1, <1>2, BeginWorkers
<1>5. TableType'
  BY <1>1, <1>2, SameTypes DEF TableType
<1>6. TableInv'
  BY <1>1, <1>2, SameTables
<1> QED BY <1>3, <1>4, <1>5, <1>6, Join

\* LockGrant gives the lock to a worker when nobody is past it.
LEMMA LockGrantStep ==
    ASSUME IInv, NEW w \in Workers, LockGrant(w)
    PROVE  IInv'
<1>1. WorkerType /\ TableType /\ WorkerInv /\ TableInv
  BY TypeSplit DEF IInv
<1> DEFINE g == job[w].grant
<1>2. /\ pc[w] = "lock" /\ lock[g] = None /\ g \in Grants
      /\ lock' = [lock EXCEPT ![g] = w] /\ pc' = [pc EXCEPT ![w] = "exec"]
      /\ UNCHANGED <<tables, online, expired, job, history>>
  BY <1>1 DEF LockGrant, WorkerInv, JobOK, JobFits
<1>3. /\ pc'[w] = "exec"
      /\ \A v \in Workers \ {w} : pc'[v] = pc[v]
      /\ lock'[g] = w
      /\ \A h \in Grants \ {g} : lock'[h] = lock[h]
  BY <1>1, <1>2 DEF WorkerType
<1>4. UNCHANGED <<reqs, client, code, tok>>
  BY <1>2 DEF tables
<1>5. WorkerType'
  <2>1. ASSUME NEW h \in Grants, lock'[h] # None PROVE pc'[lock'[h]] \in Locked
    BY <1>1, <1>2, <1>3, <2>1 DEF WorkerType, Locked
  <2> QED BY <1>1, <1>2, <2>1 DEF WorkerType, Locked
<1>6. JobOK'
  BY <1>1, <1>2, <1>3, <1>4 DEF WorkerInv, JobOK, JobFits, Locked
<1>7. LockHeld'
  <2> SUFFICES ASSUME NEW v \in Workers, pc'[v] \in Locked
               PROVE  lock'[job'[v].grant] = v
    BY DEF LockHeld
  <2>1. CASE v = w
    BY <1>2, <1>3, <2>1
  <2>2. CASE v # w
    <3>1. lock[job[v].grant] = v /\ job[v].grant \in Grants
      BY <1>1, <1>3, <2>2 DEF WorkerInv, LockHeld, JobOK, JobFits
    <3> QED BY <1>2, <1>3, <3>1, GrantAssumption
  <2> QED BY <2>1, <2>2
<1>8. Pending'
  BY <1>1, <1>2, <1>3, <1>4 DEF WorkerInv, Pending, Spendable
<1>9. TableType'
  BY <1>1, <1>2, SameTypes DEF TableType
<1>10. TableInv'
  BY <1>1, <1>2, SameTables
<1> QED BY <1>5, <1>6, <1>7, <1>8, <1>9, <1>10, Join DEF WorkerInv

\* A decision under the lock: an issue follows only from a spendable credential.
LEMMA ExecStep ==
    ASSUME IInv, NEW w \in Workers,
           ExecCode(w) \/ ExecRefresh(w) \/ ExecRevoke(w)
    PROVE  IInv'
<1>1. WorkerType /\ TableType /\ WorkerInv /\ TableInv
  BY TypeSplit DEF IInv
<1>2. PICK s \in Locked :
        /\ pc[w] \in Locked
        /\ pc' = [pc EXCEPT ![w] = s]
        /\ s = "issue" => Spendable(job[w])
        /\ UNCHANGED <<tables, online, expired, lock, job, history>>
  BY DEF ExecCode, ExecRefresh, ExecRevoke, Spendable, Locked
<1>3. WorkerType'
  BY <1>1, <1>2, HeldType
<1>4. WorkerInv'
  BY <1>1, <1>2, HeldWorkers
<1>5. TableType'
  BY <1>1, <1>2, SameTypes DEF TableType
<1>6. TableInv'
  BY <1>1, <1>2, SameTables
<1> QED BY <1>3, <1>4, <1>5, <1>6, Join

\* A rollback ends the transaction and nothing else.
LEMMA RollbackStep ==
    ASSUME IInv, NEW w \in Workers, Rollback(w)
    PROVE  IInv'
<1>1. WorkerType /\ TableType /\ WorkerInv /\ TableInv
  BY TypeSplit DEF IInv
<1>2. EndTx(w) /\ UNCHANGED <<tables, online, expired, history>>
  BY DEF Rollback
<1>3. UNCHANGED <<reqs, client, code, tok>>
  BY <1>2 DEF tables
<1>4. WorkerType'
  BY <1>1, <1>2, EndTxType
<1>5. WorkerInv'
  <2>1. \A v \in Workers : pc[v] = "issue" =>
           \/ job[v].kind = "code" /\ code'[job[v].grant]
           \/ /\ job[v].kind = "refresh"
              /\ tok'[job[v].cred].refresh = "live"
              /\ job[v].scopes \subseteq tok'[job[v].cred].scopes
    BY <1>1, <1>3 DEF WorkerInv, Pending, Spendable
  <2> QED BY <1>1, <1>2, <2>1, SameStable, EndWorkers
<1>6. TableType'
  BY <1>1, <1>2, SameTypes DEF TableType
<1>7. TableInv'
  BY <1>1, <1>2, SameTables
<1> QED BY <1>4, <1>5, <1>6, <1>7, Join

-----------------------------------------------------------------------------
\* Whoever is about to spend a credential still can, when codes and tokens stay.
LEMMA SameSpendable ==
    ASSUME WorkerInv, UNCHANGED <<code, tok>>
    PROVE  \A v \in Workers : pc[v] = "issue" =>
               \/ job[v].kind = "code" /\ code'[job[v].grant]
               \/ /\ job[v].kind = "refresh"
                  /\ tok'[job[v].cred].refresh = "live"
                  /\ job[v].scopes \subseteq tok'[job[v].cred].scopes
  BY DEF WorkerInv, Pending, Spendable

\* A refusal for want of the row is no detected replay.
LEMMA RefusedTables ==
    ASSUME TableInv, NEW i \in Tokens, tok[i].refresh = "purged",
           refused' = refused \cup ({i} \cap consumed),
           UNCHANGED <<tables, expired, closed, consumed>>
    PROVE  TableInv'
<1>1. UNCHANGED <<reqs, client, code, tok>>
  BY DEF tables
<1>2. Fresh' /\ Consented' /\ ClosedStaysClosed' /\ OneWayForward'
  BY <1>1 DEF TableInv, Fresh, Consented, ClosedStaysClosed, OneWayForward
<1>3. OneGrantPerRequest' /\ ScopesNeverWiden'
  BY <1>1 DEF TableInv, OneGrantPerRequest, ScopesNeverWiden
<1>4. Spent' /\ DetectedReplayCloses'
  BY <1>1 DEF TableInv, Spent, DetectedReplayCloses
<1> QED BY <1>2, <1>3, <1>4 DEF TableInv

\* An unknown token, before or after the lock.
LEMMA UnknownStep ==
    ASSUME IInv, \/ \E i \in Tokens : TokenUnknown(i)
                 \/ \E w \in Workers : ExecUnknown(w)
    PROVE  IInv'
<1>1. WorkerType /\ TableType /\ WorkerInv /\ TableInv
  BY TypeSplit DEF IInv
<1>2. PICK i \in Tokens :
        /\ tok[i].refresh = "purged"
        /\ refused' = refused \cup ({i} \cap consumed)
        /\ UNCHANGED <<tables, online, expired, closed, consumed>>
        /\ UNCHANGED <<lock, pc, job>> \/ \E w \in Workers : EndTx(w)
  BY <1>1 DEF TokenUnknown, ExecUnknown, WorkerInv, JobOK, JobFits, Locked
<1>3. UNCHANGED <<reqs, client, code, tok>>
  BY <1>2 DEF tables
<1>4. WorkerType'
  <2>1. CASE UNCHANGED <<lock, pc, job>>
    BY <1>1, <2>1 DEF WorkerType
  <2>2. CASE \E w \in Workers : EndTx(w)
    BY <1>1, <2>2, EndTxType
  <2> QED BY <1>2, <2>1, <2>2
<1>5. WorkerInv'
  <2>1. Stable
    BY <1>2, SameStable
  <2>2. CASE UNCHANGED <<lock, pc, job>>
    BY <1>1, <1>3, <2>1, <2>2, SameSpendable, OtherWorkers
  <2>3. CASE \E w \in Workers : EndTx(w)
    BY <1>1, <1>3, <2>1, <2>3, SameSpendable, EndWorkers
  <2> QED BY <1>2, <2>2, <2>3
<1>6. TableType'
  BY <1>1, <1>2, <1>3 DEF TableType
<1>7. TableInv'
  BY <1>1, <1>2, RefusedTables
<1> QED BY <1>4, <1>5, <1>6, <1>7, Join

\* A request is stored, denied or purged: grants and tokens stay, and a spent
\* request stays spent.
LEMMA RequestTables ==
    ASSUME TableInv, UNCHANGED <<client, code, tok, expired, history>>,
           \A r \in Requests : reqs[r].row = "gone" => reqs'[r].row = "gone"
    PROVE  TableInv'
<1>1. UNCHANGED <<closed, consumed, refused>>
  BY DEF history
<1>2. Fresh' /\ Spent' /\ ClosedStaysClosed' /\ OneWayForward'
  BY <1>1 DEF TableInv, Fresh, Spent, ClosedStaysClosed, OneWayForward
<1>3. OneGrantPerRequest' /\ ScopesNeverWiden' /\ DetectedReplayCloses'
  BY <1>1 DEF TableInv, OneGrantPerRequest, ScopesNeverWiden, DetectedReplayCloses
<1>4. Consented'
  BY DEF TableInv, Consented
<1> QED BY <1>2, <1>3, <1>4 DEF TableInv

\* authorize, a denied consent, and the clean-up of requests.
LEMMA RequestStep ==
    ASSUME IInv, \/ \E r \in Requests, s \in Asked : Authorize(r, s)
                 \/ \E w \in Workers : ConsentDeny(w)
                 \/ PurgeRequests
    PROVE  IInv'
<1>1. WorkerType /\ TableType /\ WorkerInv /\ TableInv
  BY TypeSplit DEF IInv
<1>2. /\ UNCHANGED <<client, code, tok, online, expired, history>>
      /\ UNCHANGED <<lock, pc, job>> \/ \E w \in Workers : EndTx(w)
  BY DEF Authorize, ConsentDeny, PurgeRequests
<1>3. /\ reqs' \in [Requests -> Rows]
      /\ \A r \in Requests : /\ reqs[r].row = "gone" => reqs'[r].row = "gone"
                             /\ reqs[r].row # "none" => reqs'[r].row # "none"
  <2>1. reqs \in [Requests -> Rows]
    BY <1>1 DEF TableType
  <2>2. ASSUME NEW r \in Requests
        PROVE  /\ [reqs[r] EXCEPT !.row = "gone"] \in Rows
               /\ [reqs[r] EXCEPT !.row = "gone"].row = "gone"
    BY <2>1 DEF Rows
  <2>3. CASE \E r \in Requests, s \in Asked : Authorize(r, s)
    <3>1. PICK r \in Requests, s \in Asked : Authorize(r, s)
      BY <2>3
    <3>2. [row |-> "pending", scopes |-> s] \in Rows
      BY DEF Rows, Asked
    <3>3. reqs[r].row = "none"
      BY <3>1 DEF Authorize, NoRequest
    <3>4. reqs' = [reqs EXCEPT ![r] = [row |-> "pending", scopes |-> s]]
      BY <3>1 DEF Authorize
    <3> QED BY <2>1, <3>2, <3>3, <3>4
  <2>4. CASE \E w \in Workers : ConsentDeny(w)
    <3>1. PICK w \in Workers : ConsentDeny(w)
      BY <2>4
    <3> DEFINE r == job[w].cred
    <3>2. r \in Requests
      BY <1>1, <3>1 DEF ConsentDeny, WorkerInv, JobOK, JobFits
    <3>3. reqs' = [reqs EXCEPT ![r] = [reqs[r] EXCEPT !.row = "gone"]]
      BY <2>1, <3>1, <3>2 DEF ConsentDeny
    <3> HIDE DEF r
    <3> QED BY <2>1, <2>2, <3>2, <3>3
  <2>5. CASE PurgeRequests
    BY <2>1, <2>2, <2>5 DEF PurgeRequests
  <2> QED BY <2>3, <2>4, <2>5
<1>4. Stable
  BY <1>2, <1>3 DEF Stable
<1>5. WorkerType'
  <2>1. CASE UNCHANGED <<lock, pc, job>>
    BY <1>1, <2>1 DEF WorkerType
  <2>2. CASE \E w \in Workers : EndTx(w)
    BY <1>1, <2>2, EndTxType
  <2> QED BY <1>2, <2>1, <2>2
<1>6. WorkerInv'
  <2>1. CASE UNCHANGED <<lock, pc, job>>
    BY <1>1, <1>2, <1>4, <2>1, SameSpendable, OtherWorkers
  <2>2. CASE \E w \in Workers : EndTx(w)
    BY <1>1, <1>2, <1>4, <2>2, SameSpendable, EndWorkers
  <2> QED BY <1>2, <2>1, <2>2
<1>7. TableType'
  BY <1>1, <1>2, <1>3 DEF TableType, history
<1>8. TableInv'
  BY <1>1, <1>2, <1>3, RequestTables
<1> QED BY <1>5, <1>6, <1>7, <1>8, Join

\* A consent that finds its request still pending makes the first and only
\* grant of that request.
LEMMA ConsentAllowStep ==
    ASSUME IInv, NEW w \in Workers, NEW g \in Grants, ConsentAllow(w, g)
    PROVE  IInv'
<1>1. WorkerType /\ TableType /\ WorkerInv /\ TableInv
  BY TypeSplit DEF IInv
<1> DEFINE r == job[w].cred
           new == [status |-> "active", req |-> r, scopes |-> job[w].scopes]
<1>2. /\ reqs[r].row = "pending" /\ client[g] = NoGrant
      /\ client' = [client EXCEPT ![g] = new]
      /\ code' = [code EXCEPT ![g] = TRUE]
      /\ EndTx(w)
      /\ UNCHANGED <<tok, online, expired, closed, consumed, refused>>
  BY DEF ConsentAllow, history
<1>3. r \in Requests
  BY <1>1 DEF ConsentAllow, WorkerInv, JobOK, JobFits
<1>4. /\ reqs' = [reqs EXCEPT ![r] = [reqs[r] EXCEPT !.row = "gone"]]
      /\ [reqs[r] EXCEPT !.row = "gone"] \in Rows
      /\ [reqs[r] EXCEPT !.row = "gone"].row = "gone"
  BY <1>1, <1>3 DEF ConsentAllow, TableType, Rows
<1>5. new \in Clients
  BY <1>1, <1>3 DEF WorkerType, Jobs, Clients
<1>6. new.status = "active" /\ new.req = r
  OBVIOUS
<1>7. /\ NoGrant.status = "none" /\ NoGrant.req = None
      /\ NoToken.grant = None
  BY DEF NoGrant, NoToken
<1> HIDE DEF r, new
<1>8. /\ \A q \in Requests \ {r} : reqs'[q] = reqs[q]
      /\ reqs'[r].row = "gone"
      /\ \A h \in Grants \ {g} : client'[h] = client[h] /\ code'[h] = code[h]
      /\ client'[g] = new /\ code'[g] = TRUE
  BY <1>1, <1>2, <1>3, <1>4 DEF TableType
<1>9. /\ ~code[g] /\ g \notin closed
      /\ \A i \in Tokens : tok[i].grant # g
  BY <1>1, <1>2, <1>7 DEF TableInv, Fresh
<1>10. WorkerType'
  BY <1>1, <1>2, EndTxType
<1>11. TableType'
  BY <1>1, <1>2, <1>4, <1>5 DEF TableType
<1>12. Stable
  BY <1>2, <1>7, <1>8 DEF Stable
<1>13. WorkerInv'
  <2>1. \A v \in Workers : pc[v] = "issue" =>
           \/ job[v].kind = "code" /\ code'[job[v].grant]
           \/ /\ job[v].kind = "refresh"
              /\ tok'[job[v].cred].refresh = "live"
              /\ job[v].scopes \subseteq tok'[job[v].cred].scopes
    <3> SUFFICES ASSUME NEW v \in Workers, pc[v] = "issue"
                 PROVE \/ job[v].kind = "code" /\ code'[job[v].grant]
                       \/ /\ job[v].kind = "refresh"
                          /\ tok'[job[v].cred].refresh = "live"
                          /\ job[v].scopes \subseteq tok'[job[v].cred].scopes
      OBVIOUS
    <3>1. job[v].grant \in Grants /\ Spendable(job[v])
      BY <1>1 DEF WorkerInv, JobOK, JobFits, Pending, Locked
    <3> QED BY <1>2, <1>8, <3>1 DEF Spendable
  <2> QED BY <1>1, <1>2, <1>12, <2>1, EndWorkers
<1>14. Fresh'
  BY <1>1, <1>2, <1>6, <1>8 DEF TableInv, Fresh
<1>15. Consented'
  BY <1>1, <1>3, <1>6, <1>8 DEF TableInv, Consented
<1>16. Spent' /\ DetectedReplayCloses'
  BY <1>1, <1>2 DEF TableInv, Spent, DetectedReplayCloses
<1>17. ClosedStaysClosed'
  BY <1>1, <1>2, <1>8, <1>9 DEF TableInv, TableType, ClosedStaysClosed
<1>18. OneWayForward'
  <2> SUFFICES ASSUME NEW i \in Tokens, NEW j \in Tokens,
                      tok[i].refresh = "live", tok[j].refresh = "live",
                      tok[i].grant = tok[j].grant
               PROVE  i = j /\ ~code'[tok[i].grant]
    BY <1>2 DEF OneWayForward
  <2>1. i = j /\ ~code[tok[i].grant]
    BY <1>1 DEF TableInv, OneWayForward
  <2>2. tok[i].grant \in Grants
    <3>1. NoToken.refresh # "live"
      BY DEF NoToken
    <3> QED BY <1>1, <3>1 DEF TableInv, Fresh
  <2> QED BY <1>8, <1>9, <2>1, <2>2
<1>19. OneGrantPerRequest'
  <2>1. ASSUME NEW h \in Grants, client[h].status # "none"
        PROVE  client[h].req \in Requests /\ client[h].req # r
    BY <1>1, <1>2, <2>1 DEF TableInv, Consented
  <2>2. ASSUME NEW h \in Grants, client[h].status = "none"
        PROVE  client[h] = NoGrant
    BY <1>1, <2>2 DEF TableInv, Fresh
  <2>3. client[g].status = "none"
    BY <1>2, <1>7
  <2> SUFFICES ASSUME NEW a \in Grants, NEW b \in Grants,
                      client'[a] # NoGrant, client'[a].req = client'[b].req, a # b
               PROVE  FALSE
    BY DEF OneGrantPerRequest
  <2>4. CASE a = g
    BY <1>3, <1>6, <1>7, <1>8, <2>1, <2>2, <2>4, GrantAssumption
  <2>5. CASE b = g
    BY <1>6, <1>7, <1>8, <2>1, <2>2, <2>5
  <2>6. CASE a # g /\ b # g
    BY <1>1, <1>8, <2>6 DEF TableInv, OneGrantPerRequest
  <2> QED BY <2>4, <2>5, <2>6
<1>20. ScopesNeverWiden'
  <2> SUFFICES ASSUME NEW i \in Tokens, tok[i] # NoToken
               PROVE  tok[i].scopes \subseteq client'[tok[i].grant].scopes
    BY <1>2 DEF ScopesNeverWiden
  <2>1. tok[i].grant \in Grants
    BY <1>1 DEF TableInv, Fresh
  <2> QED BY <1>1, <1>8, <1>9, <2>1 DEF TableInv, ScopesNeverWiden
<1> QED BY <1>10, <1>11, <1>13, <1>14, <1>15, <1>16, <1>17, <1>18, <1>19, <1>20,
           Join DEF TableInv

-----------------------------------------------------------------------------
\* Two workers past LockGrant work on different grants.
LEMMA ApartGrants ==
    ASSUME IInv, NEW v \in Workers, NEW w \in Workers, v # w,
           pc[v] \in Locked, pc[w] \in Locked
    PROVE  job[v].grant # job[w].grant
  BY DEF IInv, WorkerInv, LockHeld

\* What a commit needs to know of the pairs: the fields of a record changed in
\* one place.
LEMMA PairFields ==
    ASSUME NEW p \in Pairs, NEW s \in {"revoked", "purged"}
    PROVE  /\ [p EXCEPT !.refresh = s] \in Pairs
           /\ [p EXCEPT !.refresh = s].refresh = s
           /\ [p EXCEPT !.refresh = s].grant = p.grant
           /\ [p EXCEPT !.refresh = s].access = p.access
           /\ [p EXCEPT !.refresh = s].scopes = p.scopes
  BY DEF Pairs

\* A live refresh token, or a token of a grant, is not a free id.
LEMMA LiveToken ==
    ASSUME TableInv, NEW i \in Tokens, tok[i].refresh = "live"
    PROVE  tok[i] # NoToken /\ tok[i].grant \in Grants
<1>1. NoToken.refresh = "none"
  BY DEF NoToken
<1> QED BY <1>1 DEF TableInv, Fresh

\* The first pair of a grant: its code was unspent, so no token of it is live.
LEMMA CommitCodeStep ==
    ASSUME IInv, NEW w \in Workers, NEW n \in Tokens, CommitIssue(w, n),
           job[w].kind = "code"
    PROVE  IInv'
<1>1. WorkerType /\ TableType /\ WorkerInv /\ TableInv
  BY TypeSplit DEF IInv
<1> DEFINE g == job[w].grant
           new == [grant |-> g, access |-> "live", refresh |-> "live",
                   scopes |-> job[w].scopes]
<1>2. /\ pc[w] = "issue" /\ tok[n] = NoToken
      /\ code' = [code EXCEPT ![g] = FALSE]
      /\ tok' = [tok EXCEPT ![n] = new]
      /\ EndTx(w)
      /\ UNCHANGED <<reqs, client, online, expired, closed, consumed, refused>>
  BY DEF CommitIssue
<1>3. /\ g \in Grants /\ client[g].status # "none" /\ code[g]
      /\ job[w].scopes = client[g].scopes
  BY <1>1, <1>2 DEF WorkerInv, JobOK, JobFits, Pending, Spendable, Locked
<1>4. /\ new \in Pairs
      /\ new.grant = g /\ new.access = "live" /\ new.refresh = "live"
      /\ new.scopes = client[g].scopes
  BY <1>1, <1>3 DEF WorkerType, Jobs, Pairs
<1>5. /\ NoToken.grant = None /\ NoToken.refresh = "none"
  BY DEF NoToken
<1>6. g \notin closed /\ \A i \in Tokens : tok[i].grant = g => tok[i].refresh # "live"
  BY <1>1, <1>3 DEF TableInv, ClosedStaysClosed, OneWayForward
<1> HIDE DEF g, new
<1>7. /\ \A i \in Tokens \ {n} : tok'[i] = tok[i]
      /\ tok'[n] = new
      /\ \A h \in Grants \ {g} : code'[h] = code[h]
      /\ code'[g] = FALSE
  BY <1>1, <1>2, <1>3 DEF TableType
<1>8. n \notin consumed /\ n \notin refused
  BY <1>1, <1>2, <1>5 DEF TableInv, Spent
<1>9. WorkerType'
  BY <1>1, <1>2, EndTxType
<1>10. TableType'
  BY <1>1, <1>2, <1>4 DEF TableType
<1>11. Stable
  BY <1>2, <1>5, <1>7, GrantAssumption DEF Stable
<1>12. WorkerInv'
  <2>1. ASSUME NEW v \in Workers \ {w}, pc[v] = "issue"
        PROVE  \/ job[v].kind = "code" /\ code'[job[v].grant]
               \/ /\ job[v].kind = "refresh"
                  /\ tok'[job[v].cred].refresh = "live"
                  /\ job[v].scopes \subseteq tok'[job[v].cred].scopes
    <3>1. job[v].grant # g
      BY <1>2, <2>1, ApartGrants DEF Locked, g
    <3>2. /\ job[v].grant \in Grants /\ Spendable(job[v])
          /\ job[v].kind = "refresh" => job[v].cred \in Tokens
      BY <1>1, <2>1 DEF WorkerInv, JobOK, JobFits, Pending, Locked
    <3> QED BY <1>2, <1>5, <1>7, <3>1, <3>2 DEF Spendable
  <2> QED BY <1>1, <1>2, <1>11, <2>1, EndWorkers
<1>13. Fresh'
  <2>1. \A h \in Grants : client'[h].status = "none" =>
           /\ client'[h] = NoGrant /\ ~code'[h] /\ h \notin closed'
           /\ \A i \in Tokens : tok'[i].grant # h
    BY <1>1, <1>2, <1>3, <1>4, <1>7 DEF TableInv, Fresh
  <2>2. \A i \in Tokens :
           \/ tok'[i] = NoToken /\ i \notin expired'
           \/ tok'[i].grant \in Grants /\ tok'[i].access # "none"
                                       /\ tok'[i].refresh # "none"
    BY <1>1, <1>2, <1>3, <1>4, <1>7 DEF TableInv, Fresh
  <2> QED BY <2>1, <2>2 DEF Fresh
<1>14. Consented' /\ OneGrantPerRequest'
  BY <1>1, <1>2 DEF TableInv, Consented, OneGrantPerRequest
<1>15. Spent' /\ DetectedReplayCloses'
  BY <1>1, <1>2, <1>7, <1>8 DEF TableInv, TableType, Spent, DetectedReplayCloses
<1>16. ClosedStaysClosed'
  BY <1>1, <1>2, <1>4, <1>6, <1>7 DEF TableInv, TableType, ClosedStaysClosed
<1>17. OneWayForward'
  <2> SUFFICES ASSUME NEW i \in Tokens, NEW j \in Tokens,
                      tok'[i].refresh = "live", tok'[j].refresh = "live",
                      tok'[i].grant = tok'[j].grant
               PROVE  i = j /\ ~code'[tok'[i].grant]
    BY DEF OneWayForward
  <2>1. CASE i = n \/ j = n
    BY <1>4, <1>6, <1>7, <2>1
  <2>2. CASE i # n /\ j # n
    <3>1. i = j /\ ~code[tok[i].grant] /\ tok[i].grant \in Grants
      BY <1>1, <1>7, <2>2, LiveToken DEF TableInv, OneWayForward
    <3> QED BY <1>7, <2>2, <3>1
  <2> QED BY <2>1, <2>2
<1>18. ScopesNeverWiden'
  BY <1>1, <1>2, <1>4, <1>7 DEF TableInv, ScopesNeverWiden
<1> QED BY <1>9, <1>10, <1>12, <1>13, <1>14, <1>15, <1>16, <1>17, <1>18, Join
        DEF TableInv

\* A rotation: the token presented was the grant's only live one, and the new
\* pair takes its place.
LEMMA CommitRefreshStep ==
    ASSUME IInv, NEW w \in Workers, NEW n \in Tokens, CommitIssue(w, n),
           job[w].kind = "refresh"
    PROVE  IInv'
<1>1. WorkerType /\ TableType /\ WorkerInv /\ TableInv
  BY TypeSplit DEF IInv
<1> DEFINE g == job[w].grant
           c == job[w].cred
           new == [grant |-> g, access |-> "live", refresh |-> "live",
                   scopes |-> job[w].scopes]
           old == [tok[c] EXCEPT !.refresh = "revoked"]
<1>2. /\ pc[w] = "issue" /\ tok[n] = NoToken
      /\ tok' = [tok EXCEPT ![n] = new, ![c].refresh = "revoked"]
      /\ consumed' = consumed \cup {c}
      /\ EndTx(w)
      /\ UNCHANGED <<reqs, client, code, online, expired, closed, refused>>
  BY DEF CommitIssue
<1>3. /\ g \in Grants /\ client[g].status # "none"
      /\ c \in Tokens /\ tok[c].grant = g /\ tok[c].refresh = "live"
      /\ job[w].scopes \subseteq tok[c].scopes
  BY <1>1, <1>2 DEF WorkerInv, JobOK, JobFits, Pending, Spendable, Locked
<1>4. /\ tok[c] # NoToken /\ c # n /\ tok[c].access # "none"
      /\ job[w].scopes \subseteq client[g].scopes
  <2>1. tok[c] # NoToken
    BY <1>1, <1>3, LiveToken
  <2> QED BY <1>1, <1>2, <1>3, <2>1 DEF TableInv, Fresh, ScopesNeverWiden
<1>5. /\ new \in Pairs
      /\ new.grant = g /\ new.access = "live" /\ new.refresh = "live"
      /\ new.scopes = job[w].scopes
  BY <1>1, <1>3 DEF WorkerType, Jobs, Pairs
<1>6. /\ old \in Pairs /\ old.grant = g /\ old.access = tok[c].access
      /\ old.refresh = "revoked" /\ old.scopes = tok[c].scopes
  BY <1>1, <1>3, PairFields DEF TableType
<1>7. /\ NoToken.grant = None /\ NoToken.refresh = "none"
  BY DEF NoToken
<1>8. /\ g \notin closed /\ ~code[g]
      /\ \A i \in Tokens : tok[i].grant = g /\ tok[i].refresh = "live" => i = c
  BY <1>1, <1>3 DEF TableInv, ClosedStaysClosed, OneWayForward
<1>9. /\ \A i \in Tokens \ {n, c} : tok'[i] = tok[i]
      /\ tok'[n] = new /\ tok'[c] = old
      /\ tok' \in [Tokens -> Pairs]
  <2>1. tok \in [Tokens -> Pairs]
    BY <1>1 DEF TableType
  <2> HIDE DEF new
  <2>2. tok' = [[tok EXCEPT ![n] = new] EXCEPT ![c] = old]
    BY <1>2, <1>3, <1>4, <2>1
  <2> HIDE DEF old, c
  <2> QED BY <1>3, <1>4, <1>5, <1>6, <2>1, <2>2
<1> HIDE DEF g, c, new, old
<1>10. /\ c \notin consumed /\ c \notin refused /\ n \notin consumed
       /\ n \notin refused
  BY <1>1, <1>2, <1>3, <1>7 DEF TableInv, Spent
<1>11. WorkerType'
  BY <1>1, <1>2, EndTxType
<1>12. TableType'
  BY <1>1, <1>2, <1>3, <1>9 DEF TableType
<1>13. Stable
  BY <1>2, <1>3, <1>6, <1>7, <1>9, GrantAssumption DEF Stable
<1>14. WorkerInv'
  <2>1. ASSUME NEW v \in Workers \ {w}, pc[v] = "issue"
        PROVE  \/ job[v].kind = "code" /\ code'[job[v].grant]
               \/ /\ job[v].kind = "refresh"
                  /\ tok'[job[v].cred].refresh = "live"
                  /\ job[v].scopes \subseteq tok'[job[v].cred].scopes
    <3>1. job[v].grant # g
      BY <1>2, <2>1, ApartGrants DEF Locked, g
    <3>2. /\ job[v].grant \in Grants /\ Spendable(job[v])
          /\ job[v].kind = "refresh" =>
                job[v].cred \in Tokens /\ tok[job[v].cred].grant = job[v].grant
      BY <1>1, <2>1 DEF WorkerInv, JobOK, JobFits, Pending, Locked
    <3> QED BY <1>2, <1>3, <1>7, <1>9, <3>1, <3>2 DEF Spendable
  <2> QED BY <1>1, <1>2, <1>13, <2>1, EndWorkers
<1>15. Fresh'
  <2>1. \A h \in Grants : client'[h].status = "none" =>
           /\ client'[h] = NoGrant /\ ~code'[h] /\ h \notin closed'
           /\ \A i \in Tokens : tok'[i].grant # h
    BY <1>1, <1>2, <1>3, <1>5, <1>6, <1>9 DEF TableInv, Fresh
  <2>2. \A i \in Tokens :
           \/ tok'[i] = NoToken /\ i \notin expired'
           \/ tok'[i].grant \in Grants /\ tok'[i].access # "none"
                                       /\ tok'[i].refresh # "none"
    BY <1>1, <1>2, <1>3, <1>4, <1>5, <1>6, <1>9 DEF TableInv, Fresh
  <2> QED BY <2>1, <2>2 DEF Fresh
<1>16. Consented' /\ OneGrantPerRequest'
  BY <1>1, <1>2 DEF TableInv, Consented, OneGrantPerRequest
<1>17. Spent'
  BY <1>1, <1>2, <1>6, <1>9, <1>10 DEF TableInv, TableType, Spent
<1>18. DetectedReplayCloses'
  BY <1>1, <1>2, <1>9, <1>10 DEF TableInv, TableType, DetectedReplayCloses
<1>19. ClosedStaysClosed'
  BY <1>1, <1>2, <1>5, <1>6, <1>8, <1>9 DEF TableInv, TableType, ClosedStaysClosed
<1>20. OneWayForward'
  <2> SUFFICES ASSUME NEW i \in Tokens, NEW j \in Tokens,
                      tok'[i].refresh = "live", tok'[j].refresh = "live",
                      tok'[i].grant = tok'[j].grant
               PROVE  i = j /\ ~code'[tok'[i].grant]
    BY DEF OneWayForward
  <2>1. i # c /\ j # c
    BY <1>6, <1>9
  <2>2. CASE i = n \/ j = n
    BY <1>2, <1>5, <1>8, <1>9, <2>1, <2>2
  <2>3. CASE i # n /\ j # n
    <3>1. i = j /\ ~code[tok[i].grant]
      BY <1>1, <1>9, <2>1, <2>3 DEF TableInv, OneWayForward
    <3> QED BY <1>2, <1>9, <2>1, <2>3, <3>1
  <2> QED BY <2>2, <2>3
<1>21. ScopesNeverWiden'
  <2> SUFFICES ASSUME NEW i \in Tokens, tok'[i] # NoToken
               PROVE  tok'[i].scopes \subseteq client[tok'[i].grant].scopes
    BY <1>2 DEF ScopesNeverWiden
  <2>1. CASE i = n
    BY <1>4, <1>5, <1>9, <2>1
  <2>2. CASE i = c
    BY <1>1, <1>3, <1>4, <1>6, <1>9, <2>2 DEF TableInv, ScopesNeverWiden
  <2>3. CASE i # n /\ i # c
    BY <1>1, <1>9, <2>3 DEF TableInv, ScopesNeverWiden
  <2> QED BY <2>1, <2>2, <2>3
<1> QED BY <1>11, <1>12, <1>14, <1>15, <1>16, <1>17, <1>18, <1>19, <1>20, <1>21,
           Join DEF TableInv

\* RevokeGrant leaves no way forward to its grant, and touches no other.
LEMMA CommitCloseStep ==
    ASSUME IInv, NEW w \in Workers, CommitClose(w)
    PROVE  IInv'
<1>1. WorkerType /\ TableType /\ WorkerInv /\ TableInv
  BY TypeSplit DEF IInv
<1> DEFINE g == job[w].grant
           off == [client[g] EXCEPT !.status = "disabled"]
           Cut(p) == [p EXCEPT !.access = "revoked",
                               !.refresh = IF @ = "live" THEN "revoked" ELSE @]
<1>2. /\ pc[w] = "close"
      /\ client' = [client EXCEPT ![g].status = "disabled"]
      /\ tok' = RevokedPairs(g)
      /\ code' = [code EXCEPT ![g] = FALSE]
      /\ closed' = closed \cup {g}
      /\ refused' = refused \cup (IF job[w].kind = "refresh"
                                  THEN {job[w].cred} \cap consumed ELSE {})
      /\ EndTx(w)
      /\ UNCHANGED <<reqs, online, expired, consumed>>
  BY DEF CommitClose
<1>3. /\ g \in Grants /\ client[g].status # "none"
      /\ job[w].kind = "refresh" =>
            job[w].cred \in Tokens /\ tok[job[w].cred].grant = g
  BY <1>1, <1>2 DEF WorkerInv, JobOK, JobFits, Locked
<1>4. /\ off \in Clients /\ off.status = "disabled"
      /\ off.req = client[g].req /\ off.scopes = client[g].scopes
  BY <1>1, <1>3 DEF TableType, Clients
<1>5. ASSUME NEW p \in Pairs
      PROVE  /\ Cut(p) \in Pairs /\ Cut(p).grant = p.grant
             /\ Cut(p).scopes = p.scopes /\ Cut(p).access = "revoked"
             /\ Cut(p).refresh = IF p.refresh = "live" THEN "revoked"
                                                      ELSE p.refresh
  BY DEF Pairs
<1>6. tok' = [i \in Tokens |-> IF tok[i].grant # g THEN tok[i] ELSE Cut(tok[i])]
  BY <1>2 DEF RevokedPairs
<1>7. client' = [client EXCEPT ![g] = off]
  BY <1>1, <1>2, <1>3 DEF TableType
<1>8. NoToken.grant = None /\ NoGrant.status = "none" /\ NoGrant.req = None
  BY DEF NoToken, NoGrant
<1> HIDE DEF g, off, Cut
<1>9. /\ \A h \in Grants \ {g} : client'[h] = client[h] /\ code'[h] = code[h]
      /\ client'[g] = off /\ code'[g] = FALSE
  BY <1>1, <1>2, <1>3, <1>7 DEF TableType
<1>10. ASSUME NEW i \in Tokens
       PROVE  /\ tok'[i] \in Pairs
              /\ tok'[i].grant = tok[i].grant
              /\ tok'[i].scopes = tok[i].scopes
              /\ tok[i].grant # g => tok'[i] = tok[i]
              /\ tok[i].grant = g =>
                    /\ tok'[i].access = "revoked"
                    /\ tok'[i].refresh = IF tok[i].refresh = "live"
                                         THEN "revoked" ELSE tok[i].refresh
  BY <1>1, <1>5, <1>6 DEF TableType
<1>11. ASSUME NEW i \in Tokens, tok[i] = NoToken PROVE tok'[i] = NoToken
  BY <1>3, <1>8, <1>10, <1>11, GrantAssumption
<1>12. WorkerType'
  BY <1>1, <1>2, EndTxType
<1>13. TableType'
  <2>1. tok' \in [Tokens -> Pairs]
    BY <1>6, <1>10
  <2> QED BY <1>1, <1>2, <1>3, <1>4, <1>7, <2>1 DEF TableType
<1>14. Stable
  BY <1>2, <1>4, <1>9, <1>10 DEF Stable
<1>15. WorkerInv'
  <2>1. ASSUME NEW v \in Workers \ {w}, pc[v] = "issue"
        PROVE  \/ job[v].kind = "code" /\ code'[job[v].grant]
               \/ /\ job[v].kind = "refresh"
                  /\ tok'[job[v].cred].refresh = "live"
                  /\ job[v].scopes \subseteq tok'[job[v].cred].scopes
    <3>1. job[v].grant # g
      BY <1>2, <2>1, ApartGrants DEF Locked, g
    <3>2. /\ job[v].grant \in Grants /\ Spendable(job[v])
          /\ job[v].kind = "refresh" =>
                job[v].cred \in Tokens /\ tok[job[v].cred].grant = job[v].grant
      BY <1>1, <2>1 DEF WorkerInv, JobOK, JobFits, Pending, Locked
    <3> QED BY <1>9, <1>10, <3>1, <3>2 DEF Spendable
  <2> QED BY <1>1, <1>2, <1>14, <2>1, EndWorkers
<1>16. Fresh'
  <2>1. \A h \in Grants : client'[h].status = "none" =>
           /\ client'[h] = NoGrant /\ ~code'[h] /\ h \notin closed'
           /\ \A i \in Tokens : tok'[i].grant # h
    BY <1>1, <1>2, <1>4, <1>9, <1>10 DEF TableInv, Fresh
  <2>2. ASSUME NEW i \in Tokens
        PROVE  \/ tok'[i] = NoToken /\ i \notin expired'
               \/ tok'[i].grant \in Grants /\ tok'[i].access # "none"
                                           /\ tok'[i].refresh # "none"
    BY <1>1, <1>2, <1>10, <1>11 DEF TableInv, Fresh
  <2> QED BY <2>1, <2>2 DEF Fresh
<1>17. Consented'
  BY <1>1, <1>2, <1>3, <1>4, <1>9 DEF TableInv, Consented
<1>18. Spent'
  <2>1. ASSUME NEW i \in consumed PROVE tok'[i].refresh \in {"revoked", "purged"}
    <3>1. i \in Tokens /\ tok[i].refresh \in {"revoked", "purged"}
      BY <1>1 DEF TableInv, TableType, Spent
    <3> QED BY <1>10, <3>1
  <2> QED BY <1>1, <1>2, <2>1 DEF TableInv, Spent
<1>19. ClosedStaysClosed'
  <2>1. ASSUME NEW h \in closed', h # g
        PROVE  /\ client'[h].status = "disabled" /\ ~code'[h]
               /\ \A i \in Tokens : tok'[i].grant = h =>
                     tok'[i].access = "revoked" /\ tok'[i].refresh # "live"
    <3>1. h \in closed /\ h \in Grants
      BY <1>1, <1>2, <2>1 DEF TableType
    <3> QED BY <1>1, <1>9, <1>10, <2>1, <3>1 DEF TableInv, ClosedStaysClosed
  <2>2. /\ client'[g].status = "disabled" /\ ~code'[g]
        /\ \A i \in Tokens : tok'[i].grant = g =>
              tok'[i].access = "revoked" /\ tok'[i].refresh # "live"
    BY <1>4, <1>9, <1>10
  <2> QED BY <2>1, <2>2 DEF ClosedStaysClosed
<1>20. OneWayForward'
  <2> SUFFICES ASSUME NEW i \in Tokens, NEW j \in Tokens,
                      tok'[i].refresh = "live", tok'[j].refresh = "live",
                      tok'[i].grant = tok'[j].grant
               PROVE  i = j /\ ~code'[tok'[i].grant]
    BY DEF OneWayForward
  <2>1. tok[i].grant # g /\ tok[j].grant # g
    BY <1>10
  <2>2. tok'[i] = tok[i] /\ tok'[j] = tok[j]
    BY <1>10, <2>1
  <2>3. i = j /\ ~code[tok[i].grant] /\ tok[i].grant \in Grants
    BY <1>1, <2>2, LiveToken DEF TableInv, OneWayForward
  <2> QED BY <1>9, <2>1, <2>2, <2>3
<1>21. OneGrantPerRequest'
  <2> SUFFICES ASSUME NEW a \in Grants, NEW b \in Grants,
                      client'[a] # NoGrant, client'[a].req = client'[b].req
               PROVE  a = b
    BY DEF OneGrantPerRequest
  <2>1. client[a] # NoGrant
    BY <1>3, <1>8, <1>9
  <2>2. client'[a].req = client[a].req /\ client'[b].req = client[b].req
    BY <1>4, <1>9
  <2> QED BY <1>1, <2>1, <2>2 DEF TableInv, OneGrantPerRequest
<1>22. ScopesNeverWiden'
  <2> SUFFICES ASSUME NEW i \in Tokens, tok'[i] # NoToken
               PROVE  tok'[i].scopes \subseteq client'[tok'[i].grant].scopes
    BY DEF ScopesNeverWiden
  <2>1. tok[i] # NoToken
    BY <1>11
  <2>2. /\ tok[i].scopes \subseteq client[tok[i].grant].scopes
        /\ tok[i].grant \in Grants
    BY <1>1, <2>1 DEF TableInv, ScopesNeverWiden, Fresh
  <2> QED BY <1>4, <1>9, <1>10, <2>2
<1>23. DetectedReplayCloses'
  <2> SUFFICES ASSUME NEW i \in refused'
               PROVE  tok'[i].refresh = "purged" \/ tok'[i].grant \in closed'
    BY DEF DetectedReplayCloses
  <2>1. CASE i \in refused
    <3>1. i \in Tokens /\ (tok[i].refresh = "purged" \/ tok[i].grant \in closed)
      BY <1>1, <2>1 DEF TableInv, TableType, DetectedReplayCloses
    <3> QED BY <1>2, <1>10, <3>1
  <2>2. CASE i \notin refused
    <3>1. job[w].kind = "refresh" /\ i = job[w].cred
      BY <1>2, <2>2
    <3> QED BY <1>2, <1>3, <1>10, <3>1
  <2> QED BY <2>1, <2>2
<1> QED BY <1>12, <1>13, <1>15, <1>16, <1>17, <1>18, <1>19, <1>20, <1>21, <1>22,
           <1>23, Join DEF TableInv

-----------------------------------------------------------------------------
\* The administrator disables a client that exists.
LEMMA AdminRevokeStep ==
    ASSUME IInv, NEW g \in Grants, AdminRevoke(g)
    PROVE  IInv'
<1>1. WorkerType /\ TableType /\ WorkerInv /\ TableInv
  BY TypeSplit DEF IInv
<1> DEFINE off == [client[g] EXCEPT !.status = "disabled"]
<1>2. /\ client[g].status = "active"
      /\ UNCHANGED <<reqs, code, tok, online, expired, lock, pc, job>>
      /\ UNCHANGED <<closed, consumed, refused>>
  BY DEF AdminRevoke, history
<1>3. /\ off \in Clients /\ off.status = "disabled"
      /\ off.req = client[g].req /\ off.scopes = client[g].scopes
  BY <1>1 DEF TableType, Clients
<1>4. client' = [client EXCEPT ![g] = off]
  BY <1>1 DEF AdminRevoke, TableType
<1>5. NoGrant.status = "none"
  BY DEF NoGrant
<1> HIDE DEF off
<1>6. client'[g] = off /\ \A h \in Grants \ {g} : client'[h] = client[h]
  BY <1>1, <1>4 DEF TableType
<1>7. WorkerType' /\ TableType'
  BY <1>1, <1>2, <1>3, <1>4 DEF WorkerType, TableType
<1>8. Stable
  BY <1>2, <1>3, <1>6 DEF Stable
<1>9. WorkerInv'
  BY <1>1, <1>2, <1>8, SameSpendable, OtherWorkers
<1>10. Fresh'
  BY <1>1, <1>2, <1>3, <1>6 DEF TableInv, Fresh
<1>11. Consented'
  BY <1>1, <1>2, <1>3, <1>6 DEF TableInv, Consented
<1>12. Spent' /\ OneWayForward' /\ DetectedReplayCloses'
  BY <1>1, <1>2 DEF TableInv, Spent, OneWayForward, DetectedReplayCloses
<1>13. ClosedStaysClosed'
  BY <1>1, <1>2, <1>3, <1>6 DEF TableInv, TableType, ClosedStaysClosed
<1>14. OneGrantPerRequest'
  BY <1>1, <1>2, <1>3, <1>5, <1>6 DEF TableInv, OneGrantPerRequest
<1>15. ScopesNeverWiden'
  <2> SUFFICES ASSUME NEW i \in Tokens, tok[i] # NoToken
               PROVE  tok[i].scopes \subseteq client'[tok[i].grant].scopes
    BY <1>2 DEF ScopesNeverWiden
  <2>1. /\ tok[i].scopes \subseteq client[tok[i].grant].scopes
        /\ tok[i].grant \in Grants
    BY <1>1 DEF TableInv, ScopesNeverWiden, Fresh
  <2> QED BY <1>3, <1>6, <2>1
<1> QED BY <1>7, <1>9, <1>10, <1>11, <1>12, <1>13, <1>14, <1>15, Join DEF TableInv

\* The clean-up of codes passes over a code that is being spent: its row is
\* locked.
LEMMA PurgeCodesStep ==
    ASSUME IInv, PurgeCodes
    PROVE  IInv'
<1>1. WorkerType /\ TableType /\ WorkerInv /\ TableInv
  BY TypeSplit DEF IInv
<1>2. /\ code' = [g \in Grants |-> code[g] /\ g \notin expired]
      /\ UNCHANGED <<reqs, client, tok, online, expired, lock, pc, job>>
      /\ UNCHANGED <<closed, consumed, refused>>
  BY DEF PurgeCodes, history
<1>3. \A g \in Grants : code'[g] => code[g]
  BY <1>2
<1>4. WorkerType' /\ TableType'
  BY <1>1, <1>2 DEF WorkerType, TableType
<1>5. Stable
  BY <1>2 DEF Stable
<1>6. ASSUME NEW v \in Workers, pc[v] = "issue"
      PROVE  \/ job[v].kind = "code" /\ code'[job[v].grant]
             \/ /\ job[v].kind = "refresh"
                /\ tok'[job[v].cred].refresh = "live"
                /\ job[v].scopes \subseteq tok'[job[v].cred].scopes
  <2>1. /\ Spendable(job[v]) /\ job[v].grant \in Grants
        /\ job[v].kind = "code" => job[v].cred = job[v].grant
    BY <1>1, <1>6 DEF WorkerInv, Pending, JobOK, JobFits, Locked
  <2>2. job[v].kind = "code" => job[v].grant \notin expired
    BY <1>6, <2>1 DEF PurgeCodes, RowLocked
  <2> QED BY <1>2, <2>1, <2>2 DEF Spendable
<1>7. WorkerInv'
  BY <1>1, <1>2, <1>5, <1>6, OtherWorkers
<1>8. Fresh'
  BY <1>1, <1>2, <1>3 DEF TableInv, Fresh
<1>9. Consented' /\ Spent' /\ OneGrantPerRequest' /\ DetectedReplayCloses'
  BY <1>1, <1>2 DEF TableInv, Consented, Spent, OneGrantPerRequest,
     DetectedReplayCloses
<1>10. ScopesNeverWiden'
  BY <1>1, <1>2 DEF TableInv, ScopesNeverWiden
<1>11. ClosedStaysClosed'
  BY <1>1, <1>2, <1>3 DEF TableInv, TableType, ClosedStaysClosed
<1>12. OneWayForward'
  <2> SUFFICES ASSUME NEW i \in Tokens, NEW j \in Tokens,
                      tok[i].refresh = "live", tok[j].refresh = "live",
                      tok[i].grant = tok[j].grant
               PROVE  i = j /\ ~code'[tok[i].grant]
    BY <1>2 DEF OneWayForward
  <2>1. i = j /\ ~code[tok[i].grant] /\ tok[i].grant \in Grants
    BY <1>1, LiveToken DEF TableInv, OneWayForward
  <2> QED BY <1>3, <2>1
<1> QED BY <1>4, <1>7, <1>8, <1>9, <1>10, <1>11, <1>12, Join DEF TableInv

\* The clean-up of refresh tokens passes over one that is being rotated.
LEMMA PurgeRefreshStep ==
    ASSUME IInv, PurgeRefresh
    PROVE  IInv'
<1>1. WorkerType /\ TableType /\ WorkerInv /\ TableInv
  BY TypeSplit DEF IInv
<1> DEFINE Cut(p) == [p EXCEPT !.refresh = "purged"]
<1>2. /\ tok' = [i \in Tokens |-> IF i \in expired THEN Cut(tok[i]) ELSE tok[i]]
      /\ UNCHANGED <<reqs, client, code, online, expired, lock, pc, job>>
      /\ UNCHANGED <<closed, consumed, refused>>
  BY DEF PurgeRefresh, history
<1>3. ASSUME NEW p \in Pairs
      PROVE  /\ Cut(p) \in Pairs /\ Cut(p).grant = p.grant
             /\ Cut(p).scopes = p.scopes /\ Cut(p).access = p.access
             /\ Cut(p).refresh = "purged"
  BY PairFields
<1> HIDE DEF Cut
<1>4. ASSUME NEW i \in Tokens
      PROVE  /\ tok'[i] \in Pairs
             /\ tok'[i].grant = tok[i].grant
             /\ tok'[i].scopes = tok[i].scopes
             /\ tok'[i].access = tok[i].access
             /\ i \notin expired => tok'[i] = tok[i]
             /\ i \in expired => tok'[i].refresh = "purged"
  BY <1>1, <1>2, <1>3 DEF TableType
<1>5. WorkerType' /\ TableType'
  <2>1. tok' \in [Tokens -> Pairs]
    BY <1>2, <1>4
  <2> QED BY <1>1, <1>2, <2>1 DEF WorkerType, TableType
<1>6. Stable
  BY <1>2, <1>4 DEF Stable
<1>7. ASSUME NEW v \in Workers, pc[v] = "issue"
      PROVE  \/ job[v].kind = "code" /\ code'[job[v].grant]
             \/ /\ job[v].kind = "refresh"
                /\ tok'[job[v].cred].refresh = "live"
                /\ job[v].scopes \subseteq tok'[job[v].cred].scopes
  <2>1. /\ Spendable(job[v])
        /\ job[v].kind = "refresh" => job[v].cred \in Tokens
    BY <1>1, <1>7 DEF WorkerInv, Pending, JobOK, JobFits, Locked
  <2>2. job[v].kind = "refresh" => job[v].cred \notin expired
    BY <1>7, <2>1 DEF PurgeRefresh, RowLocked
  <2> QED BY <1>2, <1>4, <2>1, <2>2 DEF Spendable
<1>8. WorkerInv'
  BY <1>1, <1>2, <1>6, <1>7, OtherWorkers
<1>9. Fresh'
  <2>1. \A h \in Grants : client'[h].status = "none" =>
           /\ client'[h] = NoGrant /\ ~code'[h] /\ h \notin closed'
           /\ \A i \in Tokens : tok'[i].grant # h
    BY <1>1, <1>2, <1>4 DEF TableInv, Fresh
  <2>2. ASSUME NEW i \in Tokens
        PROVE  \/ tok'[i] = NoToken /\ i \notin expired'
               \/ tok'[i].grant \in Grants /\ tok'[i].access # "none"
                                           /\ tok'[i].refresh # "none"
    BY <1>1, <1>2, <1>4 DEF TableInv, Fresh
  <2> QED BY <2>1, <2>2 DEF Fresh
<1>10. Consented' /\ OneGrantPerRequest'
  BY <1>1, <1>2 DEF TableInv, Consented, OneGrantPerRequest
<1>11. Spent'
  BY <1>1, <1>2, <1>4 DEF TableInv, TableType, Spent
<1>12. DetectedReplayCloses'
  BY <1>1, <1>2, <1>4 DEF TableInv, TableType, DetectedReplayCloses
<1>13. ClosedStaysClosed'
  BY <1>1, <1>2, <1>4 DEF TableInv, ClosedStaysClosed
<1>14. OneWayForward'
  BY <1>1, <1>2, <1>4 DEF TableInv, OneWayForward
<1>15. ScopesNeverWiden'
  <2> SUFFICES ASSUME NEW i \in Tokens, tok'[i] # NoToken
               PROVE  tok'[i].scopes \subseteq client[tok'[i].grant].scopes
    BY <1>2 DEF ScopesNeverWiden
  <2>1. NoToken.access = "none"
    BY DEF NoToken
  <2>2. tok[i] # NoToken
    BY <1>1, <1>4, <2>1 DEF TableInv, Fresh
  <2> QED BY <1>1, <1>4, <2>2 DEF TableInv, ScopesNeverWiden
<1> QED BY <1>5, <1>8, <1>9, <1>10, <1>11, <1>12, <1>13, <1>14, <1>15, Join
        DEF TableInv

\* Time, and the account's status, change neither tables nor workers.
LEMMA TimeStep ==
    ASSUME IInv, \/ AccountStatus \/ UNCHANGED vars
                 \/ \E x \in Requests \cup Grants \cup Tokens : Expire(x)
    PROVE  IInv'
<1>1. WorkerType /\ TableType /\ WorkerInv /\ TableInv
  BY TypeSplit DEF IInv
<1>2. /\ UNCHANGED <<tables, lock, pc, job, history>>
      /\ online' \in BOOLEAN
      /\ expired' \in SUBSET (Requests \cup Grants \cup Tokens)
      /\ \A i \in Tokens : i \in expired' => i \in expired \/ Stored(i)
  BY <1>1, GrantAssumption
     DEF AccountStatus, Expire, vars, tables, history, TableType
<1>3. UNCHANGED <<reqs, client, code, tok, closed, consumed, refused>>
  BY <1>2 DEF tables, history
<1>4. WorkerType' /\ TableType'
  BY <1>1, <1>2, <1>3 DEF WorkerType, TableType
<1>5. WorkerInv'
  BY <1>1, <1>2, <1>3, SameStable, SameSpendable, OtherWorkers
<1>6. \A i \in Tokens : i \in expired' => i \in expired \/ tok[i] # NoToken
  BY <1>2 DEF Stored, NoToken
<1>7. TableInv'
  BY <1>1, <1>2, <1>6, ExpiringTables
<1> QED BY <1>4, <1>5, <1>7, Join

\* IInv is inductive.
THEOREM Inductive == IInv /\ [Next]_vars => IInv'
<1> SUFFICES ASSUME IInv, [Next]_vars PROVE IInv'
  OBVIOUS
<1>1. CASE \E w \in Workers : Begin(w)
  BY <1>1, BeginStep
<1>2. ASSUME NEW w \in Workers, TxStep(w) PROVE IInv'
  <2>1. CASE ConsentDeny(w)
    BY <2>1, RequestStep
  <2>2. CASE \E g \in Grants : ConsentAllow(w, g)
    BY <2>2, ConsentAllowStep
  <2>3. CASE LockGrant(w)
    BY <2>3, LockGrantStep
  <2>4. CASE ExecCode(w) \/ ExecRefresh(w) \/ ExecRevoke(w)
    BY <2>4, ExecStep
  <2>5. CASE ExecUnknown(w)
    BY <2>5, UnknownStep
  <2>6. CASE \E n \in Tokens : CommitIssue(w, n)
    <3>1. PICK n \in Tokens : CommitIssue(w, n)
      BY <2>6
    <3>2. job[w].kind = "code" \/ job[w].kind = "refresh"
      BY <3>1 DEF CommitIssue
    <3> QED BY <3>1, <3>2, CommitCodeStep, CommitRefreshStep
  <2>7. CASE CommitClose(w)
    BY <2>7, CommitCloseStep
  <2>8. CASE Rollback(w)
    BY <2>8, RollbackStep
  <2> QED BY <1>2, <2>1, <2>2, <2>3, <2>4, <2>5, <2>6, <2>7, <2>8 DEF TxStep
<1>3. CASE \/ \E r \in Requests, s \in Asked : Authorize(r, s)
           \/ PurgeRequests
  BY <1>3, RequestStep
<1>4. CASE \E i \in Tokens : TokenUnknown(i)
  BY <1>4, UnknownStep
<1>5. CASE \E g \in Grants : AdminRevoke(g)
  BY <1>5, AdminRevokeStep
<1>6. CASE \/ AccountStatus \/ UNCHANGED vars
           \/ \E x \in Requests \cup Grants \cup Tokens : Expire(x)
  BY <1>6, TimeStep
<1>7. CASE PurgeCodes
  BY <1>7, PurgeCodesStep
<1>8. CASE PurgeRefresh
  BY <1>8, PurgeRefreshStep
<1> QED BY <1>1, <1>2, <1>3, <1>4, <1>5, <1>6, <1>7, <1>8 DEF Next

\* IInv holds before the first request.
THEOREM InitIInv == Init => IInv
<1> SUFFICES ASSUME Init PROVE IInv
  OBVIOUS
<1>1. TypeOK
  BY Nulls DEF Init, TypeOK
<1>2. WorkerInv
  BY DEF Init, WorkerInv, JobOK, JobFits, LockHeld, Pending, Locked
<1>3. Fresh /\ Spent /\ ClosedStaysClosed /\ DetectedReplayCloses
  BY GrantAssumption
     DEF Init, Fresh, Spent, ClosedStaysClosed, DetectedReplayCloses, NoGrant, NoToken
<1>4. Consented /\ OneGrantPerRequest
  BY DEF Init, Consented, OneGrantPerRequest, NoGrant
<1>5. OneWayForward /\ ScopesNeverWiden
  BY DEF Init, OneWayForward, ScopesNeverWiden, NoToken
<1> QED BY <1>1, <1>2, <1>3, <1>4, <1>5 DEF IInv, TableInv

-----------------------------------------------------------------------------
\* Every variable keeps its type, and only a worker past LockGrant holds a lock.
THEOREM GrantTypes == Spec => []TypeOK
<1>1. IInv => TypeOK
  BY DEF IInv
<1> QED BY InitIInv, Inductive, <1>1, PTL DEF Spec

\* A grant that RevokeGrant closed stays closed, however many rotations and
\* exchanges were under way.
THEOREM Closed == Spec => []ClosedStaysClosed
<1>1. IInv => ClosedStaysClosed
  BY DEF IInv, TableInv
<1> QED BY InitIInv, Inductive, <1>1, PTL DEF Spec

\* Concurrent exchanges of one credential do not both succeed.
THEOREM OneWay == Spec => []OneWayForward
<1>1. IInv => OneWayForward
  BY DEF IInv, TableInv
<1> QED BY InitIInv, Inductive, <1>1, PTL DEF Spec

\* One consent creates one grant.
THEOREM OneGrant == Spec => []OneGrantPerRequest
<1>1. IInv => OneGrantPerRequest
  BY DEF IInv, TableInv
<1> QED BY InitIInv, Inductive, <1>1, PTL DEF Spec

\* No chain of rotations ends with more scopes than were consented to.
THEOREM Narrowing == Spec => []ScopesNeverWiden
<1>1. IInv => ScopesNeverWiden
  BY DEF IInv, TableInv
<1> QED BY InitIInv, Inductive, <1>1, PTL DEF Spec

\* A replay that finds the consumed token's row closes the grant.
THEOREM ReplayCloses == Spec => []DetectedReplayCloses
<1>1. IInv => DetectedReplayCloses
  BY DEF IInv, TableInv
<1> QED BY InitIInv, Inductive, <1>1, PTL DEF Spec

-----------------------------------------------------------------------------
(* Client registrations.                                                   *)

Pruned(w) == tx[w].kind \in {"register", "cleanup"}
             /\ tx[w].step \in {"write", "commit"}

Known == {c \in Registrations : R!Exists(c)}

\* What a transaction is about.
ShapeOf(w) ==
    /\ tx[w].step = "idle" <=> tx[w].kind = "none"
    /\ tx[w].kind \in {"register", "authorize", "consent"}
       => tx[w].client \in Registrations
    /\ tx[w].kind \in {"authorize", "consent"} => tx[w].req \in Requests
    /\ tx[w].step = "prune" => tx[w].kind \in {"register", "cleanup"}
    /\ tx[w].step = "write" => tx[w].kind # "cleanup"
    /\ ~Pruned(w) => tx[w].drop = {} /\ tx[w].since = {}

TxShape == \A w \in Workers : ShapeOf(w)

\* The id of a registration in the making is nobody else's.
NewIsAbsent ==
    \A w \in Workers :
        tx[w].kind = "register"
        => /\ clients[tx[w].client] = R!Absent
           /\ \A v \in Workers : tx[v].client = tx[w].client => v = w

\* Nor is that of a pending consent in the making.
NewIsNobodys ==
    \A w \in Workers :
        tx[w].kind = "authorize"
        => /\ requests[tx[w].req] = None
           /\ \A v \in Workers : tx[v].req = tx[w].req => v = w

\* A client that authorize or consent is about to refer to is there.
Refers(w) ==
    /\ tx[w].kind \in {"authorize", "consent"} /\ tx[w].step = "commit"
       => R!Exists(tx[w].client)
    /\ tx[w].kind = "consent" => requests[tx[w].req] \in {tx[w].client, None}
    /\ tx[w].kind = "consent" /\ tx[w].step = "commit"
       => requests[tx[w].req] = tx[w].client

ReferredExists == \A w \in Workers : Refers(w)

\* What the lock's holder decided to delete is still unused, and what it keeps
\* is still few, but for what lost its last reference since.
PruneOf(w) ==
    Pruned(w) => /\ tx[w].drop \subseteq R!Unused
                 /\ Cardinality((R!Unused \ tx[w].drop) \ tx[w].since)
                       <= R!Keep(tx[w].kind)

PruneHolds == \A w \in Workers : PruneOf(w)

\* Consent activates a client, and codes come from consents.
ConsentedActive ==
    /\ \A c \in consented : R!Exists(c) /\ clients[c].active
    /\ codes \subseteq consented

RegRest ==
    /\ IsFiniteSet(Known) /\ TxShape /\ NewIsAbsent /\ NewIsNobodys
    /\ ReferredExists /\ PruneHolds /\ ConsentedActive
    /\ R!PendingKept /\ R!PoolBounded

RegInv == R!TypeOK /\ RegRest

-----------------------------------------------------------------------------
TxType == [kind : R!Kinds, step : {"idle", "lock", "prune", "write", "commit"},
           client : Registrations \cup {None}, req : Requests \cup {None},
           drop : SUBSET Registrations, since : SUBSET Registrations]

RowType == [at : Nat, old : BOOLEAN, active : BOOLEAN]

LEMMA TxFacts ==
    ASSUME R!TypeOK, NEW w \in Workers
    PROVE  /\ tx[w] \in TxType /\ tx[w].kind \in R!Kinds
           /\ tx[w].step \in {"idle", "lock", "prune", "write", "commit"}
           /\ tx[w].client \in Registrations \cup {None}
           /\ tx[w].req \in Requests \cup {None}
           /\ tx[w].drop \subseteq Registrations
           /\ tx[w].since \subseteq Registrations
           /\ tx[w].step \in {"prune", "write", "commit"} => regLock = w
  BY DEF R!TypeOK, TxType

LEMMA RowFacts ==
    ASSUME R!TypeOK, NEW c \in Registrations
    PROVE  clients[c] \in RowType /\ clients[c].at \in Nat
           /\ clients[c].old \in BOOLEAN /\ clients[c].active \in BOOLEAN
  BY DEF R!TypeOK, RowType

LEMMA IdleFacts ==
    /\ R!Idle.kind = "none" /\ R!Idle.step = "idle" /\ R!Idle.client = None
    /\ R!Idle.req = None /\ R!Idle.drop = {} /\ R!Idle.since = {}
    /\ R!Idle \in TxType
    /\ R!Absent \in RowType /\ R!Absent.at = 0 /\ R!Absent.active = FALSE
    /\ R!Evicted \in RowType /\ R!Evicted.at = 0 /\ R!Evicted # R!Absent
<1>1. /\ R!Idle.kind = "none" /\ R!Idle.step = "idle" /\ R!Idle.client = None
      /\ R!Idle.req = None /\ R!Idle.drop = {} /\ R!Idle.since = {}
      /\ R!Idle \in TxType
  BY DEF R!Idle, TxType, R!Kinds
<1>2. /\ R!Absent \in RowType /\ R!Absent.at = 0 /\ R!Absent.active = FALSE
      /\ R!Absent.old = FALSE
  BY DEF R!Absent, RowType
<1>3. /\ R!Evicted \in RowType /\ R!Evicted.at = 0 /\ R!Evicted.old = TRUE
  BY <1>2 DEF R!Evicted, RowType
<1> QED
  BY <1>1, <1>2, <1>3

\* The instance's count of a set is the library's.
LEMMA SameCount ==
    ASSUME NEW S PROVE R!Cardinality(S) = Cardinality(S)
  BY DEF R!Cardinality, Cardinality

\* Some number of a set is the least.
LEMMA Least ==
    ASSUME NEW T, T \subseteq Nat, T # {}
    PROVE  \E x \in T : \A y \in T : x <= y
<1>1. IsWellFoundedOn(OpToRel(<, Nat), Nat)
  BY NatLessThanWellFounded
<1>2. PICK x \in T : \A y \in T : ~(<<y, x>> \in OpToRel(<, Nat))
  BY <1>1, WFMin
<1>3. \A y \in T : ~(y < x)
  BY <1>2 DEF OpToRel
<1> QED
  BY <1>3

\* The unused registrations that a prune keeps are as few as it says: all of them
\* are as young as the oldest one, whose position counts them.
LEMMA KeptAreFew ==
    ASSUME R!TypeOK, IsFiniteSet(Known), NEW k \in Nat
    PROVE  Cardinality(R!Unused \ R!Stale(k)) <= k
<1> DEFINE S == R!Unused \ R!Stale(k)
<1>1. IsFiniteSet(R!Unused) /\ IsFiniteSet(S)
  BY FS_Subset DEF R!Unused, Known
<1>2. CASE S = {}
  BY <1>2, FS_EmptySet
<1>3. CASE S # {}
  <2> DEFINE T == {clients[c].at : c \in S}
  <2>1. T \subseteq Nat /\ T # {}
    BY <1>3, RowFacts DEF R!Unused
  <2>2. PICK x \in T : \A y \in T : x <= y
    <3> HIDE DEF T
    <3> QED
      BY <2>1, Least
  <2>3. PICK c \in S : \A d \in S : clients[c].at <= clients[d].at
    BY <2>2
  <2> DEFINE U == {d \in R!Unused : clients[d].at >= clients[c].at}
  <2>4. S \subseteq U
    BY <2>3, RowFacts DEF R!Unused
  <2>5. IsFiniteSet(U) /\ Cardinality(S) <= Cardinality(U)
        /\ Cardinality(U) \in Nat /\ Cardinality(S) \in Nat
    <3>1. IsFiniteSet(U)
      BY <1>1, FS_Subset
    <3> HIDE DEF U, S
    <3> QED
      BY <1>1, <2>4, <3>1, FS_Subset, FS_CardinalityType
  <2>6. c \in R!Unused /\ c \notin R!Stale(k)
    OBVIOUS
  <2>7. ~(R!Position(c) > k) /\ R!Position(c) = Cardinality(U)
    BY <2>6, SameCount DEF R!Stale, R!Position
  <2> HIDE DEF U, S
  <2> QED
    BY <2>5, <2>7 DEF S
<1> QED
  BY <1>2, <1>3

LEMMA SameRows ==
    ASSUME UNCHANGED <<clients, requests, codes>>
    PROVE  /\ R!Unused' = R!Unused /\ Known' = Known
           /\ \A c \in Registrations : R!Exists(c)' = R!Exists(c)
  BY DEF R!Unused, Known, R!Exists, R!Referenced

\* A transaction moves and the tables do not change.
LEMMA OneTx ==
    ASSUME RegInv, NEW w \in Workers, \A v \in Workers \ {w} : tx'[v] = tx[v],
           UNCHANGED <<clients, requests, codes, consented, released>>,
           ShapeOf(w)', Refers(w)', PruneOf(w)',
           tx'[w].kind = "register"
           => /\ clients[tx'[w].client] = R!Absent
              /\ \A v \in Workers \ {w} : tx[v].client # tx'[w].client,
           \A v \in Workers \ {w} :
              /\ tx[v].kind = "register" => tx'[w].client # tx[v].client
              /\ tx[v].kind = "authorize" => tx'[w].req # tx[v].req,
           tx'[w].kind = "authorize"
           => /\ requests[tx'[w].req] = None
              /\ \A v \in Workers \ {w} : tx[v].req # tx'[w].req
    PROVE  RegRest'
<1> USE DEF RegInv, RegRest
<1>1. /\ R!Unused' = R!Unused /\ Known' = Known
      /\ \A c \in Registrations : R!Exists(c)' = R!Exists(c)
  BY SameRows
<1>2. TxShape'
  BY DEF TxShape, ShapeOf, Pruned
<1>3. NewIsAbsent'
  BY DEF NewIsAbsent
<1>4. NewIsNobodys'
  BY DEF NewIsNobodys
<1>5. ReferredExists'
  <2>1. ASSUME NEW v \in Workers \ {w} PROVE Refers(v)'
    <3>1. Refers(v)
      BY DEF ReferredExists
    <3>2. tx'[v] = tx[v] /\ requests' = requests /\ clients' = clients
      OBVIOUS
    <3> QED
      BY <3>1, <3>2 DEF Refers, R!Exists
  <2> QED
    BY <2>1 DEF ReferredExists
<1>6. PruneHolds'
  <2>1. ASSUME NEW v \in Workers \ {w} PROVE PruneOf(v)'
    <3>1. PruneOf(v)
      BY DEF PruneHolds
    <3>2. tx'[v] = tx[v]
      OBVIOUS
    <3> QED
      BY <1>1, <3>1, <3>2 DEF PruneOf, Pruned, R!Keep
  <2> QED
    BY <2>1 DEF PruneHolds
<1>7. ConsentedActive'
  BY DEF ConsentedActive, R!Exists
<1>8. R!PendingKept'
  BY DEF R!PendingKept, R!Exists
<1>9. R!PoolBounded'
  BY <1>1 DEF R!PoolBounded
<1> QED
  BY <1>1, <1>2, <1>3, <1>4, <1>5, <1>6, <1>7, <1>8, <1>9

\* A request begins.
LEMMA BeginFacts ==
    ASSUME R!TypeOK, NEW w \in Workers, NEW kind, NEW c, NEW q,
           R!Begin(w, kind, c, q)
    PROVE  /\ tx'[w].kind = kind /\ tx'[w].step = "lock" /\ tx'[w].client = c
           /\ tx'[w].req = q /\ tx'[w].drop = {} /\ tx'[w].since = {}
           /\ \A v \in Workers \ {w} : tx'[v] = tx[v]
           /\ tx[w] = R!Idle
           /\ UNCHANGED <<clients, requests, codes, consented, released>>
<1>1. tx'[w] = [R!Idle EXCEPT !.kind = kind, !.step = "lock", !.client = c,
                            !.req = q]
  BY DEF R!Begin, R!TypeOK
<1>2. /\ tx'[w].kind = kind /\ tx'[w].step = "lock" /\ tx'[w].client = c
      /\ tx'[w].req = q /\ tx'[w].drop = {} /\ tx'[w].since = {}
  BY <1>1, IdleFacts DEF TxType
<1>3. \A v \in Workers \ {w} : tx'[v] = tx[v]
  BY DEF R!Begin, R!TypeOK
<1> QED
  BY <1>2, <1>3 DEF R!Begin

LEMMA NoneIsNobody ==
    None \notin Registrations /\ None \notin Requests /\ None \notin Workers
    /\ MaxUnused \in Nat /\ MaxUnused > 0
  BY RegistrationsOK DEF R!RegistrationAssumption

LEMMA RegisterStep ==
    ASSUME RegInv, NEW w \in Workers, NEW c \in Registrations, R!Register(w, c)
    PROVE  RegRest'
<1> USE DEF RegInv, RegRest
<1>1. R!Begin(w, "register", c, None) /\ clients[c] = R!Absent
      /\ \A v \in Workers : tx[v].client # c
  BY DEF R!Register
<1>2. /\ tx'[w].kind = "register" /\ tx'[w].step = "lock" /\ tx'[w].client = c
      /\ tx'[w].req = None /\ tx'[w].drop = {} /\ tx'[w].since = {}
      /\ \A v \in Workers \ {w} : tx'[v] = tx[v]
      /\ UNCHANGED <<clients, requests, codes, consented, released>>
  BY <1>1, BeginFacts
<1>3. ShapeOf(w)' /\ Refers(w)' /\ PruneOf(w)'
  BY <1>2 DEF ShapeOf, Refers, PruneOf, Pruned
<1>4. \A v \in Workers \ {w} : tx[v].kind = "authorize" => tx'[w].req # tx[v].req
  BY <1>2, NoneIsNobody DEF TxShape, ShapeOf
<1> QED
  BY <1>1, <1>2, <1>3, <1>4, OneTx

LEMMA CleanupStep ==
    ASSUME RegInv, NEW w \in Workers, R!Cleanup(w)
    PROVE  RegRest'
<1> USE DEF RegInv, RegRest
<1>1. R!Begin(w, "cleanup", None, None)
  BY DEF R!Cleanup
<1>2. /\ tx'[w].kind = "cleanup" /\ tx'[w].step = "lock" /\ tx'[w].client = None
      /\ tx'[w].req = None /\ tx'[w].drop = {} /\ tx'[w].since = {}
      /\ \A v \in Workers \ {w} : tx'[v] = tx[v]
      /\ UNCHANGED <<clients, requests, codes, consented, released>>
  BY <1>1, BeginFacts
<1>3. ShapeOf(w)' /\ Refers(w)' /\ PruneOf(w)'
  BY <1>2 DEF ShapeOf, Refers, PruneOf, Pruned
<1>4. \A v \in Workers \ {w} :
          /\ tx[v].kind = "register" => tx'[w].client # tx[v].client
          /\ tx[v].kind = "authorize" => tx'[w].req # tx[v].req
  BY <1>2, NoneIsNobody DEF TxShape, ShapeOf
<1> QED
  BY <1>2, <1>3, <1>4, OneTx

LEMMA AuthorizeStep ==
    ASSUME RegInv, NEW w \in Workers, NEW c \in Registrations, NEW q \in Requests,
           R!Authorize(w, c, q)
    PROVE  RegRest'
<1> USE DEF RegInv, RegRest
<1>1. R!Begin(w, "authorize", c, q) /\ R!Exists(c) /\ requests[q] = None
      /\ \A v \in Workers : tx[v].req # q
  BY DEF R!Authorize, R!Usable
<1>2. /\ tx'[w].kind = "authorize" /\ tx'[w].step = "lock" /\ tx'[w].client = c
      /\ tx'[w].req = q /\ tx'[w].drop = {} /\ tx'[w].since = {}
      /\ \A v \in Workers \ {w} : tx'[v] = tx[v]
      /\ UNCHANGED <<clients, requests, codes, consented, released>>
  BY <1>1, BeginFacts
<1>3. ShapeOf(w)' /\ Refers(w)' /\ PruneOf(w)'
  BY <1>2 DEF ShapeOf, Refers, PruneOf, Pruned
<1>4. \A v \in Workers \ {w} :
          tx[v].kind = "register" => tx'[w].client # tx[v].client
  BY <1>1, <1>2, IdleFacts DEF NewIsAbsent, R!Exists
<1> QED
  BY <1>1, <1>2, <1>3, <1>4, OneTx

LEMMA ConsentStep ==
    ASSUME RegInv, NEW w \in Workers, NEW q \in Requests, R!Consent(w, q)
    PROVE  RegRest'
<1> USE DEF RegInv, RegRest
<1>1. PICK c \in Registrations : c = requests[q]
  BY DEF R!Consent, R!TypeOK
<1>2. R!Begin(w, "consent", c, q) /\ R!Exists(c) /\ requests[q] # None
  BY <1>1 DEF R!Consent, R!PendingKept
<1>3. /\ tx'[w].kind = "consent" /\ tx'[w].step = "lock" /\ tx'[w].client = c
      /\ tx'[w].req = q /\ tx'[w].drop = {} /\ tx'[w].since = {}
      /\ \A v \in Workers \ {w} : tx'[v] = tx[v]
      /\ UNCHANGED <<clients, requests, codes, consented, released>>
  BY <1>2, BeginFacts
<1>4. ShapeOf(w)' /\ Refers(w)' /\ PruneOf(w)'
  BY <1>1, <1>3 DEF ShapeOf, Refers, PruneOf, Pruned
<1>5. \A v \in Workers \ {w} :
          /\ tx[v].kind = "register" => tx'[w].client # tx[v].client
          /\ tx[v].kind = "authorize" => tx'[w].req # tx[v].req
  BY <1>2, <1>3, IdleFacts DEF NewIsAbsent, NewIsNobodys, R!Exists
<1> QED
  BY <1>3, <1>4, <1>5, OneTx

\* A transaction goes on with the client and the request it has.
LEMMA GoOn ==
    ASSUME RegInv, NEW w \in Workers, \A v \in Workers \ {w} : tx'[v] = tx[v],
           UNCHANGED <<clients, requests, codes, consented, released>>,
           tx'[w].kind = tx[w].kind, tx'[w].client = tx[w].client,
           tx'[w].req = tx[w].req, ShapeOf(w)', Refers(w)', PruneOf(w)'
    PROVE  RegRest'
<1> USE DEF RegInv, RegRest
<1>1. tx'[w].kind = "register"
      => /\ clients[tx'[w].client] = R!Absent
         /\ \A v \in Workers \ {w} : tx[v].client # tx'[w].client
  BY DEF NewIsAbsent
<1>2. tx'[w].kind = "authorize"
      => /\ requests[tx'[w].req] = None
         /\ \A v \in Workers \ {w} : tx[v].req # tx'[w].req
  BY DEF NewIsNobodys
<1>3. \A v \in Workers \ {w} :
          /\ tx[v].kind = "register" => tx'[w].client # tx[v].client
          /\ tx[v].kind = "authorize" => tx'[w].req # tx[v].req
  BY DEF NewIsAbsent, NewIsNobodys
<1> QED
  BY <1>1, <1>2, <1>3, OneTx

LEMMA ToFacts ==
    ASSUME R!TypeOK, NEW w \in Workers, NEW s, R!To(w, s)
    PROVE  /\ tx'[w].kind = tx[w].kind /\ tx'[w].step = s
           /\ tx'[w].client = tx[w].client /\ tx'[w].req = tx[w].req
           /\ tx'[w].drop = tx[w].drop /\ tx'[w].since = tx[w].since
           /\ \A v \in Workers \ {w} : tx'[v] = tx[v]
  BY DEF R!TypeOK, R!To

LEMMA LockStep ==
    ASSUME RegInv, NEW w \in Workers, R!Lock(w)
    PROVE  RegRest'
<1> USE DEF RegInv, RegRest
<1>1. PICK s \in {"prune", "write"} :
          s = IF tx[w].kind \in {"register", "cleanup"} THEN "prune" ELSE "write"
  OBVIOUS
<1>2. /\ tx[w].step = "lock" /\ R!To(w, s)
      /\ UNCHANGED <<clients, requests, codes, consented, released>>
  BY <1>1 DEF R!Lock
<1>3. /\ tx'[w].kind = tx[w].kind /\ tx'[w].step = s
      /\ tx'[w].client = tx[w].client /\ tx'[w].req = tx[w].req
      /\ tx'[w].drop = tx[w].drop /\ tx'[w].since = tx[w].since
      /\ \A v \in Workers \ {w} : tx'[v] = tx[v]
  BY <1>2, ToFacts
<1>4. ShapeOf(w) /\ Refers(w)
  BY DEF TxShape, ReferredExists
<1>5. ~Pruned(w) /\ ~Pruned(w)'
  BY <1>1, <1>2, <1>3 DEF Pruned
<1>6. ShapeOf(w)'
  BY <1>1, <1>2, <1>3, <1>4, <1>5 DEF ShapeOf
<1>7. Refers(w)' /\ PruneOf(w)'
  BY <1>2, <1>3, <1>4, <1>5 DEF Refers, PruneOf
<1> QED
  BY <1>2, <1>3, <1>6, <1>7, GoOn

LEMMA PruneStep ==
    ASSUME RegInv, NEW w \in Workers, R!Prune(w)
    PROVE  RegRest'
<1> USE DEF RegInv, RegRest
<1>1. PICK s \in {"commit", "write"} :
          s = IF tx[w].kind = "register" THEN "write" ELSE "commit"
  OBVIOUS
<1>2. PICK D : D = R!Stale(R!Keep(tx[w].kind))
  OBVIOUS
<1>3. /\ tx[w].step = "prune"
      /\ tx' = [tx EXCEPT ![w].drop = D, ![w].step = s]
      /\ UNCHANGED <<clients, requests, codes, consented, released>>
  BY <1>1, <1>2 DEF R!Prune
<1>4. /\ tx'[w].kind = tx[w].kind /\ tx'[w].step = s
      /\ tx'[w].client = tx[w].client /\ tx'[w].req = tx[w].req
      /\ tx'[w].drop = D /\ tx'[w].since = tx[w].since
      /\ \A v \in Workers \ {w} : tx'[v] = tx[v]
  BY <1>3 DEF R!TypeOK
<1>5. ShapeOf(w) /\ tx[w].kind \in {"register", "cleanup"} /\ tx[w].since = {}
  BY <1>3 DEF TxShape, ShapeOf, Pruned
<1>6. Pruned(w)' /\ ShapeOf(w)' /\ Refers(w)'
  BY <1>1, <1>4, <1>5 DEF Pruned, ShapeOf, Refers
<1>7. PruneOf(w)'
  <2>1. R!Unused' = R!Unused
    BY <1>3, SameRows
  <2>2. D \subseteq R!Unused
    BY <1>2 DEF R!Stale
  <2>3. PICK k \in Nat : k = R!Keep(tx[w].kind)
    BY NoneIsNobody DEF R!Keep
  <2>4. Cardinality(R!Unused \ D) <= k
    BY <1>2, <2>3, KeptAreFew
  <2>5. (R!Unused \ D) \ tx'[w].since = R!Unused \ D /\ R!Keep(tx'[w].kind) = k
    BY <1>4, <1>5, <2>3
  <2>6. Cardinality((R!Unused \ D) \ tx'[w].since) <= R!Keep(tx'[w].kind)
    BY <2>4, <2>5
  <2> QED
    BY <1>4, <2>1, <2>2, <2>6 DEF PruneOf, R!Keep
<1> QED
  BY <1>3, <1>4, <1>6, <1>7, GoOn

LEMMA WriteStep ==
    ASSUME RegInv, NEW w \in Workers, R!Write(w)
    PROVE  RegRest'
<1> USE DEF RegInv, RegRest
<1>1. /\ tx[w].step = "write" /\ R!To(w, "commit")
      /\ UNCHANGED <<clients, requests, codes, consented, released>>
  BY DEF R!Write
<1>2. /\ tx'[w].kind = tx[w].kind /\ tx'[w].step = "commit"
      /\ tx'[w].client = tx[w].client /\ tx'[w].req = tx[w].req
      /\ tx'[w].drop = tx[w].drop /\ tx'[w].since = tx[w].since
      /\ \A v \in Workers \ {w} : tx'[v] = tx[v]
  BY <1>1, ToFacts
<1>3. ShapeOf(w) /\ Refers(w) /\ PruneOf(w)
  BY DEF TxShape, ReferredExists, PruneHolds
<1>4. Pruned(w)' = Pruned(w)
  BY <1>1, <1>2 DEF Pruned
<1>5. ShapeOf(w)'
  BY <1>1, <1>2, <1>3, <1>4 DEF ShapeOf
<1>6. PruneOf(w)'
  BY <1>1, <1>2, <1>3, <1>4, SameRows DEF PruneOf, R!Keep
<1>7. Refers(w)'
  <2>1. tx[w].kind = "authorize" => R!Exists(tx[w].client)
    BY DEF R!Write, R!Usable
  <2>2. tx[w].kind = "consent"
        => requests[tx[w].req] = tx[w].client /\ R!Exists(tx[w].client)
    BY <1>3 DEF R!Write, Refers, R!PendingKept, ShapeOf
  <2> QED
    BY <1>1, <1>2, <2>1, <2>2 DEF Refers, R!Exists
<1> QED
  BY <1>1, <1>2, <1>5, <1>6, <1>7, GoOn

LEMMA TxRollbackStep ==
    ASSUME RegInv, NEW w \in Workers, R!Rollback(w)
    PROVE  RegRest'
<1> USE DEF RegInv, RegRest
<1>1. /\ tx' = [tx EXCEPT ![w] = R!Idle]
      /\ UNCHANGED <<clients, requests, codes, consented, released>>
  BY DEF R!Rollback
<1>2. tx'[w] = R!Idle /\ \A v \in Workers \ {w} : tx'[v] = tx[v]
  BY <1>1 DEF R!TypeOK
<1>3. ShapeOf(w)' /\ Refers(w)' /\ PruneOf(w)'
  BY <1>2, IdleFacts DEF ShapeOf, Refers, PruneOf, Pruned
<1>4. \A v \in Workers \ {w} :
          /\ tx[v].kind = "register" => tx'[w].client # tx[v].client
          /\ tx[v].kind = "authorize" => tx'[w].req # tx[v].req
  BY <1>2, NoneIsNobody, IdleFacts DEF TxShape, ShapeOf
<1> QED
  BY <1>1, <1>2, <1>3, <1>4, IdleFacts, OneTx

LEMMA OneMore ==
    ASSUME NEW K, IsFiniteSet(K), NEW c
    PROVE  IsFiniteSet(K \cup {c})
           /\ Cardinality(K \cup {c}) <= Cardinality(K) + 1
<1>1. Cardinality(K) \in Nat
  BY FS_CardinalityType
<1>2. CASE c \in K
  <2>1. K \cup {c} = K
    BY <1>2
  <2> QED
    BY <1>1, <2>1
<1>3. CASE c \notin K
  <2>1. IsFiniteSet(K \cup {c}) /\ Cardinality(K \cup {c}) = Cardinality(K) + 1
    BY <1>3, FS_AddElement
  <2> QED
    BY <1>1, <2>1
<1> QED
  BY <1>2, <1>3

\* The rows after a commit.
LEMMA CommitRows ==
    ASSUME RegInv, NEW w \in Workers, R!Commit(w), NEW c \in Registrations
    PROVE  /\ tx[w].kind = "register" /\ c = tx[w].client
              => /\ clients'[c].at = clock + 1 /\ clients'[c].active = FALSE
                 /\ ~R!Exists(c)
           /\ ~(tx[w].kind = "register" /\ c = tx[w].client)
              => IF c \in tx[w].drop THEN clients'[c] = R!Evicted
                 ELSE /\ clients'[c].at = clients[c].at
                      /\ ~R!Exists(c) => clients'[c] = clients[c]
                      /\ tx[w].kind = "consent" /\ c = tx[w].client
                         => clients'[c].active /\ R!Exists(c)
                      /\ ~(tx[w].kind = "consent" /\ c = tx[w].client)
                         => clients'[c] = clients[c]
           /\ clients'[c] \in RowType
<1> USE DEF RegInv, RegRest
<1>1. clients'[c] = IF c = tx[w].client /\ tx[w].kind = "register"
                    THEN [at |-> clock + 1, old |-> FALSE, active |-> FALSE]
                    ELSE IF c \in tx[w].drop THEN R!Evicted
                    ELSE IF c = tx[w].client /\ tx[w].kind = "consent"
                    THEN [clients[c] EXCEPT !.active = R!Exists(c)]
                    ELSE clients[c]
  BY DEF R!Commit, R!Activated
<1>2. clock \in Nat /\ tx[w].step = "commit" /\ clients[c] \in RowType
  BY RowFacts DEF R!Commit, R!TypeOK
<1>3. CASE c = tx[w].client /\ tx[w].kind = "register"
  <2>1. clients'[c] = [at |-> clock + 1, old |-> FALSE, active |-> FALSE]
    BY <1>1, <1>3
  <2>2. clients[c] = R!Absent
    BY <1>3 DEF NewIsAbsent
  <2>3. ~R!Exists(c)
    BY <2>2, IdleFacts DEF R!Exists
  <2>4. clients'[c].at = clock + 1 /\ clients'[c].active = FALSE
        /\ clients'[c] \in RowType
    BY <1>2, <2>1 DEF RowType
  <2> QED
    BY <1>3, <2>3, <2>4
<1>4. CASE ~(c = tx[w].client /\ tx[w].kind = "register") /\ c \in tx[w].drop
  BY <1>1, <1>4, IdleFacts
<1>5. CASE ~(c = tx[w].client /\ tx[w].kind = "register") /\ c \notin tx[w].drop
  <2>1. CASE c = tx[w].client /\ tx[w].kind = "consent"
    <3>1. R!Exists(c)
      BY <1>2, <2>1 DEF ReferredExists, Refers
    <3>2. clients'[c] = [clients[c] EXCEPT !.active = TRUE]
      BY <1>1, <1>5, <2>1, <3>1
    <3>3. clients'[c].at = clients[c].at /\ clients'[c].active
          /\ clients'[c] \in RowType
      BY <1>2, <3>2 DEF RowType
    <3> QED
      BY <1>5, <2>1, <3>1, <3>3
  <2>2. CASE ~(c = tx[w].client /\ tx[w].kind = "consent")
    BY <1>1, <1>2, <1>5, <2>2
  <2> QED
    BY <2>1, <2>2
<1> QED
  BY <1>3, <1>4, <1>5

LEMMA CommitFacts ==
    ASSUME RegInv, NEW w \in Workers, R!Commit(w)
    PROVE  /\ tx[w].step = "commit" /\ tx'[w] = R!Idle
           /\ \A v \in Workers \ {w} :
                 tx'[v] = tx[v] /\ tx[v].step \in {"idle", "lock"} /\ ~Pruned(v)
           /\ tx[w].kind \in {"register", "cleanup", "authorize", "consent"}
           /\ tx[w].drop \subseteq R!Unused /\ clock \in Nat
           /\ tx[w].kind \notin {"register", "cleanup"} => tx[w].drop = {}
           /\ ShapeOf(w) /\ Refers(w) /\ PruneOf(w)
<1> USE DEF RegInv, RegRest
<1>1. tx[w].step = "commit" /\ tx'[w] = R!Idle
      /\ \A v \in Workers \ {w} : tx'[v] = tx[v]
  BY DEF R!Commit, R!Ends, R!TypeOK
<1>2. ASSUME NEW v \in Workers \ {w}
      PROVE  tx[v].step \in {"idle", "lock"} /\ ~Pruned(v)
  <2>1. regLock = w /\ (tx[v].step \in {"prune", "write", "commit"} => regLock = v)
    BY <1>1, TxFacts
  <2>2. tx[v].step \in {"idle", "lock", "prune", "write", "commit"}
    BY TxFacts
  <2> QED
    BY <2>1, <2>2 DEF Pruned
<1>3. ShapeOf(w) /\ Refers(w) /\ PruneOf(w)
  BY DEF TxShape, ReferredExists, PruneHolds
<1>4. tx[w].kind \in {"register", "cleanup", "authorize", "consent"}
  BY <1>1, <1>3, TxFacts DEF ShapeOf, R!Kinds
<1>5. tx[w].kind \notin {"register", "cleanup"} => tx[w].drop = {}
  BY <1>3 DEF ShapeOf, Pruned
<1>6. tx[w].drop \subseteq R!Unused
  BY <1>1, <1>3, <1>5 DEF PruneOf, Pruned
<1> QED
  BY <1>1, <1>2, <1>3, <1>4, <1>5, <1>6 DEF R!TypeOK

LEMMA CommitStep ==
    ASSUME RegInv, NEW w \in Workers, R!Commit(w)
    PROVE  RegRest'
<1> USE DEF RegInv, RegRest
<1>1. /\ tx[w].step = "commit" /\ tx'[w] = R!Idle
      /\ \A v \in Workers \ {w} :
            tx'[v] = tx[v] /\ tx[v].step \in {"idle", "lock"} /\ ~Pruned(v)
      /\ tx[w].kind \in {"register", "cleanup", "authorize", "consent"}
      /\ tx[w].drop \subseteq R!Unused /\ clock \in Nat
      /\ tx[w].kind \notin {"register", "cleanup"} => tx[w].drop = {}
      /\ ShapeOf(w) /\ Refers(w) /\ PruneOf(w)
  BY CommitFacts
<1>2. \A c \in Registrations :
          /\ tx[w].kind = "register" /\ c = tx[w].client
             => /\ clients'[c].at = clock + 1 /\ clients'[c].active = FALSE
                /\ ~R!Exists(c)
          /\ ~(tx[w].kind = "register" /\ c = tx[w].client)
             => IF c \in tx[w].drop THEN clients'[c] = R!Evicted
                ELSE /\ clients'[c].at = clients[c].at
                     /\ ~R!Exists(c) => clients'[c] = clients[c]
                     /\ tx[w].kind = "consent" /\ c = tx[w].client
                        => clients'[c].active /\ R!Exists(c)
                     /\ ~(tx[w].kind = "consent" /\ c = tx[w].client)
                        => clients'[c] = clients[c]
  BY CommitRows
<1>3. tx[w].kind \in {"register", "authorize", "consent"}
      => tx[w].client \in Registrations
  BY <1>1 DEF ShapeOf
<1>4. tx[w].kind \in {"authorize", "consent"} => tx[w].req \in Requests
  BY <1>1 DEF ShapeOf
<1>5. \A c \in Registrations :
          /\ R!Exists(c)' => \/ R!Exists(c)
                             \/ tx[w].kind = "register" /\ c = tx[w].client
          /\ R!Exists(c) /\ c \notin tx[w].drop => R!Exists(c)'
  BY <1>2, IdleFacts DEF R!Exists
<1>6. requests' = IF tx[w].kind = "authorize"
                  THEN [requests EXCEPT ![tx[w].req] = tx[w].client]
                  ELSE IF tx[w].kind = "consent"
                  THEN [requests EXCEPT ![tx[w].req] = None]
                  ELSE requests
  <2>1. CASE tx[w].kind = "authorize"
    BY <2>1 DEF R!Commit
  <2>2. CASE tx[w].kind = "consent"
    BY <2>2 DEF R!Commit
  <2>3. CASE tx[w].kind \notin {"authorize", "consent"}
    BY <2>3 DEF R!Commit
  <2> QED
    BY <2>1, <2>2, <2>3
<1>7. \A q \in Requests : requests'[q] =
          IF tx[w].kind = "authorize" /\ q = tx[w].req THEN tx[w].client
          ELSE IF tx[w].kind = "consent" /\ q = tx[w].req THEN None
          ELSE requests[q]
  BY <1>1, <1>6 DEF R!TypeOK
<1>8. /\ codes' = IF tx[w].kind = "consent" THEN codes \cup {tx[w].client}
                  ELSE codes
      /\ consented' = IF tx[w].kind = "consent" THEN consented \cup {tx[w].client}
                      ELSE consented
      /\ released' = IF tx[w].kind \in {"register", "cleanup"} THEN tx[w].since
                     ELSE released
  BY DEF R!Commit
<1>9. IsFiniteSet(Known')
  <2>1. Known' \subseteq Known \cup {tx[w].client}
    BY <1>5 DEF Known
  <2>2. IsFiniteSet(Known \cup {tx[w].client})
    BY FS_AddElement
  <2> QED
    BY <2>1, <2>2, FS_Subset
<1>10. TxShape'
  <2>1. ShapeOf(w)'
    BY <1>1, IdleFacts DEF ShapeOf
  <2>2. \A v \in Workers \ {w} : ShapeOf(v)'
    BY <1>1 DEF TxShape, ShapeOf, Pruned
  <2> QED
    BY <2>1, <2>2 DEF TxShape
<1>11. NewIsAbsent'
  <2> SUFFICES ASSUME NEW v \in Workers, tx'[v].kind = "register"
               PROVE  /\ clients'[tx'[v].client] = R!Absent
                      /\ \A u \in Workers : tx'[u].client = tx'[v].client => u = v
    BY DEF NewIsAbsent
  <2>1. v # w /\ tx'[v] = tx[v]
    BY <1>1, IdleFacts
  <2>2. tx[v].client \in Registrations /\ clients[tx[v].client] = R!Absent
        /\ \A u \in Workers : tx[u].client = tx[v].client => u = v
    BY <2>1 DEF NewIsAbsent, TxShape, ShapeOf
  <2>3. ~R!Exists(tx[v].client) /\ tx[v].client # tx[w].client
    BY <2>1, <2>2, IdleFacts DEF R!Exists
  <2>4. tx[v].client \notin tx[w].drop
    BY <1>1, <2>3 DEF R!Unused
  <2>5. clients'[tx[v].client] = R!Absent
    BY <1>2, <2>2, <2>3, <2>4
  <2>6. \A u \in Workers : tx'[u].client = tx[v].client => u = v
    BY <1>1, <2>2, IdleFacts, NoneIsNobody
  <2> QED
    BY <2>1, <2>5, <2>6
<1>12. NewIsNobodys'
  <2> SUFFICES ASSUME NEW v \in Workers, tx'[v].kind = "authorize"
               PROVE  /\ requests'[tx'[v].req] = None
                      /\ \A u \in Workers : tx'[u].req = tx'[v].req => u = v
    BY DEF NewIsNobodys
  <2>1. v # w /\ tx'[v] = tx[v]
    BY <1>1, IdleFacts
  <2>2. tx[v].req \in Requests /\ requests[tx[v].req] = None
        /\ \A u \in Workers : tx[u].req = tx[v].req => u = v
    BY <2>1 DEF NewIsNobodys, TxShape, ShapeOf
  <2>3. requests'[tx[v].req] = None
    BY <1>7, <2>1, <2>2
  <2>4. \A u \in Workers : tx'[u].req = tx[v].req => u = v
    BY <1>1, <2>2, IdleFacts, NoneIsNobody
  <2> QED
    BY <2>1, <2>3, <2>4
<1>13. ReferredExists'
  <2>1. Refers(w)'
    BY <1>1, IdleFacts DEF Refers
  <2>2. ASSUME NEW v \in Workers \ {w} PROVE Refers(v)'
    <3>1. tx'[v] = tx[v] /\ tx[v].step # "commit"
      BY <1>1
    <3>2. tx[v].kind = "consent"
          => requests'[tx[v].req] \in {tx[v].client, None}
      <4> SUFFICES ASSUME tx[v].kind = "consent"
                   PROVE  requests'[tx[v].req] \in {tx[v].client, None}
        OBVIOUS
      <4>1. requests[tx[v].req] \in {tx[v].client, None}
            /\ tx[v].req \in Requests
        BY DEF ReferredExists, Refers, TxShape, ShapeOf
      <4>2. tx[w].kind = "authorize" => tx[v].req # tx[w].req
        BY DEF NewIsNobodys
      <4> QED
        BY <1>7, <4>1, <4>2
    <3> QED
      BY <3>1, <3>2 DEF Refers
  <2> QED
    BY <2>1, <2>2 DEF ReferredExists
<1>14. PruneHolds'
  <2>1. \A v \in Workers : ~Pruned(v)'
    BY <1>1, IdleFacts DEF Pruned
  <2> QED
    BY <2>1 DEF PruneHolds, PruneOf
<1>15. ConsentedActive'
  <2>1. codes' \subseteq consented'
    BY <1>8 DEF ConsentedActive
  <2>2. consented \subseteq Registrations
    BY DEF R!TypeOK
  <2>3. ASSUME NEW c \in consented PROVE R!Exists(c)' /\ clients'[c].active
    <3>1. c \in Registrations /\ R!Exists(c) /\ clients[c].active
      BY <2>2 DEF ConsentedActive
    <3>2. c \notin tx[w].drop
      BY <1>1, <3>1 DEF R!Unused
    <3> QED
      BY <1>2, <1>5, <3>1, <3>2
  <2>4. ASSUME tx[w].kind = "consent", NEW c, c = tx[w].client
        PROVE  R!Exists(c)' /\ clients'[c].active
    <3>1. c \in Registrations /\ c \notin tx[w].drop
      BY <1>1, <1>3, <2>4
    <3>2. clients'[c].active /\ R!Exists(c)
      BY <1>2, <2>4, <3>1
    <3> QED
      BY <1>5, <3>1, <3>2
  <2>5. ASSUME NEW c \in consented' PROVE R!Exists(c)' /\ clients'[c].active
    <3>1. CASE c \in consented
      BY <2>3, <3>1
    <3>2. CASE c \notin consented
      <4>1. tx[w].kind = "consent" /\ c = tx[w].client
        BY <1>8, <3>2
      <4> QED
        BY <2>4, <4>1
    <3> QED
      BY <3>1, <3>2
  <2> QED
    BY <2>1, <2>5 DEF ConsentedActive
<1>16. R!PendingKept'
  <2> SUFFICES ASSUME NEW q \in Requests, requests'[q] # None
               PROVE  R!Exists(requests[q])'
    BY DEF R!PendingKept
  <2>0. PICK c : c = requests'[q]
    OBVIOUS
  <2>1. c \in Registrations /\ R!Exists(c) /\ c \notin tx[w].drop
    <3>1. CASE tx[w].kind = "authorize" /\ q = tx[w].req
      BY <1>1, <1>3, <1>7, <2>0, <3>1 DEF Refers
    <3>2. CASE ~(tx[w].kind = "authorize" /\ q = tx[w].req)
      <4>1. c = requests[q] /\ c # None
        BY <1>7, <2>0, <3>2
      <4>2. c \in Registrations /\ R!Exists(c)
        BY <4>1 DEF R!PendingKept, R!TypeOK
      <4>3. R!Referenced(c)
        BY <4>1 DEF R!Referenced
      <4> QED
        BY <1>1, <4>2, <4>3 DEF R!Unused
    <3> QED
      BY <3>1, <3>2
  <2>2. R!Exists(c)'
    BY <1>5, <2>1
  <2> QED
    BY <2>0, <2>2 DEF R!Exists
<1>17. R!PoolBounded'
  <2>0. IsFiniteSet(R!Unused)
    BY FS_Subset DEF R!Unused, Known
  <2>1. ASSUME NEW c \in Registrations, c \in R!Unused'
        PROVE  \/ tx[w].kind = "register" /\ c = tx[w].client
               \/ c \in R!Unused \ tx[w].drop
    <3>1. R!Exists(c)' /\ ~clients'[c].active /\ ~R!Referenced(c)'
      BY <2>1 DEF R!Unused
    <3>2. CASE tx[w].kind = "register" /\ c = tx[w].client
      BY <3>2
    <3>3. CASE ~(tx[w].kind = "register" /\ c = tx[w].client)
      <4>1. R!Exists(c) /\ c \notin tx[w].drop
        BY <1>2, <1>5, <3>1, <3>3, IdleFacts DEF R!Exists
      <4>2. ~(tx[w].kind = "consent" /\ c = tx[w].client) /\ ~clients[c].active
        BY <1>2, <3>1, <3>3, <4>1
      <4>3. ~R!Referenced(c)
        <5>1. c \notin codes
          BY <1>8, <3>1 DEF R!Referenced
        <5>2. ASSUME NEW q \in Requests, requests[q] = c PROVE FALSE
          <6>1. requests'[q] # c
            BY <3>1 DEF R!Referenced
          <6>2. q = tx[w].req /\ tx[w].kind \in {"authorize", "consent"}
            BY <1>7, <5>2, <6>1
          <6>3. c # None
            BY NoneIsNobody
          <6> QED
            BY <1>1, <4>2, <5>2, <6>2, <6>3 DEF NewIsNobodys, Refers
        <5> QED
          BY <5>1, <5>2 DEF R!Referenced
      <4> QED
        BY <4>1, <4>2, <4>3 DEF R!Unused
    <3> QED
      BY <3>2, <3>3
  <2>2. R!Unused' \subseteq Registrations
    BY DEF R!Unused
  <2>3. CASE tx[w].kind \in {"register", "cleanup"}
    <3> DEFINE K == (R!Unused \ tx[w].drop) \ tx[w].since
    <3>1. Cardinality(K) <= R!Keep(tx[w].kind) /\ released' = tx[w].since
      BY <1>1, <1>8, <2>3 DEF PruneOf, Pruned
    <3>2. IsFiniteSet(K) /\ Cardinality(K) \in Nat
      BY <2>0, FS_Subset, FS_CardinalityType
    <3>3. CASE tx[w].kind = "cleanup"
      <4>1. R!Unused' \ released' \subseteq K
        BY <2>1, <2>2, <3>1, <3>3
      <4> HIDE DEF K
      <4>2. Cardinality(R!Unused' \ released') <= Cardinality(K)
            /\ IsFiniteSet(R!Unused' \ released')
        BY <3>2, <4>1, FS_Subset
      <4>3. Cardinality(R!Unused' \ released') \in Nat
        BY <4>2, FS_CardinalityType
      <4>4. R!Keep(tx[w].kind) = MaxUnused
        BY <3>3 DEF R!Keep
      <4>5. Cardinality(R!Unused' \ released') <= MaxUnused
        BY <3>1, <3>2, <4>2, <4>3, <4>4, NoneIsNobody
      <4> QED
        BY <4>5, SameCount DEF R!PoolBounded
    <3>4. CASE tx[w].kind = "register"
      <4>1. R!Unused' \ released' \subseteq K \cup {tx[w].client}
        BY <2>1, <2>2, <3>1, <3>4
      <4> HIDE DEF K
      <4>2. IsFiniteSet(K \cup {tx[w].client})
            /\ Cardinality(K \cup {tx[w].client}) <= Cardinality(K) + 1
        BY <3>2, OneMore
      <4>3. Cardinality(R!Unused' \ released') <= Cardinality(K \cup {tx[w].client})
            /\ IsFiniteSet(R!Unused' \ released')
        BY <4>1, <4>2, FS_Subset
      <4>4. Cardinality(R!Unused' \ released') \in Nat
            /\ Cardinality(K \cup {tx[w].client}) \in Nat
        BY <4>2, <4>3, FS_CardinalityType
      <4>5. R!Keep(tx[w].kind) = MaxUnused - 1
        BY <3>4 DEF R!Keep
      <4>6. Cardinality(R!Unused' \ released') <= MaxUnused
        BY <3>1, <3>2, <4>2, <4>3, <4>4, <4>5, NoneIsNobody
      <4> QED
        BY <4>6, SameCount DEF R!PoolBounded
    <3> QED
      BY <2>3, <3>3, <3>4
  <2>4. CASE tx[w].kind \notin {"register", "cleanup"}
    <3>1. R!Unused' \ released' \subseteq R!Unused \ released
      BY <1>8, <2>1, <2>2, <2>4
    <3>2. IsFiniteSet(R!Unused \ released)
      BY <2>0, FS_Difference
    <3>3. Cardinality(R!Unused' \ released') <= Cardinality(R!Unused \ released)
          /\ IsFiniteSet(R!Unused' \ released')
      BY <3>1, <3>2, FS_Subset
    <3>4. Cardinality(R!Unused' \ released') \in Nat
          /\ Cardinality(R!Unused \ released) \in Nat
      BY <3>2, <3>3, FS_CardinalityType
    <3> QED
      BY <3>3, <3>4, SameCount, NoneIsNobody DEF R!PoolBounded
  <2> QED
    BY <2>3, <2>4
<1> QED
  BY <1>9, <1>10, <1>11, <1>12, <1>13, <1>14, <1>15, <1>16, <1>17

\* A set that is part of another has no more elements.
LEMMA NoMore ==
    ASSUME NEW S, IsFiniteSet(S), NEW T, T \subseteq S, NEW n \in Nat,
           Cardinality(S) <= n
    PROVE  IsFiniteSet(T) /\ Cardinality(T) <= n
<1>1. IsFiniteSet(T) /\ Cardinality(T) <= Cardinality(S)
  BY FS_Subset
<1>2. Cardinality(T) \in Nat /\ Cardinality(S) \in Nat
  BY <1>1, FS_CardinalityType
<1> QED
  BY <1>1, <1>2

\* A reference goes: only the client it was to can become unused.
LEMMA ReleasedStep ==
    ASSUME RegInv, NEW c \in Registrations, R!Released(c),
           UNCHANGED <<clients, consented>>,
           codes' \subseteq codes,
           requests' \in [Requests -> Registrations \cup {None}],
           \A q \in Requests : requests'[q] \in {requests[q], None},
           \A w \in Workers :
              tx[w].kind = "consent" /\ tx[w].step = "commit"
              => requests'[tx[w].req] = requests[tx[w].req],
           \A d \in Registrations \ {c} : d \in codes => d \in codes',
           \A q \in Requests : requests[q] # c => requests'[q] = requests[q]
    PROVE  RegRest'
<1> USE DEF RegInv, RegRest
<1>1. released' = released \cup {c}
  BY DEF R!Released
<1>2. ASSUME NEW w \in Workers
      PROVE  /\ tx'[w].kind = tx[w].kind /\ tx'[w].step = tx[w].step
             /\ tx'[w].client = tx[w].client /\ tx'[w].req = tx[w].req
             /\ tx'[w].drop = tx[w].drop /\ Pruned(w)' = Pruned(w)
             /\ tx'[w].since = IF Pruned(w) THEN tx[w].since \cup {c}
                               ELSE tx[w].since
  <2>1. tx[w] \in TxType
    BY TxFacts
  <2>2. tx'[w] = IF Pruned(w) THEN [tx[w] EXCEPT !.since = tx[w].since \cup {c}]
                 ELSE tx[w]
    BY DEF R!Released, Pruned
  <2>3. /\ tx'[w].kind = tx[w].kind /\ tx'[w].step = tx[w].step
        /\ tx'[w].client = tx[w].client /\ tx'[w].req = tx[w].req
        /\ tx'[w].drop = tx[w].drop
        /\ tx'[w].since = IF Pruned(w) THEN tx[w].since \cup {c}
                          ELSE tx[w].since
    BY <2>1, <2>2 DEF TxType
  <2>4. Pruned(w)' = Pruned(w)
    BY <2>3 DEF Pruned
  <2> QED
    BY <2>3, <2>4
<1>3. \A d \in Registrations : R!Exists(d)' = R!Exists(d)
  BY DEF R!Exists
<1>4. Known' = Known
  BY <1>3 DEF Known
<1>5. R!Unused \subseteq R!Unused' /\ R!Unused' \subseteq R!Unused \cup {c}
  <2>1. ASSUME NEW d \in Registrations, R!Referenced(d)' PROVE R!Referenced(d)
    <3>1. CASE d \in codes'
      BY <3>1 DEF R!Referenced
    <3>2. CASE d \notin codes'
      <4>1. PICK q \in Requests : requests'[q] = d
        BY <2>1, <3>2 DEF R!Referenced
      <4>2. requests[q] = d
        BY <4>1, NoneIsNobody
      <4> QED
        BY <4>2 DEF R!Referenced
    <3> QED
      BY <3>1, <3>2
  <2>2. ASSUME NEW d \in Registrations, d # c, R!Referenced(d)
        PROVE  R!Referenced(d)'
    BY <2>2 DEF R!Referenced
  <2>3. clients' = clients
    OBVIOUS
  <2> QED
    BY <1>3, <2>1, <2>2, <2>3 DEF R!Unused
<1>6. IsFiniteSet(R!Unused)
  BY FS_Subset DEF R!Unused, Known
<1>7. TxShape'
  <2>1. ASSUME NEW w \in Workers PROVE ShapeOf(w)'
    <3>1. ShapeOf(w)
      BY DEF TxShape
    <3> QED
      BY <1>2, <3>1 DEF ShapeOf
  <2> QED
    BY <2>1 DEF TxShape
<1>8. NewIsAbsent'
  <2> SUFFICES ASSUME NEW w \in Workers, tx'[w].kind = "register"
               PROVE  /\ clients'[tx'[w].client] = R!Absent
                      /\ \A v \in Workers : tx'[v].client = tx'[w].client => v = w
    BY DEF NewIsAbsent
  <2>1. clients[tx[w].client] = R!Absent
        /\ \A v \in Workers : tx[v].client = tx[w].client => v = w
    BY <1>2 DEF NewIsAbsent
  <2>2. clients' = clients
    OBVIOUS
  <2> QED
    BY <1>2, <2>1, <2>2
<1>9. NewIsNobodys'
  <2> SUFFICES ASSUME NEW w \in Workers, tx'[w].kind = "authorize"
               PROVE  /\ requests'[tx'[w].req] = None
                      /\ \A v \in Workers : tx'[v].req = tx'[w].req => v = w
    BY DEF NewIsNobodys
  <2>1. tx[w].req \in Requests /\ requests[tx[w].req] = None
        /\ \A v \in Workers : tx[v].req = tx[w].req => v = w
    BY <1>2 DEF NewIsNobodys, TxShape, ShapeOf
  <2> QED
    BY <1>2, <2>1
<1>10. ReferredExists'
  <2>1. ASSUME NEW w \in Workers PROVE Refers(w)'
    <3>1. Refers(w) /\ ShapeOf(w)
      BY DEF ReferredExists, TxShape
    <3>2. clients' = clients
      OBVIOUS
    <3>3. tx'[w].kind = tx[w].kind /\ tx'[w].step = tx[w].step
          /\ tx'[w].client = tx[w].client /\ tx'[w].req = tx[w].req
      BY <1>2
    <3>4. tx[w].kind = "consent" => tx[w].req \in Requests
      BY <3>1 DEF ShapeOf
    <3>5. tx'[w].kind \in {"authorize", "consent"} /\ tx'[w].step = "commit"
          => clients'[tx'[w].client].at > 0
      BY <3>1, <3>2, <3>3 DEF Refers, R!Exists
    <3>6. tx'[w].kind = "consent"
          => requests'[tx'[w].req] \in {tx'[w].client, None}
      BY <3>1, <3>3, <3>4 DEF Refers
    <3>7. tx'[w].kind = "consent" /\ tx'[w].step = "commit"
          => requests'[tx'[w].req] = tx'[w].client
      BY <3>1, <3>3 DEF Refers
    <3> QED
      BY <3>5, <3>6, <3>7 DEF Refers, R!Exists
  <2> QED
    BY <2>1 DEF ReferredExists
<1>11. PruneHolds'
  <2>1. ASSUME NEW w \in Workers, Pruned(w)' PROVE PruneOf(w)'
    <3>1. Pruned(w) /\ PruneOf(w)
      BY <1>2, <2>1 DEF PruneHolds
    <3>2. tx'[w].drop = tx[w].drop /\ tx'[w].since = tx[w].since \cup {c}
          /\ tx'[w].kind = tx[w].kind
      BY <1>2, <3>1
    <3>3. tx'[w].drop \subseteq R!Unused'
      BY <1>5, <3>1, <3>2 DEF PruneOf
    <3>4. (R!Unused' \ tx'[w].drop) \ tx'[w].since
          \subseteq (R!Unused \ tx[w].drop) \ tx[w].since
      BY <1>5, <3>2
    <3>5. IsFiniteSet((R!Unused \ tx[w].drop) \ tx[w].since)
      BY <1>6, FS_Difference
    <3>6. R!Keep(tx[w].kind) \in Nat
      BY NoneIsNobody DEF R!Keep
    <3>7. Cardinality((R!Unused' \ tx'[w].drop) \ tx'[w].since)
          <= R!Keep(tx[w].kind)
      BY <3>1, <3>4, <3>5, <3>6, NoMore DEF PruneOf
    <3>8. R!Keep(tx[w].kind)' = R!Keep(tx[w].kind)
      BY <3>2 DEF R!Keep
    <3> QED
      BY <3>3, <3>7, <3>8 DEF PruneOf
  <2> QED
    BY <2>1 DEF PruneHolds, PruneOf
<1>12. ConsentedActive'
  <2>1. \A d \in consented' : d \in Registrations
    BY DEF R!TypeOK
  <2> QED
    BY <1>3, <2>1 DEF ConsentedActive
<1>13. R!PendingKept'
  <2> SUFFICES ASSUME NEW q \in Requests, requests'[q] # None
               PROVE  R!Exists(requests[q])'
    BY DEF R!PendingKept
  <2>1. requests'[q] = requests[q] /\ clients' = clients
    OBVIOUS
  <2>2. clients[requests[q]].at > 0
    BY <2>1 DEF R!PendingKept, R!Exists
  <2> QED
    BY <2>1, <2>2 DEF R!Exists
<1>14. R!PoolBounded'
  <2>1. R!Unused' \ released' \subseteq R!Unused \ released
    BY <1>1, <1>5
  <2>2. IsFiniteSet(R!Unused \ released)
    BY <1>6, FS_Difference
  <2>3. Cardinality(R!Unused' \ released') <= MaxUnused
    BY <2>1, <2>2, SameCount, NoMore, NoneIsNobody DEF R!PoolBounded
  <2> QED
    BY <2>3, SameCount DEF R!PoolBounded
<1> QED
  BY <1>4, <1>7, <1>8, <1>9, <1>10, <1>11, <1>12, <1>13, <1>14

LEMMA DropRequestStep ==
    ASSUME RegInv, NEW q \in Requests, R!DropRequest(q)
    PROVE  RegRest'
<1> USE DEF RegInv, RegRest
<1>1. PICK c \in Registrations : c = requests[q]
  BY DEF R!DropRequest, R!TypeOK
<1>2. R!Released(c) /\ requests' = [requests EXCEPT ![q] = None] /\ ~R!RowLocked(q)
      /\ UNCHANGED <<clients, codes, consented>>
  BY <1>1 DEF R!DropRequest
<1>3. requests' \in [Requests -> Registrations \cup {None}]
  BY <1>2 DEF R!TypeOK
<1>4. \A p \in Requests : requests'[p] = IF p = q THEN None ELSE requests[p]
  BY <1>2 DEF R!TypeOK
<1>5. \A w \in Workers :
          tx[w].kind = "consent" /\ tx[w].step = "commit"
          => requests'[tx[w].req] = requests[tx[w].req]
  <2>1. ASSUME NEW w \in Workers, tx[w].kind = "consent", tx[w].step = "commit"
        PROVE  requests'[tx[w].req] = requests[tx[w].req]
    <3>1. tx[w].req # q
      BY <1>2, <2>1 DEF R!RowLocked
    <3>2. tx[w].req \in Requests
      BY <2>1 DEF TxShape, ShapeOf
    <3> QED
      BY <1>4, <3>1, <3>2
  <2> QED
    BY <2>1
<1> QED
  BY <1>1, <1>2, <1>3, <1>4, <1>5, ReleasedStep

LEMMA DropCodesStep ==
    ASSUME RegInv, NEW c \in Registrations, R!DropCodes(c)
    PROVE  RegRest'
<1> USE DEF RegInv, RegRest
<1>1. /\ R!Released(c) /\ codes' = codes \ {c}
      /\ UNCHANGED <<clients, requests, consented>>
  BY DEF R!DropCodes
<1>2. requests' \in [Requests -> Registrations \cup {None}]
  BY <1>1 DEF R!TypeOK
<1> QED
  BY <1>1, <1>2, ReleasedStep

\* Time passes: which registrations are unused does not change.
LEMMA AgeingStep ==
    ASSUME RegInv, UNCHANGED <<requests, codes, tx, consented, released>>,
           \A c \in Registrations : /\ R!Exists(c)' = R!Exists(c)
                                    /\ clients'[c].active = clients[c].active
                                    /\ ~R!Exists(c) => clients'[c] = clients[c]
    PROVE  RegRest'
<1> USE DEF RegInv, RegRest
<1>1. \A c \in Registrations : R!Referenced(c)' = R!Referenced(c)
  BY DEF R!Referenced
<1>2. R!Unused' = R!Unused /\ Known' = Known
  BY <1>1 DEF R!Unused, Known
<1>3. TxShape'
  BY DEF TxShape, ShapeOf, Pruned
<1>4. NewIsAbsent'
  <2>1. ASSUME NEW w \in Workers, tx[w].kind = "register"
        PROVE  clients'[tx[w].client] = R!Absent
    <3>1. PICK c \in Registrations : c = tx[w].client
      BY <2>1 DEF TxShape, ShapeOf
    <3>2. clients[c] = R!Absent
      BY <2>1, <3>1 DEF NewIsAbsent
    <3>3. ~R!Exists(c)
      BY <3>2, IdleFacts DEF R!Exists
    <3> QED
      BY <3>1, <3>2, <3>3
  <2> QED
    BY <2>1 DEF NewIsAbsent
<1>5. NewIsNobodys'
  BY DEF NewIsNobodys
<1>6. ReferredExists'
  <2>1. ASSUME NEW w \in Workers PROVE Refers(w)'
    <3>1. Refers(w) /\ ShapeOf(w)
      BY DEF ReferredExists, TxShape
    <3>2. tx' = tx /\ requests' = requests
      OBVIOUS
    <3>3. tx[w].kind \in {"authorize", "consent"} /\ tx[w].step = "commit"
          => clients'[tx[w].client].at > 0
      <4> SUFFICES ASSUME tx[w].kind \in {"authorize", "consent"},
                          tx[w].step = "commit"
                   PROVE  clients'[tx[w].client].at > 0
        OBVIOUS
      <4>1. PICK c \in Registrations : c = tx[w].client
        BY <3>1 DEF ShapeOf
      <4>2. R!Exists(c)'
        BY <3>1, <4>1 DEF Refers
      <4> QED
        BY <4>1, <4>2 DEF R!Exists
    <3> QED
      BY <3>1, <3>2, <3>3 DEF Refers, R!Exists
  <2> QED
    BY <2>1 DEF ReferredExists
<1>7. PruneHolds'
  <2>1. ASSUME NEW w \in Workers PROVE PruneOf(w)'
    <3>1. PruneOf(w)
      BY DEF PruneHolds
    <3> QED
      BY <1>2, <3>1 DEF PruneOf, Pruned, R!Keep
  <2> QED
    BY <2>1 DEF PruneHolds
<1>8. ConsentedActive'
  <2>1. \A d \in consented' : d \in Registrations
    BY DEF R!TypeOK
  <2> QED
    BY <2>1 DEF ConsentedActive
<1>9. R!PendingKept'
  <2> SUFFICES ASSUME NEW q \in Requests, requests'[q] # None
               PROVE  R!Exists(requests[q])'
    BY DEF R!PendingKept
  <2>1. PICK c \in Registrations : c = requests[q]
    BY DEF R!TypeOK
  <2>2. R!Exists(c)
    BY <2>1 DEF R!PendingKept
  <2>3. R!Exists(c)'
    BY <2>2
  <2> QED
    BY <2>1, <2>3 DEF R!Exists
<1>10. R!PoolBounded'
  BY <1>2 DEF R!PoolBounded
<1> QED
  BY <1>2, <1>3, <1>4, <1>5, <1>6, <1>7, <1>8, <1>9, <1>10

LEMMA AgesStep ==
    ASSUME RegInv, NEW c \in Registrations, R!Ages(c)
    PROVE  RegRest' /\ clients' \in [Registrations -> RowType]
<1>1. /\ R!TypeOK /\ R!Exists(c)
      /\ UNCHANGED <<requests, codes, tx, consented, released>>
      /\ clients' = [clients EXCEPT ![c].old = TRUE]
  BY DEF R!Ages, RegInv
<1>2. ASSUME NEW d \in Registrations
      PROVE  /\ clients'[d].at = clients[d].at
             /\ clients'[d].active = clients[d].active
             /\ d # c => clients'[d] = clients[d]
             /\ clients'[d] \in RowType
  <2>1. clients[d] \in RowType
    BY <1>1, RowFacts
  <2>2. clients'[d] = IF d = c THEN [clients[d] EXCEPT !.old = TRUE] ELSE clients[d]
    BY <1>1 DEF R!TypeOK
  <2> QED
    BY <2>1, <2>2 DEF RowType
<1>3. clients' \in [Registrations -> RowType]
  BY <1>1, <1>2 DEF R!TypeOK
<1>4. \A d \in Registrations : /\ R!Exists(d)' = R!Exists(d)
                               /\ ~R!Exists(d) => clients'[d] = clients[d]
  BY <1>1, <1>2 DEF R!Exists
<1>5. RegRest'
  BY <1>1, <1>2, <1>4, AgeingStep
<1> QED
  BY <1>3, <1>5

LEMMA LateStep ==
    ASSUME RegInv, NEW q \in Requests, R!Late(q)
    PROVE  RegRest'
<1>1. UNCHANGED <<clients, requests, codes, tx, consented, released>>
  BY DEF R!Late
<1>2. \A c \in Registrations : R!Exists(c)' = R!Exists(c)
  BY <1>1 DEF R!Exists
<1> QED
  BY <1>1, <1>2, AgeingStep

\* Only the lock's holder is past the lock.
HolderOnly ==
    \A w \in Workers : tx[w].step \in {"prune", "write", "commit"} => regLock = w

RegTypes ==
    /\ clients \in [Registrations -> RowType]
    /\ requests \in [Requests -> Registrations \cup {None}]
    /\ late \in SUBSET Requests /\ codes \in SUBSET Registrations
    /\ clock \in Nat /\ regLock \in Workers \cup {None}
    /\ consented \in SUBSET Registrations /\ released \in SUBSET Registrations

LEMMA RegTypesAre ==
    R!TypeOK <=> RegTypes /\ tx \in [Workers -> TxType] /\ HolderOnly
  BY DEF R!TypeOK, RegTypes, HolderOnly, TxType, RowType

LEMMA RegTypesNext ==
    RegTypes' /\ tx' \in [Workers -> TxType] /\ HolderOnly' => R!TypeOK'
  BY DEF R!TypeOK, RegTypes, HolderOnly, TxType, RowType

LEMMA TypesKept ==
    ASSUME RegTypes,
           UNCHANGED <<clients, requests, late, codes, clock, consented,
                       released>>,
           regLock' \in Workers \cup {None}
    PROVE  RegTypes'
  BY DEF RegTypes

\* A worker whose step changes, with the lock that goes with it.
LEMMA OneMoves ==
    ASSUME R!TypeOK, NEW w \in Workers, NEW r \in TxType,
           tx' = [tx EXCEPT ![w] = r],
           regLock' \in Workers \cup {None},
           r.step \in {"prune", "write", "commit"} => regLock' = w,
           regLock' # regLock => regLock \in {w, None}
    PROVE  tx' \in [Workers -> TxType] /\ HolderOnly'
<1>1. tx \in [Workers -> TxType] /\ HolderOnly
  BY RegTypesAre
<1>2. tx' \in [Workers -> TxType] /\ tx'[w] = r
      /\ \A v \in Workers \ {w} : tx'[v] = tx[v]
  BY <1>1
<1>3. ASSUME NEW v \in Workers \ {w}, tx[v].step \in {"prune", "write", "commit"}
      PROVE  regLock' = v
  <2>1. regLock = v
    BY <1>1, <1>3 DEF HolderOnly
  <2> QED
    BY <2>1, NoneIsNobody
<1> QED
  BY <1>2, <1>3 DEF HolderOnly

LEMMA BeginTypes ==
    ASSUME R!TypeOK, NEW w \in Workers, NEW kind \in R!Kinds,
           NEW c \in Registrations \cup {None},
           NEW q \in Requests \cup {None}, R!Begin(w, kind, c, q)
    PROVE  R!TypeOK'
<1>1. PICK r : r = [R!Idle EXCEPT !.kind = kind, !.step = "lock", !.client = c,
                                !.req = q]
  OBVIOUS
<1>2. r \in TxType /\ r.step = "lock"
  BY <1>1 DEF R!Idle, TxType
<1>3. tx' = [tx EXCEPT ![w] = r] /\ regLock' = regLock
      /\ UNCHANGED <<clients, requests, late, codes, clock, consented, released>>
  BY <1>1 DEF R!Begin
<1>4. regLock' \in Workers \cup {None} /\ RegTypes
  BY <1>3, RegTypesAre DEF R!TypeOK
<1>5. tx' \in [Workers -> TxType] /\ HolderOnly'
  BY <1>2, <1>3, <1>4, OneMoves
<1>6. RegTypes'
  BY <1>3, <1>4, TypesKept
<1> QED
  BY <1>5, <1>6, RegTypesNext

LEMMA MoveTypes ==
    ASSUME R!TypeOK, NEW w \in Workers,
           NEW s \in {"prune", "write", "commit"},
           NEW D \in SUBSET Registrations,
           tx' = [tx EXCEPT ![w].drop = D, ![w].step = s],
           regLock' = w, regLock \in {w, None},
           UNCHANGED <<clients, requests, late, codes, clock, consented, released>>
    PROVE  R!TypeOK'
<1>1. PICK r : r = [tx[w] EXCEPT !.drop = D, !.step = s]
  OBVIOUS
<1>2. tx[w] \in TxType /\ tx \in [Workers -> TxType] /\ RegTypes
  BY TxFacts, RegTypesAre
<1>3. r \in TxType /\ r.step = s
  BY <1>1, <1>2 DEF TxType
<1>4. tx' = [tx EXCEPT ![w] = r]
  BY <1>1, <1>2
<1>5. tx' \in [Workers -> TxType] /\ HolderOnly'
  BY <1>3, <1>4, OneMoves
<1>6. RegTypes'
  BY <1>2, TypesKept
<1> QED
  BY <1>5, <1>6, RegTypesNext

LEMMA ToTypes ==
    ASSUME R!TypeOK, NEW w \in Workers, NEW s \in {"prune", "write", "commit"},
           R!To(w, s),
           regLock' = w, regLock \in {w, None},
           UNCHANGED <<clients, requests, late, codes, clock, consented, released>>
    PROVE  R!TypeOK'
<1>1. PICK D \in SUBSET Registrations : D = tx[w].drop
  BY TxFacts
<1>2. tx \in [Workers -> TxType]
  BY RegTypesAre
<1>3. tx' = [tx EXCEPT ![w].drop = D, ![w].step = s]
  BY <1>1, <1>2 DEF R!To, TxType
<1> QED
  BY <1>3, MoveTypes

LEMMA EndTypes ==
    ASSUME R!TypeOK, NEW w \in Workers, tx' = [tx EXCEPT ![w] = R!Idle],
           regLock' = IF regLock = w THEN None ELSE regLock
    PROVE  /\ tx' \in [Workers -> TxType] /\ HolderOnly'
           /\ regLock' \in Workers \cup {None}
<1>1. regLock' \in Workers \cup {None}
  BY DEF R!TypeOK
<1> QED
  BY <1>1, IdleFacts, OneMoves

LEMMA CommitTypes ==
    ASSUME RegInv, NEW w \in Workers, R!Commit(w)
    PROVE  R!TypeOK'
<1> USE DEF RegInv
<1>1. R!TypeOK /\ RegTypes
  BY RegTypesAre
<1>2. tx[w].step = "commit" /\ regLock = w
  BY TxFacts DEF R!Commit
<1>3. tx' = [tx EXCEPT ![w] = R!Idle] /\ regLock' = None /\ late' = late
  BY DEF R!Commit, R!Ends
<1>4. tx' \in [Workers -> TxType] /\ HolderOnly' /\ regLock' \in Workers \cup {None}
  BY <1>1, <1>2, <1>3, EndTypes
<1>5. clients' \in [Registrations -> RowType]
  <2>1. clients' = [c \in Registrations |-> clients'[c]]
    BY DEF R!Commit, R!Activated
  <2>2. \A c \in Registrations : clients'[c] \in RowType
    BY CommitRows
  <2> QED
    BY <2>1, <2>2
<1>6. clock' \in Nat
  BY <1>1 DEF R!Commit, RegTypes
<1>7. /\ tx[w].kind \in {"register", "cleanup", "authorize", "consent"}
      /\ ShapeOf(w)
  BY CommitFacts
<1>8. requests' \in [Requests -> Registrations \cup {None}]
  <2>1. CASE tx[w].kind = "authorize"
    BY <1>1, <1>7, <2>1 DEF R!Commit, RegTypes, ShapeOf
  <2>2. CASE tx[w].kind = "consent"
    BY <1>1, <1>7, <2>2 DEF R!Commit, RegTypes, ShapeOf
  <2>3. CASE tx[w].kind \notin {"authorize", "consent"}
    BY <1>1, <2>3 DEF R!Commit, RegTypes
  <2> QED
    BY <2>1, <2>2, <2>3
<1>9. codes' \in SUBSET Registrations /\ consented' \in SUBSET Registrations
  <2>1. CASE tx[w].kind = "consent"
    BY <1>1, <1>7, <2>1 DEF R!Commit, RegTypes, ShapeOf
  <2>2. CASE tx[w].kind # "consent"
    BY <1>1, <2>2 DEF R!Commit, RegTypes
  <2> QED
    BY <2>1, <2>2
<1>10. released' \in SUBSET Registrations
  BY <1>1, TxFacts DEF R!Commit, RegTypes
<1>11. RegTypes'
  BY <1>1, <1>3, <1>4, <1>5, <1>6, <1>8, <1>9, <1>10 DEF RegTypes
<1> QED
  BY <1>4, <1>11, RegTypesNext

LEMMA ReleasedTypes ==
    ASSUME R!TypeOK, NEW c \in Registrations, R!Released(c), regLock' = regLock
    PROVE  /\ tx' \in [Workers -> TxType] /\ HolderOnly'
           /\ released' \in SUBSET Registrations
<1>1. tx \in [Workers -> TxType] /\ HolderOnly /\ RegTypes
  BY RegTypesAre
<1>2. ASSUME NEW w \in Workers
      PROVE  tx'[w] \in TxType /\ tx'[w].step = tx[w].step
  <2>1. tx[w] \in TxType
    BY <1>1
  <2>2. tx'[w] = tx[w] \/ tx'[w] = [tx[w] EXCEPT !.since = tx[w].since \cup {c}]
    BY DEF R!Released
  <2>3. CASE tx'[w] = tx[w]
    BY <2>1, <2>3
  <2>4. CASE tx'[w] = [tx[w] EXCEPT !.since = tx[w].since \cup {c}]
    BY <2>1, <2>4 DEF TxType
  <2> QED
    BY <2>2, <2>3, <2>4
<1>3. tx' = [w \in Workers |-> tx'[w]]
  BY DEF R!Released
<1>4. tx' \in [Workers -> TxType]
  BY <1>2, <1>3
<1>5. HolderOnly'
  BY <1>1, <1>2 DEF HolderOnly
<1>6. released' \in SUBSET Registrations
  BY <1>1 DEF R!Released, RegTypes
<1> QED
  BY <1>4, <1>5, <1>6

LEMMA WorkerStep ==
    ASSUME RegInv, NEW w \in Workers,
           \/ \E c \in Registrations : R!Register(w, c)
           \/ R!Cleanup(w)
           \/ \E c \in Registrations, q \in Requests : R!Authorize(w, c, q)
           \/ \E q \in Requests : R!Consent(w, q)
           \/ R!Lock(w) \/ R!Prune(w) \/ R!Write(w) \/ R!Commit(w) \/ R!Rollback(w)
    PROVE  RegInv'
<1>0. R!TypeOK /\ RegTypes
      /\ (tx[w].step \in {"prune", "write", "commit"} => regLock = w)
  BY RegTypesAre, TxFacts DEF RegInv
<1> SUFFICES R!TypeOK' /\ RegRest'
  BY DEF RegInv
<1>1. ASSUME NEW c \in Registrations, R!Register(w, c) PROVE R!TypeOK' /\ RegRest'
  <2>1. R!TypeOK'
    BY <1>0, <1>1, BeginTypes DEF R!Register, R!Kinds
  <2> QED
    BY <1>1, <2>1, RegisterStep
<1>2. CASE R!Cleanup(w)
  <2>1. R!TypeOK'
    BY <1>0, <1>2, BeginTypes DEF R!Cleanup, R!Kinds
  <2> QED
    BY <1>2, <2>1, CleanupStep
<1>3. ASSUME NEW c \in Registrations, NEW q \in Requests, R!Authorize(w, c, q)
      PROVE  R!TypeOK' /\ RegRest'
  <2>1. R!TypeOK'
    BY <1>0, <1>3, BeginTypes DEF R!Authorize, R!Kinds
  <2> QED
    BY <1>3, <2>1, AuthorizeStep
<1>4. ASSUME NEW q \in Requests, R!Consent(w, q) PROVE R!TypeOK' /\ RegRest'
  <2>1. PICK c \in Registrations \cup {None} : c = requests[q]
    BY <1>0 DEF R!TypeOK
  <2>2. R!Begin(w, "consent", c, q)
    BY <1>4, <2>1 DEF R!Consent
  <2>3. R!TypeOK'
    BY <1>0, <2>2, BeginTypes DEF R!Kinds
  <2> QED
    BY <1>4, <2>3, ConsentStep
<1>5. CASE R!Lock(w)
  <2>1. PICK s \in {"prune", "write"} :
            s = IF tx[w].kind \in {"register", "cleanup"} THEN "prune" ELSE "write"
    OBVIOUS
  <2>2. R!To(w, s) /\ regLock' = w /\ regLock = None
        /\ UNCHANGED <<clients, requests, late, codes, clock, consented, released>>
    BY <1>5, <2>1 DEF R!Lock
  <2>3. R!TypeOK'
    BY <1>0, <2>1, <2>2, ToTypes
  <2> QED
    BY <1>5, <2>3, LockStep
<1>6. CASE R!Prune(w)
  <2>1. PICK D \in SUBSET Registrations : D = R!Stale(R!Keep(tx[w].kind))
    BY DEF R!Stale, R!Unused
  <2>2. PICK s \in {"write", "commit"} :
            s = IF tx[w].kind = "register" THEN "write" ELSE "commit"
    OBVIOUS
  <2>3. tx' = [tx EXCEPT ![w].drop = D, ![w].step = s] /\ tx[w].step = "prune"
        /\ regLock' = regLock
        /\ UNCHANGED <<clients, requests, late, codes, clock, consented, released>>
    BY <1>6, <2>1, <2>2 DEF R!Prune
  <2>4. R!TypeOK'
    BY <1>0, <2>1, <2>2, <2>3, MoveTypes
  <2> QED
    BY <1>6, <2>4, PruneStep
<1>7. CASE R!Write(w)
  <2>1. R!To(w, "commit") /\ tx[w].step = "write" /\ regLock' = regLock
        /\ UNCHANGED <<clients, requests, late, codes, clock, consented, released>>
    BY <1>7 DEF R!Write
  <2>2. R!TypeOK'
    BY <1>0, <2>1, ToTypes
  <2> QED
    BY <1>7, <2>2, WriteStep
<1>8. CASE R!Commit(w)
  BY <1>8, CommitTypes, CommitStep
<1>9. CASE R!Rollback(w)
  <2>1. tx' = [tx EXCEPT ![w] = R!Idle]
        /\ regLock' = (IF regLock = w THEN None ELSE regLock)
        /\ UNCHANGED <<clients, requests, late, codes, clock, consented, released>>
    BY <1>9 DEF R!Rollback
  <2>2. /\ tx' \in [Workers -> TxType] /\ HolderOnly'
        /\ regLock' \in Workers \cup {None}
    BY <1>0, <2>1, EndTypes
  <2>3. RegTypes'
    BY <1>0, <2>1, <2>2, TypesKept
  <2> QED
    BY <1>9, <2>2, <2>3, RegTypesNext, TxRollbackStep
<1> QED
  BY <1>1, <1>2, <1>3, <1>4, <1>5, <1>6, <1>7, <1>8, <1>9

\* The initial state.
LEMMA RegistrationsInitially == R!Init => RegInv
<1> SUFFICES ASSUME R!Init PROVE RegInv
  OBVIOUS
<1> USE DEF R!Init
<1>1. \A w \in Workers : tx[w] = R!Idle
  OBVIOUS
<1>2. \A c \in Registrations : clients[c] = R!Absent /\ ~R!Exists(c)
  BY IdleFacts DEF R!Exists
<1>3. R!TypeOK
  <2>1. RegTypes
    BY IdleFacts DEF RegTypes
  <2>2. tx \in [Workers -> TxType] /\ HolderOnly
    BY IdleFacts DEF HolderOnly
  <2> QED
    BY <2>1, <2>2, RegTypesAre
<1>4. Known = {} /\ R!Unused = {}
  BY <1>2 DEF Known, R!Unused
<1>5. IsFiniteSet(Known)
  BY <1>4, FS_EmptySet
<1>6. TxShape
  BY <1>1, IdleFacts DEF TxShape, ShapeOf, Pruned
<1>7. NewIsAbsent /\ NewIsNobodys /\ ReferredExists /\ PruneHolds
  BY <1>1, IdleFacts
  DEF NewIsAbsent, NewIsNobodys, ReferredExists, Refers, PruneHolds, PruneOf, Pruned
<1>8. ConsentedActive /\ R!PendingKept
  BY DEF ConsentedActive, R!PendingKept
<1>9. R!PoolBounded
  <2>1. R!Unused \ released = {}
    BY <1>4
  <2>2. Cardinality({}) = 0
    BY FS_EmptySet
  <2> QED
    BY <2>1, <2>2, SameCount, NoneIsNobody DEF R!PoolBounded
<1> QED
  BY <1>3, <1>5, <1>6, <1>7, <1>8, <1>9 DEF RegInv, RegRest

LEMMA RegStep == RegInv /\ [R!Next]_(R!vars) => RegInv'
<1> SUFFICES ASSUME RegInv, [R!Next]_(R!vars) PROVE RegInv'
  OBVIOUS
<1>0. R!TypeOK /\ RegTypes /\ tx \in [Workers -> TxType] /\ HolderOnly
  BY RegTypesAre DEF RegInv
<1>1. ASSUME NEW q \in Requests, R!DropRequest(q) PROVE RegInv'
  <2>1. PICK c \in Registrations : c = requests[q]
    BY <1>0, <1>1 DEF R!DropRequest, R!TypeOK
  <2>2. R!Released(c) /\ regLock' = regLock
    BY <1>1, <2>1 DEF R!DropRequest
  <2>3. /\ tx' \in [Workers -> TxType] /\ HolderOnly'
        /\ released' \in SUBSET Registrations
    BY <1>0, <2>2, ReleasedTypes
  <2>4. RegTypes'
    BY <1>0, <1>1, <2>3 DEF R!DropRequest, RegTypes
  <2> QED
    BY <1>1, <2>3, <2>4, RegTypesNext, DropRequestStep DEF RegInv
<1>2. ASSUME NEW q \in Requests, R!Late(q) PROVE RegInv'
  <2>1. RegTypes' /\ tx' \in [Workers -> TxType] /\ HolderOnly'
    BY <1>0, <1>2 DEF R!Late, RegTypes, HolderOnly
  <2> QED
    BY <1>2, <2>1, RegTypesNext, LateStep DEF RegInv
<1>3. ASSUME NEW c \in Registrations, R!DropCodes(c) PROVE RegInv'
  <2>1. R!Released(c) /\ regLock' = regLock
    BY <1>3 DEF R!DropCodes
  <2>2. /\ tx' \in [Workers -> TxType] /\ HolderOnly'
        /\ released' \in SUBSET Registrations
    BY <1>0, <2>1, ReleasedTypes
  <2>3. RegTypes'
    BY <1>0, <1>3, <2>2 DEF R!DropCodes, RegTypes
  <2> QED
    BY <1>3, <2>2, <2>3, RegTypesNext, DropCodesStep DEF RegInv
<1>4. ASSUME NEW c \in Registrations, R!Ages(c) PROVE RegInv'
  <2>1. RegRest' /\ clients' \in [Registrations -> RowType]
    BY <1>4, AgesStep
  <2>2. RegTypes' /\ tx' \in [Workers -> TxType] /\ HolderOnly'
    BY <1>0, <1>4, <2>1 DEF R!Ages, RegTypes, HolderOnly
  <2> QED
    BY <2>1, <2>2, RegTypesNext DEF RegInv
<1>5. CASE UNCHANGED R!vars
  <2>1. UNCHANGED <<clients, requests, codes, tx, consented, released>>
    BY <1>5 DEF R!vars
  <2>2. RegTypes' /\ tx' \in [Workers -> TxType] /\ HolderOnly'
    BY <1>0, <1>5 DEF R!vars, RegTypes, HolderOnly
  <2>3. \A c \in Registrations : R!Exists(c)' = R!Exists(c)
    BY <2>1 DEF R!Exists
  <2>4. RegRest'
    BY <2>1, <2>3, AgeingStep
  <2> QED
    BY <2>2, <2>4, RegTypesNext DEF RegInv
<1> QED
  BY <1>1, <1>2, <1>3, <1>4, <1>5, WorkerStep DEF R!Next

\* What registering, authorizing, consenting and cleaning up keep between them,
\* whatever requests meet the clean-up and wherever one of them fails.
THEOREM RegistrationsInvariant == R!Spec => []RegInv
  BY RegistrationsInitially, RegStep, PTL DEF R!Spec

\* No client in use is evicted, and the unused ones stay few.
THEOREM RegistrationsHold == R!Spec => []RegistrationsSound
<1>1. RegInv => RegistrationsSound
  <2> SUFFICES ASSUME RegInv PROVE RegistrationsSound
    OBVIOUS
  <2>1. R!ConsentedKept
    <3> SUFFICES ASSUME NEW c \in consented PROVE R!Usable(c)
      BY DEF R!ConsentedKept
    <3> QED
      BY DEF RegInv, RegRest, ConsentedActive, R!Usable
  <2> QED
    BY <2>1 DEF RegInv, RegRest, RegistrationsSound, R!RegistrationsSound
<1> QED
  BY <1>1, RegistrationsInvariant, PTL
=============================================================================
