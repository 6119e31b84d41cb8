----------------------------- MODULE AuditChain -----------------------------
(***************************************************************************)
(* The hash chains of audit_logs: concurrent executions of Writer.Write    *)
(* (internal/audit/writer.go), each a READ COMMITTED transaction, and what *)
(* Verifier.VerifyChain (verifier.go) says of the committed table.  A      *)
(* statement may fail, a commit may be lost or take effect unseen, and the *)
(* process may end at any point; each of them rolls the transaction back   *)
(* and frees its advisory lock.                                            *)
(*                                                                         *)
(* sha256(previous || payload) is modelled as an injective function: the   *)
(* hash of an entry is the sequence of the payloads it commits to.  Times  *)
(* are counted in units of Grain per microsecond, the precision PostgreSQL *)
(* keeps.                                                                  *)
(***************************************************************************)
EXTENDS Naturals, Sequences

CONSTANTS
    Writers,    \* transactions that can be open at a time
    Chains,     \* chain keys: account ids and "global"
    Events,     \* what is recorded, apart from its time
    Times,      \* instants at which events happen
    Grain,      \* clock units in a microsecond
    None,       \* nobody
    MaxId       \* bound on the values taken from the identity sequence

ASSUME AuditAssumption ==
    /\ None \notin Writers
    /\ Times \subseteq Nat
    /\ Grain \in Nat \ {0}
    /\ MaxId \in Nat

VARIABLES
    rows,       \* committed rows of audit_logs
    nextId,     \* the identity sequence, never rolled back
    lock,       \* holder of each chain's advisory lock
    pc,         \* next step of each transaction
    tx          \* chain, payload, previous hash and id of each transaction

vars == <<rows, nextId, lock, pc, tx>>

-----------------------------------------------------------------------------
\* What a timestamptz column returns of the time stored in it.
Micros(t) == t - (t % Grain)

Stamps == Times \cup {Micros(t) : t \in Times}
Payloads == [event : Events, at : Stamps]
Hashes == Seq(Payloads)
Rows == [id : Nat, chain : Chains, event : Events, at : Stamps,
         prev : Hashes, hash : Hashes]
Transactions == [chain : Chains, event : Events, at : Stamps, prev : Hashes,
                 id : Nat]
NoTransaction == [chain |-> None]

Hash(prev, payload) == Append(prev, payload)

Chain(c) == {r \in rows : r.chain = c}

\* SELECT hash ... ORDER BY id DESC LIMIT 1; nil, here <<>>, when there is none.
HeadHash(S) ==
    IF S = {} THEN <<>>
    ELSE (CHOOSE r \in S : \A q \in S : q.id <= r.id).hash

TypeOK ==
    /\ rows \in SUBSET Rows
    /\ nextId \in Nat
    /\ lock \in [Chains -> Writers \cup {None}]
    /\ pc \in [Writers -> {"idle", "lock", "read", "insert", "commit"}]
    /\ tx \in [Writers -> Transactions \cup {NoTransaction}]
    /\ \A w \in Writers : pc[w] # "idle" => tx[w] \in Transactions
    /\ \A r \in rows : r.id < nextId

Init ==
    /\ rows = {}
    /\ nextId = 1
    /\ lock = [c \in Chains |-> None]
    /\ pc = [w \in Writers |-> "idle"]
    /\ tx = [w \in Writers |-> NoTransaction]

-----------------------------------------------------------------------------
\* event.CreatedAt.Truncate(time.Microsecond)
CreatedAt(t) == Micros(t)

\* The event is valid, its chain key is known and the transaction has begun.
Begin(w, c, e, t) ==
    /\ pc[w] = "idle"
    /\ pc' = [pc EXCEPT ![w] = "lock"]
    /\ tx' = [tx EXCEPT ![w] = [chain |-> c, event |-> e, at |-> CreatedAt(t),
                                prev |-> <<>>, id |-> 0]]
    /\ UNCHANGED <<rows, nextId, lock>>

\* Mutant: the lock is not waited for (pg_try_advisory_xact_lock, unread).
LockTried(w) ==
    /\ pc[w] = "lock"
    /\ lock' = [lock EXCEPT ![tx[w].chain] = w]
    /\ pc' = [pc EXCEPT ![w] = "read"]
    /\ UNCHANGED <<rows, nextId, tx>>

\* pg_advisory_xact_lock(chain)
Lock(w) ==
    /\ pc[w] = "lock" /\ lock[tx[w].chain] = None
    /\ lock' = [lock EXCEPT ![tx[w].chain] = w]
    /\ pc' = [pc EXCEPT ![w] = "read"]
    /\ UNCHANGED <<rows, nextId, tx>>

\* Mutant: the head of any chain is read.
ReadAnyChain(w) ==
    /\ pc[w] = "read"
    /\ tx' = [tx EXCEPT ![w].prev = HeadHash(rows)]
    /\ pc' = [pc EXCEPT ![w] = "insert"]
    /\ UNCHANGED <<rows, nextId, lock>>

\* The previous hash, from a snapshot taken after the lock was granted.
Read(w) ==
    /\ pc[w] = "read"
    /\ tx' = [tx EXCEPT ![w].prev = HeadHash(Chain(tx[w].chain))]
    /\ pc' = [pc EXCEPT ![w] = "insert"]
    /\ UNCHANGED <<rows, nextId, lock>>

\* INSERT: the row exists, for this transaction only.
Insert(w) ==
    /\ pc[w] = "insert" /\ nextId < MaxId
    /\ tx' = [tx EXCEPT ![w].id = nextId]
    /\ nextId' = nextId + 1
    /\ pc' = [pc EXCEPT ![w] = "commit"]
    /\ UNCHANGED <<rows, lock>>

RowOf(t) ==
    [id |-> t.id, chain |-> t.chain, event |-> t.event, at |-> Micros(t.at),
     prev |-> t.prev,
     hash |-> Hash(t.prev, [event |-> t.event, at |-> t.at])]

\* Mutant: a path that returns without Rollback, its connection leaked.
UnlockedNever(w) == lock

\* The end of a transaction frees the advisory lock it holds.
Unlocked(w) == [c \in Chains |-> IF lock[c] = w THEN None ELSE lock[c]]

End(w) ==
    /\ lock' = Unlocked(w)
    /\ pc' = [pc EXCEPT ![w] = "idle"]
    /\ tx' = [tx EXCEPT ![w] = NoTransaction]

\* The row appears and the lock goes at once, whether or not the writer sees
\* the commit succeed.
Commit(w) ==
    /\ pc[w] = "commit"
    /\ rows' = rows \cup {RowOf(tx[w])}
    /\ End(w)
    /\ UNCHANGED nextId

\* A failed statement, a cancelled request, a lost commit or a crash.
Rollback(w) ==
    /\ pc[w] # "idle"
    /\ End(w)
    /\ UNCHANGED <<rows, nextId>>

WriterStep(w) == Lock(w) \/ Read(w) \/ Insert(w) \/ Commit(w) \/ Rollback(w)

Next ==
    \E w \in Writers :
        \/ \E c \in Chains, e \in Events, t \in Times : Begin(w, c, e, t)
        \/ WriterStep(w)

Spec == Init /\ [][Next]_vars

\* A transaction that holds its lock goes on, or fails; PostgreSQL grants a
\* lock to its waiters in order, so that none is passed over for ever.
Fairness ==
    /\ \A w \in Writers :
        /\ SF_vars(Lock(w))
        /\ WF_vars(pc[w] # "lock" /\ WriterStep(w))

FairSpec == Spec /\ Fairness

-----------------------------------------------------------------------------
\* VerifyChain accepts row r: its previous hash is that of the row before it,
\* and its own hash is recomputed from the stored columns.
Before(r) == {q \in Chain(r.chain) : q.id < r.id}

Accepted(r) ==
    /\ r.prev = HeadHash(Before(r))
    /\ r.hash = Hash(r.prev, [event |-> r.event, at |-> r.at])

\* Whatever writers race, fail or crash, VerifyAll finds no broken chain among
\* the committed rows: no fork, no gap, and no entry whose stored columns hash
\* to something else (writer.go:57-59).
ChainsVerify == \A r \in rows : Accepted(r)

\* The head hash of a chain commits to the complete history of its entries,
\* and that history only grows, one entry at a time.
History == INSTANCE AppendLog WITH
    Entries <- Payloads,
    log <- [c \in Chains |-> HeadHash(Chain(c))]
HistorySpec == History!Spec

\* A writer that waits for a chain's lock comes to an end, whatever the writers
\* before it run into.
WriteEnds == \A w \in Writers : pc[w] = "lock" ~> pc[w] = "idle"
=============================================================================
