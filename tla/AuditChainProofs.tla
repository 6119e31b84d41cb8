-------------------------- MODULE AuditChainProofs --------------------------
(***************************************************************************)
(* Theorems about AuditChain, for any sets of writers, chains, events and  *)
(* instants and any number of entries.                                     *)
(***************************************************************************)
EXTENDS AuditChain, TLAPS

\* The chains' histories as the refinement mapping sees them.
Logged == [c \in Chains |-> HeadHash(Chain(c))]

Started == {"read", "insert", "commit"}

\* A transaction past its lock statement has the lock of its chain.
Held == \A w \in Writers : pc[w] \in Started => lock[tx[w].chain] = w

\* What it read is still the head when it uses it.
Current == \A w \in Writers :
    pc[w] \in {"insert", "commit"} => tx[w].prev = HeadHash(Chain(tx[w].chain))

\* The row it is about to commit comes after all others of its chain.
Later == \A w \in Writers : pc[w] = "commit" =>
    tx[w].id < nextId /\ \A r \in Chain(tx[w].chain) : r.id < tx[w].id

\* The time it hashes is one the column can keep.
Whole == \A w \in Writers : pc[w] # "idle" => Micros(tx[w].at) = tx[w].at

\* Every chain with entries has a last one.
Top(S) == S # {} => \E r \in S : \A q \in S : q.id <= r.id
Topped == \A c \in Chains : Top(Chain(c))

Inv == TypeOK /\ Held /\ Current /\ Later /\ Whole /\ Topped
IInv == Inv /\ ChainsVerify

-----------------------------------------------------------------------------
\* Truncation to microseconds is idempotent.
LEMMA MicrosTwice ==
    ASSUME NEW t \in Nat, NEW g \in Nat \ {0}
    PROVE  /\ t - (t % g) \in Nat
           /\ (t - (t % g)) - ((t - (t % g)) % g) = t - (t % g)
<1> DEFINE u == t - (t % g)
<1>1. t % g \in 0..(g - 1) /\ t \div g \in Nat /\ t = g * (t \div g) + (t % g)
  BY Z3
<1>2. u \in Nat
  BY <1>1, Z3
<1>3. u % g \in 0..(g - 1) /\ u \div g \in Nat /\ u = g * (u \div g) + (u % g)
  <2> HIDE DEF u
  <2> QED BY <1>2, Z3
<1>4. u % g = 0
  <2>a. u = g * (t \div g) /\ t \div g \in Nat
    BY <1>1, Z3
  <2>1. PICK a \in Nat : u = g * a
    <3> HIDE DEF u
    <3> QED BY <2>a
  <2>2. PICK b \in Nat, m \in 0..(g - 1) : u = g * b + m /\ u % g = m
    BY <1>3
  <2> HIDE DEF u
  <2>3. g * (a - b) = m
    BY <2>1, <2>2, Z3
  <2>4. ~(a >= b + 1)
    BY <2>3, <2>2, Z3
  <2>5. ~(b >= a + 1)
    BY <2>3, <2>2, Z3
  <2> QED BY <2>3, <2>4, <2>5, <2>2, Z3
<1> QED BY <1>2, <1>4

LEMMA StampsWhole ==
    ASSUME NEW t \in Times
    PROVE  CreatedAt(t) \in Stamps /\ Micros(CreatedAt(t)) = CreatedAt(t)
<1>1. t \in Nat /\ Grain \in Nat \ {0}
  BY AuditAssumption
<1> QED BY <1>1, MicrosTwice DEF CreatedAt, Micros, Stamps

\* The head of a set of rows with a last one is the hash of a last row.
LEMMA HeadOfTop ==
    ASSUME NEW S, S # {}, Top(S)
    PROVE  \E r \in S : HeadHash(S) = r.hash /\ \A q \in S : q.id <= r.id
BY DEF HeadHash, Top

LEMMA HeadType ==
    ASSUME NEW S \in SUBSET Rows, Top(S)
    PROVE  HeadHash(S) \in Hashes
<1>1. CASE S = {}
  BY <1>1 DEF HeadHash, Hashes
<1>2. CASE S # {}
  <2>1. PICK r \in S : HeadHash(S) = r.hash
    BY <1>2, HeadOfTop
  <2> QED BY <2>1 DEF Rows
<1> QED BY <1>1, <1>2

\* A row with a larger id than all others is the head.
LEMMA HeadOfExtended ==
    ASSUME NEW S \in SUBSET Rows, NEW n \in Rows, \A r \in S : r.id < n.id
    PROVE  Top(S \cup {n}) /\ HeadHash(S \cup {n}) = n.hash
<1> DEFINE T == S \cup {n}
<1>1. n.id \in Nat /\ \A r \in S : r.id \in Nat
  BY DEF Rows
<1>2. \A q \in T : q.id <= n.id
  BY <1>1
<1>3. Top(T)
  BY <1>2 DEF Top
<1>4. PICK r \in T : HeadHash(T) = r.hash /\ \A q \in T : q.id <= r.id
  <2> HIDE DEF T
  <2> QED BY <1>3, HeadOfTop, n \in T DEF T
<1>5. r = n
  <2>1. n.id <= r.id
    BY <1>4
  <2> QED BY <2>1, <1>1
<1> QED BY <1>3, <1>4, <1>5

\* The row a transaction commits has its type and hashes to what is stored.
LEMMA RowOfType ==
    ASSUME NEW t \in Transactions, Micros(t.at) = t.at
    PROVE  /\ RowOf(t) \in Rows
           /\ RowOf(t).chain = t.chain /\ RowOf(t).id = t.id
           /\ RowOf(t).prev = t.prev
           /\ [event |-> t.event, at |-> t.at] \in Payloads
           /\ RowOf(t).hash = Hash(t.prev, [event |-> t.event, at |-> t.at])
           /\ RowOf(t).event = t.event /\ RowOf(t).at = t.at
<1>1. t.chain \in Chains /\ t.event \in Events /\ t.at \in Stamps
      /\ t.prev \in Hashes /\ t.id \in Nat
  BY DEF Transactions
<1>2. [event |-> t.event, at |-> t.at] \in Payloads
  BY <1>1 DEF Payloads
<1>3. Hash(t.prev, [event |-> t.event, at |-> t.at]) \in Hashes
  BY <1>1, <1>2 DEF Hash, Hashes
<1> QED BY <1>1, <1>2, <1>3 DEF RowOf, Rows
-----------------------------------------------------------------------------
LEMMA InitInv ==
    Init => IInv
<1> SUFFICES ASSUME Init PROVE IInv
  OBVIOUS
<1>1. rows = {} /\ nextId = 1 /\ lock = [c \in Chains |-> None]
      /\ pc = [w \in Writers |-> "idle"]
      /\ tx = [w \in Writers |-> NoTransaction]
  BY DEF Init
<1>2. TypeOK
  BY <1>1 DEF TypeOK
<1>3. Held /\ Current /\ Later /\ Whole
  BY <1>1 DEF Held, Current, Later, Whole, Started
<1>4. Topped
  BY <1>1 DEF Topped, Top, Chain
<1>5. ChainsVerify
  BY <1>1 DEF ChainsVerify
<1> QED BY <1>2, <1>3, <1>4, <1>5 DEF IInv, Inv

\* Two transactions past their lock statement are on different chains.
LEMMA Apart ==
    ASSUME TypeOK, Held, NEW w \in Writers, NEW v \in Writers, w # v,
           pc[w] \in Started, pc[v] \in Started
    PROVE  tx[w].chain # tx[v].chain
BY DEF Held

LEMMA BeginInv ==
    ASSUME IInv, NEW w \in Writers, NEW c \in Chains, NEW e \in Events,
           NEW t \in Times, Begin(w, c, e, t)
    PROVE  IInv'
<1> DEFINE new == [chain |-> c, event |-> e, at |-> CreatedAt(t),
                   prev |-> <<>>, id |-> 0]
<1>0. TypeOK /\ Held /\ Current /\ Later /\ Whole /\ Topped /\ ChainsVerify
  BY DEF IInv, Inv
<1>1. new \in Transactions /\ Micros(new.at) = new.at
  BY StampsWhole DEF Transactions, Hashes
<1> HIDE DEF new
<1>2. pc' = [pc EXCEPT ![w] = "lock"] /\ tx' = [tx EXCEPT ![w] = new]
      /\ rows' = rows /\ nextId' = nextId /\ lock' = lock
  BY DEF Begin, new
<1>3. TypeOK'
  BY <1>0, <1>1, <1>2 DEF TypeOK
<1>4. pc'[w] = "lock" /\ tx'[w] = new
      /\ \A v \in Writers \ {w} : pc'[v] = pc[v] /\ tx'[v] = tx[v]
  BY <1>0, <1>2 DEF TypeOK
<1>5. Held'
  BY <1>0, <1>2, <1>4 DEF Held, Started
<1>6. Current' /\ Later'
  BY <1>0, <1>2, <1>4 DEF Current, Later, Chain
<1>7. Whole'
  BY <1>0, <1>1, <1>4 DEF Whole
<1>8. Topped' /\ ChainsVerify'
  BY <1>0, <1>2 DEF Topped, ChainsVerify, Accepted, Before, Chain
<1> QED BY <1>3, <1>5, <1>6, <1>7, <1>8 DEF IInv, Inv

LEMMA LockInv ==
    ASSUME IInv, NEW w \in Writers, Lock(w)
    PROVE  IInv'
<1>0. TypeOK /\ Held /\ Current /\ Later /\ Whole /\ Topped /\ ChainsVerify
  BY DEF IInv, Inv
<1>1. pc[w] = "lock" /\ lock[tx[w].chain] = None
      /\ lock' = [lock EXCEPT ![tx[w].chain] = w]
      /\ pc' = [pc EXCEPT ![w] = "read"]
      /\ rows' = rows /\ nextId' = nextId /\ tx' = tx
  BY DEF Lock
<1>2. tx[w] \in Transactions /\ tx[w].chain \in Chains
  BY <1>0, <1>1 DEF TypeOK, Transactions
<1>3. TypeOK'
  BY <1>0, <1>1, <1>2 DEF TypeOK
<1>4. pc'[w] = "read" /\ \A v \in Writers \ {w} : pc'[v] = pc[v]
  BY <1>0, <1>1 DEF TypeOK
<1>5. Held'
  <2> SUFFICES ASSUME NEW v \in Writers, pc'[v] \in Started
               PROVE  lock'[tx[v].chain] = v
    BY <1>1 DEF Held
  <2>1. CASE v = w
    BY <2>1, <1>0, <1>1, <1>2 DEF TypeOK
  <2>2. CASE v # w
    <3>1. lock[tx[v].chain] = v /\ tx[v].chain # tx[w].chain
      BY <2>2, <1>0, <1>1, <1>4, AuditAssumption DEF Held
    <3> QED BY <3>1, <1>1, <1>2, <1>0 DEF TypeOK
  <2> QED BY <2>1, <2>2
<1>6. Current' /\ Later' /\ Whole'
  BY <1>0, <1>1, <1>4 DEF Current, Later, Whole, Chain
<1>7. Topped' /\ ChainsVerify'
  BY <1>0, <1>1 DEF Topped, ChainsVerify, Accepted, Before, Chain
<1> QED BY <1>3, <1>5, <1>6, <1>7 DEF IInv, Inv

LEMMA ReadInv ==
    ASSUME IInv, NEW w \in Writers, Read(w)
    PROVE  IInv'
<1> DEFINE head == HeadHash(Chain(tx[w].chain))
           new == [tx[w] EXCEPT !.prev = head]
<1>0. TypeOK /\ Held /\ Current /\ Later /\ Whole /\ Topped /\ ChainsVerify
  BY DEF IInv, Inv
<1>1. pc[w] = "read" /\ tx' = [tx EXCEPT ![w] = new]
      /\ pc' = [pc EXCEPT ![w] = "insert"]
      /\ rows' = rows /\ nextId' = nextId /\ lock' = lock
  BY DEF Read
<1>2. tx[w] \in Transactions /\ tx[w].chain \in Chains
  BY <1>0, <1>1 DEF TypeOK, Transactions
<1>3. head \in Hashes
  BY <1>0, <1>2, HeadType DEF TypeOK, Topped, Chain
<1> HIDE DEF head
<1>4. new \in Transactions /\ new.prev = head /\ new.chain = tx[w].chain
      /\ new.at = tx[w].at
  BY <1>2, <1>3 DEF Transactions
<1> HIDE DEF new
<1>5. TypeOK'
  BY <1>0, <1>1, <1>4 DEF TypeOK
<1>6. pc'[w] = "insert" /\ tx'[w] = new
      /\ \A v \in Writers \ {w} : pc'[v] = pc[v] /\ tx'[v] = tx[v]
  BY <1>0, <1>1 DEF TypeOK
<1>7. Held'
  BY <1>0, <1>1, <1>4, <1>6 DEF Held, Started
<1>8. Current'
  <2> SUFFICES ASSUME NEW v \in Writers, pc'[v] \in {"insert", "commit"}
               PROVE  tx'[v].prev = HeadHash(Chain(tx'[v].chain))
    BY <1>1 DEF Current, Chain
  <2>1. CASE v = w
    BY <2>1, <1>4, <1>6 DEF head
  <2>2. CASE v # w
    BY <2>2, <1>0, <1>6 DEF Current
  <2> QED BY <2>1, <2>2
<1>9. Later' /\ Whole'
  BY <1>0, <1>1, <1>4, <1>6 DEF Later, Whole, Chain
<1>10. Topped' /\ ChainsVerify'
  BY <1>0, <1>1 DEF Topped, ChainsVerify, Accepted, Before, Chain
<1> QED BY <1>5, <1>7, <1>8, <1>9, <1>10 DEF IInv, Inv

LEMMA InsertInv ==
    ASSUME IInv, NEW w \in Writers, Insert(w)
    PROVE  IInv'
<1> DEFINE new == [tx[w] EXCEPT !.id = nextId]
<1>0. TypeOK /\ Held /\ Current /\ Later /\ Whole /\ Topped /\ ChainsVerify
  BY DEF IInv, Inv
<1>1. pc[w] = "insert" /\ tx' = [tx EXCEPT ![w] = new]
      /\ pc' = [pc EXCEPT ![w] = "commit"]
      /\ rows' = rows /\ nextId' = nextId + 1 /\ lock' = lock
  BY DEF Insert
<1>2. tx[w] \in Transactions /\ nextId \in Nat
  BY <1>0, <1>1 DEF TypeOK
<1>4. new \in Transactions /\ new.prev = tx[w].prev
      /\ new.chain = tx[w].chain /\ new.at = tx[w].at /\ new.id = nextId
  BY <1>2 DEF Transactions
<1> HIDE DEF new
<1>a. \A r \in rows : r.id \in Nat
  BY <1>0 DEF TypeOK, Rows
<1>5. TypeOK'
  <2>1. \A r \in rows' : r.id < nextId'
    BY <1>0, <1>1, <1>2, <1>a DEF TypeOK
  <2> QED BY <2>1, <1>0, <1>1, <1>2, <1>4 DEF TypeOK
<1>6. pc'[w] = "commit" /\ tx'[w] = new
      /\ \A v \in Writers \ {w} : pc'[v] = pc[v] /\ tx'[v] = tx[v]
  BY <1>0, <1>1 DEF TypeOK
<1>7. Held'
  BY <1>0, <1>1, <1>4, <1>6 DEF Held, Started
<1>8. Current'
  BY <1>0, <1>1, <1>4, <1>6 DEF Current, Chain
<1>9. Later'
  <2> SUFFICES ASSUME NEW v \in Writers, pc'[v] = "commit"
               PROVE  /\ tx'[v].id < nextId'
                      /\ \A r \in Chain(tx'[v].chain) : r.id < tx'[v].id
    BY <1>1 DEF Later, Chain
  <2>1. CASE v = w
    BY <2>1, <1>0, <1>1, <1>2, <1>4, <1>6 DEF TypeOK, Chain
  <2>2. CASE v # w
    <3>1. tx[v].id < nextId /\ \A r \in Chain(tx[v].chain) : r.id < tx[v].id
      BY <2>2, <1>0, <1>6 DEF Later
    <3>2. tx[v].id \in Nat
      BY <2>2, <1>0, <1>6 DEF TypeOK, Transactions
    <3> QED BY <3>1, <3>2, <2>2, <1>1, <1>2, <1>6
  <2> QED BY <2>1, <2>2
<1>10. Whole'
  BY <1>0, <1>1, <1>4, <1>6 DEF Whole
<1>11. Topped' /\ ChainsVerify'
  BY <1>0, <1>1 DEF Topped, ChainsVerify, Accepted, Before, Chain
<1> QED BY <1>5, <1>7, <1>8, <1>9, <1>10, <1>11 DEF IInv, Inv

\* The end of a transaction leaves the locks of the others alone.
LEMMA EndOthers ==
    ASSUME TypeOK, Held, NEW w \in Writers, End(w)
    PROVE  /\ lock' \in [Chains -> Writers \cup {None}]
           /\ pc' \in [Writers -> {"idle", "lock", "read", "insert", "commit"}]
           /\ tx' \in [Writers -> Transactions \cup {NoTransaction}]
           /\ \A v \in Writers : pc'[v] # "idle" => tx'[v] \in Transactions
           /\ pc'[w] = "idle"
           /\ \A v \in Writers \ {w} : pc'[v] = pc[v] /\ tx'[v] = tx[v]
           /\ Held'
<1>1. pc' = [pc EXCEPT ![w] = "idle"] /\ tx' = [tx EXCEPT ![w] = NoTransaction]
      /\ lock' = [c \in Chains |-> IF lock[c] = w THEN None ELSE lock[c]]
  BY DEF End, Unlocked
<1>2. pc'[w] = "idle"
      /\ \A v \in Writers \ {w} : pc'[v] = pc[v] /\ tx'[v] = tx[v]
  BY <1>1 DEF TypeOK
<1>3. lock' \in [Chains -> Writers \cup {None}]
  BY <1>1 DEF TypeOK
<1>4. pc' \in [Writers -> {"idle", "lock", "read", "insert", "commit"}]
      /\ tx' \in [Writers -> Transactions \cup {NoTransaction}]
      /\ \A v \in Writers : pc'[v] # "idle" => tx'[v] \in Transactions
  BY <1>1, <1>2 DEF TypeOK
<1>5. Held'
  <2> SUFFICES ASSUME NEW v \in Writers, pc'[v] \in Started
               PROVE  lock'[tx'[v].chain] = v
    BY DEF Held
  <2>1. v # w /\ pc[v] \in Started /\ tx'[v] = tx[v]
    BY <1>2 DEF Started
  <2>2. lock[tx[v].chain] = v /\ tx[v].chain \in Chains
    BY <2>1 DEF Held, TypeOK, Started, Transactions
  <2> QED BY <2>1, <2>2, <1>1
<1> QED BY <1>2, <1>3, <1>4, <1>5

LEMMA RollbackInv ==
    ASSUME IInv, NEW w \in Writers, Rollback(w)
    PROVE  IInv'
<1>0. TypeOK /\ Held /\ Current /\ Later /\ Whole /\ Topped /\ ChainsVerify
  BY DEF IInv, Inv
<1>1. End(w) /\ rows' = rows /\ nextId' = nextId
  BY DEF Rollback
<1>2. TypeOK' /\ Held'
  BY <1>0, <1>1, EndOthers DEF TypeOK
<1>3. pc'[w] = "idle"
      /\ \A v \in Writers \ {w} : pc'[v] = pc[v] /\ tx'[v] = tx[v]
  BY <1>0, <1>1, EndOthers
<1>4. Current' /\ Later' /\ Whole'
  BY <1>0, <1>1, <1>3 DEF Current, Later, Whole, Chain
<1>5. Topped' /\ ChainsVerify'
  BY <1>0, <1>1 DEF Topped, ChainsVerify, Accepted, Before, Chain
<1> QED BY <1>2, <1>4, <1>5 DEF IInv, Inv

\* What a commit does to the table: its row comes last in its own chain, and the
\* other chains stay as they are.
LEMMA CommitRow ==
    ASSUME IInv, NEW w \in Writers, Commit(w)
    PROVE  LET n == RowOf(tx[w]) IN
           /\ tx[w] \in Transactions /\ n \in Rows /\ n.id < nextId
           /\ Micros(tx[w].at) = tx[w].at
           /\ n.chain = tx[w].chain /\ n.chain \in Chains
           /\ n.prev = HeadHash(Chain(n.chain))
           /\ Chain(n.chain) \in SUBSET Rows
           /\ \A r \in Chain(n.chain) : r.id < n.id
           /\ rows' = rows \cup {n}
           /\ \A c \in Chains :
                Chain(c)' = IF c = n.chain THEN Chain(c) \cup {n} ELSE Chain(c)
<1> DEFINE n == RowOf(tx[w])
<1>0. TypeOK /\ Held /\ Current /\ Later /\ Whole
  BY DEF IInv, Inv
<1>1. pc[w] = "commit" /\ rows' = rows \cup {n}
  BY DEF Commit
<1>2. tx[w] \in Transactions /\ Micros(tx[w].at) = tx[w].at
      /\ tx[w].chain \in Chains
  BY <1>0, <1>1 DEF TypeOK, Whole, Transactions
<1>3. n \in Rows /\ n.chain = tx[w].chain /\ n.id = tx[w].id
      /\ n.prev = tx[w].prev
  BY <1>2, RowOfType
<1> HIDE DEF n
<1>4. n.prev = HeadHash(Chain(n.chain))
  BY <1>0, <1>1, <1>3 DEF Current
<1>5. n.id < nextId /\ \A r \in Chain(n.chain) : r.id < n.id
  BY <1>0, <1>1, <1>3 DEF Later
<1>6. Chain(n.chain) \in SUBSET Rows
  BY <1>0 DEF TypeOK, Chain
<1>7. \A c \in Chains :
        Chain(c)' = IF c = n.chain THEN Chain(c) \cup {n} ELSE Chain(c)
  BY <1>1, <1>3 DEF Chain
<1> QED BY <1>1, <1>2, <1>3, <1>4, <1>5, <1>6, <1>7 DEF n

LEMMA CommitInv ==
    ASSUME IInv, NEW w \in Writers, Commit(w)
    PROVE  IInv'
<1>0. TypeOK /\ Held /\ Current /\ Later /\ Whole /\ Topped /\ ChainsVerify
  BY DEF IInv, Inv
<1>a. PICK n \in Rows : n = RowOf(tx[w])
  BY CommitRow
<1>1. /\ tx[w] \in Transactions /\ n.id < nextId
      /\ Micros(tx[w].at) = tx[w].at
      /\ n.chain = tx[w].chain /\ n.chain \in Chains
      /\ n.prev = HeadHash(Chain(n.chain))
      /\ Chain(n.chain) \in SUBSET Rows
      /\ \A r \in Chain(n.chain) : r.id < n.id
      /\ rows' = rows \cup {n}
  BY <1>a, CommitRow
<1>b. \A c \in Chains :
        Chain(c)' = IF c = n.chain THEN Chain(c) \cup {n} ELSE Chain(c)
  BY <1>a, CommitRow
<1>2. End(w) /\ nextId' = nextId /\ pc[w] = "commit"
  BY DEF Commit
<1>3. pc'[w] = "idle"
      /\ \A v \in Writers \ {w} : pc'[v] = pc[v] /\ tx'[v] = tx[v]
  BY <1>0, <1>2, EndOthers
<1>4. TypeOK' /\ Held'
  <2>1. rows' \in SUBSET Rows /\ \A r \in rows' : r.id < nextId
    BY <1>0, <1>1 DEF TypeOK
  <2>2. nextId' \in Nat
    BY <1>0, <1>2 DEF TypeOK
  <2> QED BY <1>0, <1>2, <2>1, <2>2, EndOthers DEF TypeOK
<1>5. \A v \in Writers : pc'[v] \in {"insert", "commit"} =>
        /\ v # w /\ pc'[v] = pc[v] /\ tx'[v] = tx[v]
        /\ tx[v].chain \in Chains /\ tx[v].chain # n.chain
        /\ Chain(tx[v].chain)' = Chain(tx[v].chain)
  <2> SUFFICES ASSUME NEW v \in Writers, pc'[v] \in {"insert", "commit"}
               PROVE  /\ v # w /\ pc'[v] = pc[v] /\ tx'[v] = tx[v]
                      /\ tx[v].chain \in Chains /\ tx[v].chain # n.chain
                      /\ Chain(tx[v].chain)' = Chain(tx[v].chain)
    OBVIOUS
  <2>1. v # w /\ pc'[v] = pc[v] /\ tx'[v] = tx[v]
    BY <1>3
  <2>2. tx[v].chain # n.chain
    BY <2>1, <1>0, <1>1, <1>2, Apart DEF Started
  <2>3. tx[v].chain \in Chains
    BY <2>1, <1>0 DEF TypeOK, Transactions
  <2>4. PICK k \in Chains : k = tx[v].chain
    BY <2>3
  <2>5. Chain(k)' = Chain(k)
    BY <2>2, <2>4, <1>b
  <2>6. Chain(tx[v].chain)' = Chain(tx[v].chain)
    BY <2>1, <2>4, <2>5 DEF Chain
  <2> QED BY <2>1, <2>2, <2>3, <2>6
<1>6. Current' /\ Later'
  <2>1. \A v \in Writers : pc'[v] \in {"insert", "commit"} =>
          tx'[v].prev = HeadHash(Chain(tx[v].chain))
    BY <1>0, <1>5 DEF Current
  <2>2. Current'
    BY <2>1, <1>5 DEF Current, Chain
  <2>3. Later'
    BY <1>0, <1>2, <1>5 DEF Later, Chain
  <2> QED BY <2>2, <2>3
<1>7. Whole'
  BY <1>0, <1>3 DEF Whole
<1>8. Topped'
  <2> SUFFICES ASSUME NEW c \in Chains PROVE Top(Chain(c)')
    BY DEF Topped, Top, Chain
  <2>1. CASE c = n.chain
    BY <2>1, <1>b, <1>1, HeadOfExtended
  <2>2. CASE c # n.chain
    BY <2>2, <1>b, <1>0 DEF Topped
  <2> QED BY <2>1, <2>2
<1>9. ChainsVerify'
  <2> SUFFICES ASSUME NEW r \in Rows, r \in rows'
               PROVE  /\ r.prev = HeadHash({q \in rows' : q.chain = r.chain
                                                      /\ q.id < r.id})
                      /\ r.hash = Hash(r.prev, [event |-> r.event, at |-> r.at])
    <3>1. rows' \in SUBSET Rows
      BY <1>4 DEF TypeOK
    <3>2. \A r_1 \in Rows : {q \in Chain(r_1.chain)' : q.id < r_1.id}
              = {q \in rows' : q.chain = r_1.chain /\ q.id < r_1.id}
      BY DEF Chain
    <3> QED BY <3>1, <3>2 DEF ChainsVerify, Accepted, Before
  <2>1. CASE r = n
    <3>1. {q \in rows' : q.chain = n.chain /\ q.id < n.id} = Chain(n.chain)
      <4>1. \A q \in Chain(n.chain) : q.id < n.id
        BY <1>1
      <4>2. ~(n.id < n.id)
        BY DEF Rows
      <4> QED BY <4>1, <4>2, <1>1 DEF Chain
    <3>2. n.hash = Hash(n.prev, [event |-> n.event, at |-> n.at])
      BY <1>a, <1>1, RowOfType
    <3> QED BY <2>1, <3>1, <3>2, <1>1
  <2>2. CASE r # n
    <3>1. r \in rows /\ Accepted(r)
      BY <2>2, <1>0, <1>1 DEF ChainsVerify
    <3>2. {q \in rows' : q.chain = r.chain /\ q.id < r.id} = Before(r)
      <4>1. ~(n.chain = r.chain /\ n.id < r.id)
        <5>1. SUFFICES ASSUME n.chain = r.chain PROVE ~(n.id < r.id)
          OBVIOUS
        <5>2. r.id < n.id
          BY <5>1, <3>1, <1>1 DEF Chain
        <5>3. r.id \in Nat /\ n.id \in Nat
          BY DEF Rows
        <5> QED BY <5>2, <5>3
      <4> QED BY <4>1, <1>1 DEF Before, Chain
    <3> QED BY <3>1, <3>2 DEF Accepted
  <2> QED BY <2>1, <2>2
<1> QED BY <1>4, <1>6, <1>7, <1>8, <1>9 DEF IInv, Inv

LEMMA NextInv ==
    IInv /\ [Next]_vars => IInv'
<1> SUFFICES ASSUME IInv, [Next]_vars PROVE IInv'
  OBVIOUS
<1>1. CASE UNCHANGED vars
  <2>1. TypeOK' /\ Held' /\ Whole'
    BY <1>1 DEF IInv, Inv, vars, TypeOK, Held, Whole
  <2>2. Current' /\ Later' /\ Topped' /\ ChainsVerify'
    BY <1>1 DEF IInv, Inv, vars, Current, Later, Topped, ChainsVerify,
                Accepted, Before, Chain
  <2> QED BY <2>1, <2>2 DEF IInv, Inv
<1>2. CASE Next
  <2>1. PICK w \in Writers :
          \/ \E c \in Chains, e \in Events, t \in Times : Begin(w, c, e, t)
          \/ WriterStep(w)
    BY <1>2 DEF Next
  <2>2. CASE \E c \in Chains, e \in Events, t \in Times : Begin(w, c, e, t)
    BY <2>2, BeginInv
  <2>3. CASE Lock(w)
    BY <2>3, LockInv
  <2>4. CASE Read(w)
    BY <2>4, ReadInv
  <2>5. CASE Insert(w)
    BY <2>5, InsertInv
  <2>6. CASE Commit(w)
    BY <2>6, CommitInv
  <2>7. CASE Rollback(w)
    BY <2>7, RollbackInv
  <2> QED BY <2>1, <2>2, <2>3, <2>4, <2>5, <2>6, <2>7 DEF WriterStep
<1> QED BY <1>1, <1>2

LEMMA Invariance ==
    Spec => []IInv
<1> QED BY InitInv, NextInv, PTL DEF Spec

\* The table, the locks and the transactions of Write keep their types, and the
\* identity sequence is ahead of every committed row.
THEOREM AuditTypes ==
    Spec => []TypeOK
<1>1. IInv => TypeOK
  BY DEF IInv, Inv
<1> QED BY <1>1, Invariance, PTL

\* Whatever writers race, fail or crash, VerifyChain accepts every committed row
\* (writer.go:48-131, verifier.go:42-195).
THEOREM Verified ==
    Spec => []ChainsVerify
<1>1. IInv => ChainsVerify
  BY DEF IInv
<1> QED BY <1>1, Invariance, PTL

-----------------------------------------------------------------------------
\* A commit appends its event to the history of its chain; nothing else touches
\* a history.
LEMMA CommitAppends ==
    ASSUME IInv, NEW w \in Writers, Commit(w)
    PROVE  History!Next
<1>a. PICK n \in Rows : n = RowOf(tx[w])
  BY CommitRow
<1>b. PICK k \in Chains : k = n.chain
  BY <1>a, CommitRow
<1> DEFINE p == [event |-> tx[w].event, at |-> tx[w].at]
<1>1. /\ tx[w] \in Transactions /\ Micros(tx[w].at) = tx[w].at
      /\ n.prev = HeadHash(Chain(n.chain))
      /\ Chain(n.chain) \in SUBSET Rows
      /\ \A r \in Chain(n.chain) : r.id < n.id
  BY <1>a, CommitRow
<1>2. \A c \in Chains :
        Chain(c)' = IF c = n.chain THEN Chain(c) \cup {n} ELSE Chain(c)
  BY <1>a, CommitRow
<1>3. p \in Payloads /\ n.hash = Append(n.prev, p)
  BY <1>a, <1>1, RowOfType DEF Hash
<1>4. HeadHash(Chain(k)') = Append(HeadHash(Chain(k)), p)
  <2>1. HeadHash(Chain(k) \cup {n}) = n.hash
    BY <1>1, <1>b, HeadOfExtended
  <2> QED BY <2>1, <1>b, <1>1, <1>2, <1>3
<1>5. \A c \in Chains : c # k => HeadHash(Chain(c)') = HeadHash(Chain(c))
  BY <1>2, <1>b
<1> HIDE DEF p
<1>6. PICK e \in Payloads : e = p
  BY <1>3
<1>7. \A c \in Chains : HeadHash(Chain(c)') =
        IF c = k THEN Append(HeadHash(Chain(c)), e) ELSE HeadHash(Chain(c))
  BY <1>4, <1>5, <1>6
<1>8. [c \in Chains |-> HeadHash(Chain(c)')]
        = [[c \in Chains |-> HeadHash(Chain(c))] EXCEPT ![k] = Append(@, e)]
  BY <1>7
<1>9. History!Extend(k, e)
  BY <1>8 DEF History!Extend
<1> QED BY <1>9 DEF History!Next

\* The audit log of concurrent writers implements an append-only log: mapped to
\* the history its head hash commits to, each chain grows by one entry at a time
\* and loses nothing (writer.go:77-131).
THEOREM ImplementsLog ==
    Spec => HistorySpec
<1>1. Init => History!Init
  BY DEF Init, History!Init, HeadHash, Chain
<1>2. IInv /\ [Next]_vars => [History!Next]_Logged
  <2> SUFFICES ASSUME IInv, [Next]_vars, ~History!Next
               PROVE  Logged' = Logged
    OBVIOUS
  <2>1. rows' = rows
    <3>1. CASE UNCHANGED vars
      BY <3>1 DEF vars
    <3>2. CASE Next
      BY <3>2, CommitAppends DEF Next, WriterStep, Begin, Lock, Read, Insert,
                                 Rollback
    <3> QED BY <3>1, <3>2
  <2> QED BY <2>1 DEF Logged, Chain
<1> QED BY <1>1, <1>2, Invariance, PTL DEF Spec, HistorySpec, History!Spec, Logged
=============================================================================
