------------------------------ MODULE JobsProofs ------------------------------
(***************************************************************************)
(* SyncJobs, ContactSync and MemberSync for any number of slots, faults,   *)
(* messages, contacts and members.                                         *)
(*                                                                         *)
(* Of the history: a message that is known is stored or owed by somebody,  *)
(* a queued job, a slot that will store it or queue a job for it, or a job *)
(* Telegram rejected; and a job dropped as a duplicate is led to by a walk *)
(* that begins no higher.                                                  *)
(*                                                                         *)
(* Of the contacts: a fetched list differs from Telegram's only in who     *)
(* changed later, and what the holder of the lease wrote is there.         *)
(*                                                                         *)
(* Of the members: since a start that nothing disturbed, the members were  *)
(* stamped as far as there are pages, so that the last page has them all.  *)
(***************************************************************************)
EXTENDS MCJobs, SequenceTheorems, TLAPS

-----------------------------------------------------------------------------
(* The walk down a chat's history.                                         *)

\* How high a walk begins.
Height(j) == IF j[1] = 0 THEN MaxMsg + 1 ELSE j[1]

\* A message below the next page of slot w.
Below(w, m) == m > slot[w].job[2] /\ m < slot[w].next

\* A message slot w has still to store, or to queue a job for; its own message is
\* delivered again if it does not.
Owed(w, m) ==
    /\ slot[w].owned
    /\ \/ /\ slot[w].step \in {"acquire", "fetch", "fail", "reject"}
          /\ Covers(slot[w].job, m)
       \/ slot[w].step = "store" /\ (m \in slot[w].page \/ Below(w, m))
       \/ slot[w].step = "publish" /\ Below(w, m)

\* The ways to a message from a height of b or less.
ByQueue(m, b) == \E j \in Jobs : queue[j] > 0 /\ Height(j) <= b /\ Covers(j, m)
BySlot(m, b) == \E w \in Slots : Height(slot[w].job) <= b /\ Owed(w, m)
ByTermed(m) == \E j \in termed : Covers(j, m)

Leads(m, b) == m \in stored \/ ByQueue(m, b) \/ BySlot(m, b) \/ ByTermed(m)

\* What is known is stored, or a job leads to it.
KnownLeads == \A m \in 1..state.newest : Leads(m, MaxMsg + 1)

\* A job that is dropped as a duplicate was not needed: a walk that is no higher
\* leads to its messages already.
RecentLeads ==
    \A j \in recent :
        j[1] # 0 => \A m \in 1..top : Covers(j, m) => Leads(m, j[1])

\* A slot that has queued its next page need not be delivered again.
DoneLeads ==
    \A w \in Slots :
        slot[w].step \in {"progress", "complete", "audit"}
        => /\ slot[w].page \subseteq stored
           /\ \A m \in 1..top : Below(w, m) => Leads(m, slot[w].next)

\* A page has no hole, and the next one begins below it.
PageShape ==
    \A w \in Slots :
        slot[w].step \in {"store", "publish", "progress", "complete", "audit"}
        => /\ \A m \in slot[w].page : Covers(slot[w].job, m)
           /\ slot[w].page # {}
              => \E hi \in slot[w].page : \A n \in slot[w].page : n <= hi
           /\ \A n \in slot[w].page : \A m \in 1..n :
                 m > slot[w].job[2]
                 => m \in slot[w].page \/ m < slot[w].next
           /\ slot[w].next < Height(slot[w].job)
           /\ slot[w].step = "publish" => slot[w].page \subseteq stored

\* Jobs are about messages that exist, and stop at known ones.
Sane(j) == j[1] <= top /\ j[2] <= state.newest

JobsSane ==
    /\ \A j \in Jobs : queue[j] > 0 => Sane(j)
    /\ \A w \in Slots : Sane(slot[w].job) /\ slot[w].next <= top
    /\ boot # None => Sane(boot)
    /\ \A j \in recent : Sane(j)
    /\ state.cursor <= top

JobsInv ==
    /\ TypeOK /\ CursorIsHolders /\ KnownLeads /\ RecentLeads /\ DoneLeads
    /\ PageShape /\ JobsSane

-----------------------------------------------------------------------------
LEMMA JobFacts ==
    ASSUME TypeOK, NEW j \in Jobs
    PROVE  /\ j[1] \in Nat /\ j[2] \in Nat /\ j[1] <= MaxMsg /\ j[2] <= MaxMsg
           /\ Height(j) \in Nat /\ Height(j) <= MaxMsg + 1 /\ Height(j) > 0
           /\ j = <<j[1], j[2]>>
  BY JobsAssumption DEF Jobs, Ids, Height

LEMMA SlotFacts ==
    ASSUME TypeOK, NEW w \in Slots
    PROVE  /\ slot[w].job \in Jobs /\ slot[w].page \subseteq 1..top
           /\ slot[w].next \in Nat /\ slot[w].next <= MaxMsg
           /\ slot[w].step \in Steps /\ slot[w].owned \in BOOLEAN
           /\ top \in Nat /\ top <= MaxMsg
  BY JobsAssumption DEF TypeOK, Ids

LEMMA CountFacts ==
    ASSUME TypeOK
    PROVE  /\ top \in Nat /\ top <= MaxMsg /\ stored \subseteq 1..top
           /\ state.newest \in Nat /\ state.newest <= top
           /\ state.cursor \in Nat /\ state.cursor <= MaxMsg
           /\ MaxMsg \in Nat
           /\ \A j \in Jobs : queue[j] \in Nat
  BY JobsAssumption DEF TypeOK, Ids

LEMMA HigherLeads ==
    ASSUME TypeOK, NEW m, NEW b \in Nat, NEW c \in Nat, b <= c, Leads(m, b)
    PROVE  Leads(m, c)
<1>1. CASE ByQueue(m, b)
  <2>1. PICK j \in Jobs : queue[j] > 0 /\ Height(j) <= b /\ Covers(j, m)
    BY <1>1 DEF ByQueue
  <2>2. Height(j) <= c
    BY <2>1, JobFacts
  <2> QED
    BY <2>1, <2>2 DEF Leads, ByQueue
<1>2. CASE BySlot(m, b)
  <2>1. PICK w \in Slots : Height(slot[w].job) <= b /\ Owed(w, m)
    BY <1>2 DEF BySlot
  <2>2. Height(slot[w].job) <= c
    BY <2>1, JobFacts, SlotFacts
  <2> QED
    BY <2>1, <2>2 DEF Leads, BySlot
<1> QED
  BY <1>1, <1>2 DEF Leads

LEMMA OwedIsCovered ==
    ASSUME TypeOK, PageShape, NEW w \in Slots, NEW m \in 1..top, Owed(w, m)
    PROVE  Covers(slot[w].job, m)
<1> USE SlotFacts
<1>1. CASE slot[w].step \in {"acquire", "fetch", "fail", "reject"}
  BY <1>1 DEF Owed
<1>2. CASE slot[w].step \in {"store", "publish"}
  <2>1. slot[w].next < Height(slot[w].job)
    BY <1>2 DEF PageShape
  <2>2. CASE m \in slot[w].page
    BY <1>2, <2>2 DEF PageShape
  <2>3. CASE Below(w, m)
    BY <2>1, <2>3, JobFacts DEF Below, Covers, Height
  <2> QED
    BY <1>2, <2>2, <2>3 DEF Owed
<1> QED
  BY <1>1, <1>2 DEF Owed

-----------------------------------------------------------------------------
(* Every step keeps the ways to a message.                                 *)

\* Nothing stored or rejected is undone, and slot w alone moves.
OneMoves(w) ==
    /\ stored \subseteq stored' /\ termed \subseteq termed'
    /\ \A v \in Slots \ {w} : slot'[v] = slot[v]

LEMMA LeadsKept ==
    ASSUME NEW w \in Slots, NEW m, NEW b, OneMoves(w), Leads(m, b),
           ByQueue(m, b) => Leads(m, b)',
           Height(slot[w].job) <= b /\ Owed(w, m) => Leads(m, b)'
    PROVE  Leads(m, b)'
<1>1. CASE m \in stored
  BY <1>1 DEF Leads, OneMoves
<1>2. CASE ByTermed(m)
  BY <1>2 DEF Leads, OneMoves, ByTermed, Covers
<1>3. CASE BySlot(m, b)
  <2>1. PICK v \in Slots : Height(slot[v].job) <= b /\ Owed(v, m)
    BY <1>3 DEF BySlot
  <2>2. CASE v # w
    <3>1. slot'[v] = slot[v]
      BY <2>2 DEF OneMoves
    <3>2. Height(slot'[v].job) <= b /\ Owed(v, m)'
      BY <2>1, <3>1 DEF Owed, Below, Covers, Height
    <3> QED
      BY <3>2 DEF Leads, BySlot, Height
  <2> QED
    BY <2>1, <2>2
<1> QED
  BY <1>1, <1>2, <1>3 DEF Leads

LEMMA QueueKept ==
    ASSUME NEW m, NEW b, ByQueue(m, b),
           \A j \in Jobs : queue[j] > 0 => queue'[j] > 0
    PROVE  Leads(m, b)'
  BY DEF ByQueue, Leads, Height, Covers

LEMMA QueuedLeads ==
    ASSUME NEW j \in Jobs, NEW m, NEW b, queue'[j] > 0, Height(j) <= b,
           Covers(j, m)
    PROVE  Leads(m, b)'
  BY DEF Leads, ByQueue, Height, Covers

LEMMA SlotLeads ==
    ASSUME NEW w \in Slots, NEW m, NEW b, Height(slot[w].job) <= b,
           slot'[w].job = slot[w].job, Owed(w, m)'
    PROVE  Leads(m, b)'
  BY DEF Leads, BySlot, Height

LEMMA StillLeads ==
    ASSUME NEW m, NEW b, Leads(m, b), stored \subseteq stored',
           termed \subseteq termed', slot' = slot,
           \A j \in Jobs : queue[j] > 0 => queue'[j] > 0
    PROVE  Leads(m, b)'
<1>1. CASE m \in stored
  BY <1>1 DEF Leads
<1>2. CASE ByTermed(m)
  BY <1>2 DEF Leads, ByTermed, Covers
<1>3. CASE BySlot(m, b)
  BY <1>3 DEF Leads, BySlot, Owed, Below, Covers, Height
<1>4. CASE ByQueue(m, b)
  BY <1>4, QueueKept
<1> QED
  BY <1>1, <1>2, <1>3, <1>4 DEF Leads

LEMMA PublishedKeeps ==
    ASSUME TypeOK, NEW j \in Jobs, Published(j)
    PROVE  /\ \A i \in Jobs : queue[i] > 0 => queue'[i] > 0
           /\ \A i \in Jobs : i # j => queue'[i] = queue[i]
           /\ j \notin recent => queue'[j] > 0
           /\ queue' \in [Jobs -> Nat] /\ recent' \subseteq Jobs
  BY DEF TypeOK, Published

LEMMA ReturnedKeeps ==
    ASSUME TypeOK, NEW w \in Slots, Returned(w)
    PROVE  /\ \A i \in Jobs : queue[i] > 0 => queue'[i] > 0
           /\ \A i \in Jobs : i # slot[w].job => queue'[i] = queue[i]
           /\ slot[w].owned => queue'[slot[w].job] > 0
           /\ queue' \in [Jobs -> Nat]
           /\ slot'[w] = Free /\ \A v \in Slots \ {w} : slot'[v] = slot[v]
  BY SlotFacts DEF TypeOK, Returned

\* A slot that gives its message back, or has nothing left to do.
LEMMA ReturnedLeads ==
    ASSUME TypeOK, PageShape, NEW w \in Slots, NEW m \in 1..top, NEW b \in Nat,
           Leads(m, b), Returned(w), stored' = stored, termed' = termed
    PROVE  Leads(m, b)'
<1>1. OneMoves(w)
  BY ReturnedKeeps DEF OneMoves
<1>2. ByQueue(m, b) => Leads(m, b)'
  BY ReturnedKeeps, QueueKept
<1>3. ASSUME Height(slot[w].job) <= b, Owed(w, m)
      PROVE  Leads(m, b)'
  <2>1. Covers(slot[w].job, m)
    BY <1>3, OwedIsCovered
  <2>2. queue'[slot[w].job] > 0
    BY <1>3, ReturnedKeeps DEF Owed
  <2>3. slot[w].job \in Jobs
    BY SlotFacts
  <2>4. PICK j \in Jobs : j = slot[w].job
    BY <2>3
  <2> QED
    BY <1>3, <2>1, <2>2, <2>4, QueuedLeads
<1> QED
  BY <1>1, <1>2, <1>3, LeadsKept

\* A slot that keeps its job and its message and changes its step.
LEMMA MovedLeads ==
    ASSUME TypeOK, NEW w \in Slots, NEW m, NEW b, Leads(m, b),
           OneMoves(w), queue' = queue, slot'[w].job = slot[w].job,
           Owed(w, m) => m \in stored' \/ Owed(w, m)'
    PROVE  Leads(m, b)'
<1>1. ByQueue(m, b) => Leads(m, b)'
  BY QueueKept
<1>2. Height(slot[w].job) <= b /\ Owed(w, m) => Leads(m, b)'
  BY SlotLeads DEF Leads
<1> QED
  BY <1>1, <1>2, LeadsKept

LEMMA ToMoves ==
    ASSUME TypeOK, NEW w \in Slots, NEW s \in Steps, To(w, s)
    PROVE  /\ slot'[w].step = s /\ slot'[w].job = slot[w].job
           /\ slot'[w].owned = slot[w].owned /\ slot'[w].page = slot[w].page
           /\ slot'[w].next = slot[w].next
           /\ \A v \in Slots \ {w} : slot'[v] = slot[v]
  BY DEF TypeOK, To

LEMMA PageFacts ==
    ASSUME TypeOK, JobsSane, NEW w \in Slots, NEW page \in Pages(slot[w].job[1])
    PROVE  LET j == slot[w].job IN
           /\ page \subseteq 1..top
           /\ Kept(j, page) \subseteq 1..top
           /\ NextBefore(j, page) \in Nat /\ NextBefore(j, page) <= top
           /\ NextBefore(j, page) < Height(j)
           /\ \A m \in Kept(j, page) : Covers(j, m)
           /\ Kept(j, page) # {}
              => \E h \in Kept(j, page) : \A n \in Kept(j, page) : n <= h
           /\ \A n \in Kept(j, page) : \A m \in 1..n :
                 m > j[2] => m \in Kept(j, page) \/ m < NextBefore(j, page)
           /\ \A m \in 1..top :
                 Covers(j, m)
                 => m \in Kept(j, page) \/ (m > j[2] /\ m < NextBefore(j, page))
<1>1. slot[w].job \in Jobs /\ top \in Nat /\ top <= MaxMsg /\ MaxMsg \in Nat
  BY SlotFacts, CountFacts
<1>2. PICK j \in Jobs : j = slot[w].job
  BY <1>1
<1>3. j[1] \in Nat /\ j[2] \in Nat /\ j[1] <= top /\ Height(j) > 0
  BY <1>2, JobFacts DEF JobsSane, Sane
<1> DEFINE hi == Newest(j[1])
<1>4. /\ hi \in Nat /\ hi <= top /\ hi < Height(j)
      /\ \A m \in 1..top : Covers(j, m) => m <= hi
      /\ \A m \in Nat : m <= hi /\ m > j[2] => Covers(j, m)
  BY <1>1, <1>3 DEF Newest, Height, Covers
<1> HIDE DEF hi
<1>5. CASE hi = 0
  <2>1. page = {}
    BY <1>2, <1>5 DEF Pages, hi
  <2>2. Kept(j, page) = {} /\ NextBefore(j, page) = 0
    BY <2>1 DEF Kept, NextBefore
  <2> QED
    BY <1>1, <1>2, <1>3, <1>4, <1>5, <2>1, <2>2
<1>6. CASE hi # 0
  <2>1. PICK lo \in 1..hi : page = lo..hi
    BY <1>2, <1>6 DEF Pages, hi
  <2>2. Kept(j, page) = {m \in lo..hi : m > j[2]} /\ page # {}
    BY <2>1, <1>4 DEF Kept
  <2> DEFINE k == Kept(j, page)
             n0 == NextBefore(j, page)
  <2>3. lo \in Nat /\ lo >= 1 /\ lo <= hi
    BY <1>4
  <2>4. CASE k = page
    <3>1. \E m \in page : \A n \in page : m <= n
      BY <2>1, <1>4
    <3>2. Oldest(page) \in page /\ \A n \in page : Oldest(page) <= n
      BY <3>1 DEF Oldest
    <3>3. n0 = lo
      BY <2>1, <2>2, <2>4, <3>2, <1>4 DEF NextBefore
    <3>4. lo > j[2]
      BY <2>1, <2>2, <2>4, <1>4
    <3> HIDE DEF k, n0
    <3>5. \A m \in 1..top : Covers(j, m) => m \in k \/ (m > j[2] /\ m < n0)
      BY <1>1, <1>3, <1>4, <2>1, <2>3, <2>4, <3>3 DEF Covers
    <3>6. \A n \in k : \A m \in 1..n : m > j[2] => m \in k \/ m < n0
      BY <1>1, <1>3, <1>4, <2>1, <2>3, <2>4, <3>3
    <3>7. k \subseteq 1..top /\ page \subseteq 1..top
      BY <1>1, <1>4, <2>1, <2>3, <2>4
    <3>8. \A m \in k : Covers(j, m)
      BY <1>1, <1>3, <1>4, <2>1, <2>3, <2>4, <3>4
    <3>9. n0 \in Nat /\ n0 <= top /\ n0 < Height(j)
      BY <1>1, <1>4, <2>3, <3>3, JobFacts
    <3>10. hi \in k /\ \A n \in k : n <= hi
      BY <1>4, <2>1, <2>3, <2>4
    <3> QED
      BY <1>2, <3>5, <3>6, <3>7, <3>8, <3>9, <3>10 DEF k, n0
  <2>5. CASE k # page
    <3>1. n0 = 0
      BY <2>5 DEF NextBefore
    <3>2. PICK x \in lo..hi : ~(x > j[2])
      BY <2>1, <2>2, <2>5
    <3>3. lo <= j[2]
      BY <1>3, <1>4, <2>3, <3>2
    <3>4. k = {m \in lo..hi : m > j[2]}
      BY <2>2
    <3> HIDE DEF k, n0
    <3>5. \A m \in 1..top : Covers(j, m) => m \in k \/ (m > j[2] /\ m < n0)
      BY <1>1, <1>3, <1>4, <2>3, <3>3, <3>4 DEF Covers
    <3>6. \A n \in k : \A m \in 1..n : m > j[2] => m \in k \/ m < n0
      BY <1>1, <1>3, <1>4, <2>3, <3>3, <3>4
    <3>7. k \subseteq 1..top /\ page \subseteq 1..top
      BY <1>1, <1>4, <2>1, <2>3, <3>4
    <3>8. \A m \in k : Covers(j, m)
      BY <1>1, <1>3, <1>4, <2>3, <3>4
    <3>9. n0 \in Nat /\ n0 <= top /\ n0 < Height(j)
      BY <1>1, <1>3, <3>1, JobFacts
    <3>10. k # {} => hi \in k /\ \A n \in k : n <= hi
      BY <1>3, <1>4, <2>3, <3>4
    <3> QED
      BY <1>2, <3>5, <3>6, <3>7, <3>8, <3>9, <3>10 DEF k, n0
  <2> QED
    BY <2>4, <2>5
<1> QED
  BY <1>4, <1>5, <1>6

LEMMA FetchMoves ==
    ASSUME JobsInv, NEW w \in Slots, Fetch(w)
    PROVE  LET j == slot[w].job IN
           /\ \A v \in Slots \ {w} : slot'[v] = slot[v]
           /\ slot'[w].step = "store" /\ slot'[w].job = j
           /\ slot'[w].owned = slot[w].owned
           /\ slot'[w].page \subseteq 1..top
           /\ slot'[w].next \in Nat /\ slot'[w].next <= top
           /\ slot'[w].next < Height(j)
           /\ \A m \in slot'[w].page : Covers(j, m)
           /\ slot'[w].page # {}
              => \E hi \in slot'[w].page : \A n \in slot'[w].page : n <= hi
           /\ \A n \in slot'[w].page : \A m \in 1..n :
                 m > j[2] => m \in slot'[w].page \/ m < slot'[w].next
           /\ \A m \in 1..top :
                 Covers(j, m)
                 => m \in slot'[w].page \/ (m > j[2] /\ m < slot'[w].next)
<1>1. PICK page \in Pages(slot[w].job[1]) :
          slot' = [slot EXCEPT ![w].step = "store",
                               ![w].page = Kept(slot[w].job, page),
                               ![w].next = NextBefore(slot[w].job, page)]
  BY DEF Fetch
<1> DEFINE k == Kept(slot[w].job, page)
           n0 == NextBefore(slot[w].job, page)
<1>2. /\ \A v \in Slots \ {w} : slot'[v] = slot[v]
      /\ slot'[w].step = "store" /\ slot'[w].job = slot[w].job
      /\ slot'[w].owned = slot[w].owned
      /\ slot'[w].page = k /\ slot'[w].next = n0
  BY <1>1 DEF JobsInv, TypeOK
<1> HIDE DEF k, n0
<1>3. LET j == slot[w].job IN
      /\ k \subseteq 1..top
      /\ n0 \in Nat /\ n0 <= top
      /\ n0 < Height(j)
      /\ \A m \in k : Covers(j, m)
      /\ k # {} => \E h \in k : \A n \in k : n <= h
      /\ \A n \in k : \A m \in 1..n : m > j[2] => m \in k \/ m < n0
      /\ \A m \in 1..top :
            Covers(j, m) => m \in k \/ (m > j[2] /\ m < n0)
  BY PageFacts DEF JobsInv, k, n0
<1> QED
  BY <1>2, <1>3

LEMMA TakeLeads ==
    ASSUME JobsInv, NEW w \in Slots, NEW i \in Jobs, Take(w, i),
           NEW m \in 1..top, NEW b \in Nat, Leads(m, b)
    PROVE  Leads(m, b)'
<1>1. OneMoves(w) /\ ~Owed(w, m)
  BY DEF Take, OneMoves, Owed, JobsInv, TypeOK
<1>2. slot'[w].job = i /\ slot'[w].step = "acquire" /\ slot'[w].owned
  BY DEF Take, Free, JobsInv, TypeOK
<1>3. ASSUME ByQueue(m, b)
      PROVE  Leads(m, b)'
  <2>1. PICK j \in Jobs : queue[j] > 0 /\ Height(j) <= b /\ Covers(j, m)
    BY <1>3 DEF ByQueue
  <2>2. CASE j # i
    <3>1. queue'[j] > 0
      BY <2>1, <2>2 DEF Take, JobsInv, TypeOK
    <3> QED
      BY <2>1, <3>1, QueuedLeads
  <2>3. CASE j = i
    <3>1. Owed(w, m)' /\ Height(slot'[w].job) <= b
      BY <1>2, <2>1, <2>3 DEF Owed, Covers, Height
    <3> QED
      BY <3>1 DEF Leads, BySlot, Height
  <2> QED
    BY <2>2, <2>3
<1> QED
  BY <1>1, <1>3, LeadsKept

LEMMA FetchLeads ==
    ASSUME JobsInv, NEW w \in Slots, Fetch(w),
           NEW m \in 1..top, NEW b \in Nat, Leads(m, b)
    PROVE  Leads(m, b)'
<1>1. OneMoves(w) /\ queue' = queue /\ slot'[w].job = slot[w].job
  BY FetchMoves DEF OneMoves, Fetch
<1>2. Owed(w, m) => Owed(w, m)'
  BY FetchMoves DEF Owed, Fetch, Below
<1> QED
  BY <1>1, <1>2, MovedLeads DEF JobsInv

LEMMA StoreLeads ==
    ASSUME JobsInv, NEW w \in Slots, Store(w),
           NEW m \in 1..top, NEW b \in Nat, Leads(m, b)
    PROVE  Leads(m, b)'
<1> DEFINE s == IF slot[w].next = 0 THEN "progress" ELSE "publish"
<1>1. s \in Steps /\ To(w, s)
  BY DEF Steps, Store
<1>2. /\ slot'[w].step = s /\ slot'[w].job = slot[w].job
      /\ slot'[w].owned = slot[w].owned /\ slot'[w].next = slot[w].next
      /\ \A v \in Slots \ {w} : slot'[v] = slot[v]
  BY <1>1, ToMoves DEF JobsInv
<1>3. OneMoves(w) /\ queue' = queue /\ stored' = stored \cup slot[w].page
  BY <1>2 DEF OneMoves, Store
<1>4. ASSUME Owed(w, m)
      PROVE  m \in stored' \/ Owed(w, m)'
  <2>1. m \in slot[w].page \/ Below(w, m)
    BY <1>4 DEF Owed, Store
  <2>2. Below(w, m) => slot[w].next # 0
    BY SlotFacts DEF Below, JobsInv
  <2> QED
    BY <1>2, <1>3, <1>4, <2>1, <2>2 DEF Owed, Below
<1> QED
  BY <1>2, <1>3, <1>4, MovedLeads DEF JobsInv

LEMMA FailsLeads ==
    ASSUME JobsInv, NEW w \in Slots, Fails(w) \/ Rejected(w),
           NEW m \in 1..top, NEW b \in Nat, Leads(m, b)
    PROVE  Leads(m, b)'
<1>1. PICK s \in {"fail", "reject"} : To(w, s)
  BY DEF Fails, Rejected
<1>2. s \in Steps
  BY DEF Steps
<1>3. /\ slot'[w].step = s /\ slot'[w].job = slot[w].job
      /\ slot'[w].owned = slot[w].owned
      /\ \A v \in Slots \ {w} : slot'[v] = slot[v]
  BY <1>1, <1>2, ToMoves DEF JobsInv
<1>4. OneMoves(w) /\ queue' = queue
  BY <1>3 DEF OneMoves, Fails, Rejected
<1>5. Owed(w, m) => Owed(w, m)'
  <2> SUFFICES ASSUME Owed(w, m) PROVE Owed(w, m)'
    OBVIOUS
  <2>1. Covers(slot[w].job, m)
    BY OwedIsCovered DEF JobsInv
  <2> QED
    BY <2>1, <1>3 DEF Owed, Covers
<1> QED
  BY <1>3, <1>4, <1>5, MovedLeads DEF JobsInv

LEMMA RedeliverLeads ==
    ASSUME JobsInv, NEW w \in Slots, Redeliver(w),
           NEW m \in 1..top, NEW b \in Nat, Leads(m, b)
    PROVE  Leads(m, b)'
<1>1. slot[w].job \in Jobs
  BY SlotFacts DEF JobsInv
<1>2. PICK i \in Jobs : i = slot[w].job
  BY <1>1
<1>3. OneMoves(w)
  BY DEF OneMoves, Redeliver, JobsInv, TypeOK
<1>4. queue' = [queue EXCEPT ![i] = @ + 1]
  BY <1>2 DEF Redeliver
<1>5. queue'[i] > 0 /\ \A j \in Jobs : queue[j] > 0 => queue'[j] > 0
  BY <1>4 DEF JobsInv, TypeOK
<1>6. ByQueue(m, b) => Leads(m, b)'
  BY <1>5, QueueKept
<1>7. Height(slot[w].job) <= b /\ Owed(w, m) => Leads(m, b)'
  BY <1>2, <1>5, QueuedLeads, OwedIsCovered DEF JobsInv
<1> QED
  BY <1>3, <1>6, <1>7, LeadsKept

LEMMA PublishLeads ==
    ASSUME JobsInv, NEW w \in Slots, Publish(w)
    PROVE  /\ \A m \in 1..top : Below(w, m) => Leads(m, slot[w].next)'
           /\ \A m \in 1..top : \A b \in Nat : Leads(m, b) => Leads(m, b)'
<1>1. "progress" \in Steps
  BY DEF Steps
<1>2. /\ slot'[w].step = "progress" /\ slot'[w].job = slot[w].job
      /\ slot'[w].owned = slot[w].owned /\ slot'[w].next = slot[w].next
      /\ \A v \in Slots \ {w} : slot'[v] = slot[v]
  BY <1>1, ToMoves DEF JobsInv, Publish
<1>3. OneMoves(w)
  BY <1>2 DEF OneMoves, Publish
<1>4. /\ slot[w].next \in Nat /\ slot[w].next <= MaxMsg /\ slot[w].job \in Jobs
      /\ slot[w].next < Height(slot[w].job) /\ slot[w].job[2] \in Ids
      /\ MaxMsg \in Nat
  BY SlotFacts, CountFacts DEF JobsInv, PageShape, Publish, Jobs
<1>5. PICK x \in Nat, y \in Ids : x = slot[w].next /\ y = slot[w].job[2]
  BY <1>4
<1>6. <<x, y>> \in Jobs
  BY <1>4, <1>5 DEF Jobs, Ids
<1>7. PICK i \in Jobs : i = <<x, y>>
  BY <1>6
<1>8. i[1] = x /\ i[2] = y /\ Published(i)
  BY <1>5, <1>7 DEF Publish
<1>9. \A j \in Jobs : queue[j] > 0 => queue'[j] > 0
  BY <1>8, PublishedKeeps DEF JobsInv
<1>10. ASSUME NEW m \in 1..top, NEW b \in Nat, Leads(m, b),
              ~(Height(slot[w].job) <= b /\ Owed(w, m))
       PROVE  Leads(m, b)'
  BY <1>3, <1>9, <1>10, QueueKept, LeadsKept
<1>11. ASSUME NEW m \in 1..top, Below(w, m)
       PROVE  Leads(m, x)'
  <2>1. x > 0 /\ Covers(i, m) /\ Height(i) = x
    BY <1>5, <1>8, <1>11, <1>4 DEF Below, Covers, Height
  <2>2. CASE i \notin recent
    <3>1. queue'[i] > 0
      BY <1>8, <2>2, PublishedKeeps DEF JobsInv
    <3> QED
      BY <2>1, <3>1, QueuedLeads
  <2>3. CASE i \in recent
    <3>1. Leads(m, x)
      BY <1>8, <2>1, <2>3 DEF JobsInv, RecentLeads
    <3>2. ~(Height(slot[w].job) <= x)
      BY <1>4, <1>5, JobFacts DEF JobsInv
    <3> QED
      BY <3>1, <3>2, <1>10
  <2> QED
    BY <2>2, <2>3
<1>12. ASSUME NEW m \in 1..top, NEW b \in Nat, Leads(m, b)
       PROVE  Leads(m, b)'
  <2>1. CASE Height(slot[w].job) <= b /\ Owed(w, m)
    <3>1. Below(w, m)
      BY <2>1 DEF Owed, Publish
    <3>2. Leads(m, x)'
      BY <3>1, <1>11
    <3>3. x <= b
      BY <1>4, <1>5, <2>1, JobFacts DEF JobsInv
    <3>4. CASE ByQueue(m, x)'
      <4>1. PICK j \in Jobs : queue'[j] > 0 /\ Height(j) <= x /\ Covers(j, m)
        BY <3>4 DEF ByQueue, Height, Covers
      <4>2. Height(j) <= b
        BY <3>3, <4>1, JobFacts DEF JobsInv
      <4> QED
        BY <4>1, <4>2, QueuedLeads
    <3>5. CASE BySlot(m, x)'
      <4>1. PICK v \in Slots : (Height(slot[v].job) <= x /\ Owed(v, m))'
        BY <3>5 DEF BySlot, Height, Owed
      <4>2. slot'[v].job \in Jobs
        BY <1>2, SlotFacts DEF JobsInv
      <4>3. PICK j \in Jobs : j = slot'[v].job
        BY <4>2
      <4>4. Height(j) <= x
        BY <4>1, <4>3 DEF Height
      <4>5. Height(j) <= b
        BY <3>3, <4>4, JobFacts DEF JobsInv
      <4>6. Height(slot'[v].job) <= b /\ Owed(v, m)'
        BY <4>1, <4>3, <4>5 DEF Height
      <4> QED
        BY <4>6 DEF Leads, BySlot, Height
    <3> QED
      BY <3>2, <3>4, <3>5 DEF Leads
  <2> QED
    BY <1>10, <1>12, <2>1
<1>13. \A m \in 1..top : Below(w, m) => Leads(m, slot[w].next)'
  <2> SUFFICES ASSUME NEW m \in 1..top, Below(w, m)
               PROVE  Leads(m, slot[w].next)'
    OBVIOUS
  <2>1. slot'[w].next = x /\ Leads(m, x)'
    BY <1>2, <1>5, <1>11
  <2> QED
    BY <2>1 DEF Leads, ByQueue, BySlot
<1> QED
  BY <1>12, <1>13

LEMMA SlotStepLeads ==
    ASSUME JobsInv, NEW w \in Slots, Run(w),
           NEW m \in 1..top, NEW b \in Nat, Leads(m, b)
    PROVE  Leads(m, b)'
<1> USE DEF JobsInv
<1>0. {"fetch", "complete", "audit", "fail"} \subseteq Steps
  BY DEF Steps
<1>1. CASE Acquire(w)
  <2>1. CASE Returned(w)
    BY <1>1, <2>1, ReturnedLeads DEF Acquire
  <2>2. CASE To(w, "fetch") /\ UNCHANGED queue
    <3>1. /\ OneMoves(w) /\ slot'[w].job = slot[w].job /\ slot'[w].step = "fetch"
          /\ slot'[w].owned = slot[w].owned
      BY <1>0, <1>1, <2>2, ToMoves DEF OneMoves, Acquire
    <3>2. Owed(w, m) => Owed(w, m)'
      BY <1>1, <3>1 DEF Acquire, Owed, Covers
    <3> QED
      BY <2>2, <3>1, <3>2, MovedLeads
  <2> QED
    BY <1>1, <2>1, <2>2 DEF Acquire
<1>2. CASE Fetch(w)
  BY <1>2, FetchLeads
<1>3. CASE Store(w)
  BY <1>3, StoreLeads
<1>4. CASE Publish(w)
  BY <1>4, PublishLeads
<1>5. CASE Progress(w)
  <2>1. PICK s \in {"complete", "fail"} : To(w, s)
    BY <1>5 DEF Progress
  <2>2. OneMoves(w) /\ slot'[w].job = slot[w].job /\ queue' = queue
    BY <1>0, <1>5, <2>1, ToMoves DEF OneMoves, Progress
  <2>3. ~Owed(w, m)
    BY <1>5 DEF Owed, Progress
  <2> QED
    BY <2>2, <2>3, MovedLeads
<1>6. CASE Complete(w)
  <2>1. CASE Returned(w)
    BY <1>6, <2>1, ReturnedLeads DEF Complete
  <2>2. CASE To(w, "audit") /\ UNCHANGED queue
    <3>1. OneMoves(w) /\ slot'[w].job = slot[w].job
      BY <1>0, <1>6, <2>2, ToMoves DEF OneMoves, Complete
    <3>2. ~Owed(w, m)
      BY <1>6 DEF Owed, Complete
    <3> QED
      BY <2>2, <3>1, <3>2, MovedLeads
  <2> QED
    BY <1>6, <2>1, <2>2 DEF Complete
<1>7. CASE Ack(w)
  <2>1. OneMoves(w) /\ ~Owed(w, m) /\ queue' = queue
    BY <1>7 DEF Ack, OneMoves, Owed, TypeOK
  <2> QED
    BY <2>1, LeadsKept, QueueKept
<1>8. CASE Fail(w)
  <2>1. CASE slot[w].step = "fail"
    BY <1>8, <2>1, ReturnedLeads DEF Fail
  <2>2. CASE slot[w].step = "reject"
    <3>1. OneMoves(w) /\ queue' = queue /\ slot[w].job \in termed'
      BY <1>8, <2>2 DEF Fail, OneMoves, TypeOK
    <3>2. Owed(w, m) => Leads(m, b)'
      BY <2>2, <3>1 DEF Owed, Leads, ByTermed, Covers
    <3> QED
      BY <3>1, <3>2, LeadsKept, QueueKept
  <2> QED
    BY <1>8, <2>1, <2>2 DEF Fail
<1> QED
  BY <1>1, <1>2, <1>3, <1>4, <1>5, <1>6, <1>7, <1>8 DEF Run

\* Whatever leads to a message still does, or has stored it, after any step.
LEMMA StepLeads ==
    ASSUME JobsInv, Next
    PROVE  \A m \in 1..top : \A b \in Nat : Leads(m, b) => Leads(m, b)'
<1> SUFFICES ASSUME NEW m \in 1..top, NEW b \in Nat, Leads(m, b)
             PROVE  Leads(m, b)'
  OBVIOUS
<1>1. CASE NewMessage \/ Expire \/ BootRead
  BY <1>1, StillLeads DEF NewMessage, Expire, BootRead
<1>2. CASE BootPublish
  <2>1. PICK j \in Jobs : j = boot
    BY <1>2 DEF BootPublish, JobsInv, TypeOK
  <2>2. Published(j)
    BY <1>2, <2>1 DEF BootPublish
  <2> QED
    BY <1>2, <2>2, PublishedKeeps, StillLeads DEF BootPublish, JobsInv
<1>3. CASE \E j \in Jobs : Forget(j)
  BY <1>3, StillLeads DEF Forget
<1>4. ASSUME NEW w \in Slots, NEW j \in Jobs, Take(w, j)
      PROVE  Leads(m, b)'
  BY <1>4, TakeLeads
<1>5. ASSUME NEW w \in Slots, Run(w)
      PROVE  Leads(m, b)'
  BY <1>5, SlotStepLeads
<1>6. ASSUME NEW w \in Slots, Redeliver(w)
      PROVE  Leads(m, b)'
  BY <1>6, RedeliverLeads
<1>7. ASSUME NEW w \in Slots, Crash(w) \/ Lost(w)
      PROVE  Leads(m, b)'
  BY <1>7, ReturnedLeads DEF Crash, Lost, JobsInv
<1>8. ASSUME NEW w \in Slots, Fails(w) \/ Rejected(w)
      PROVE  Leads(m, b)'
  BY <1>8, FailsLeads
<1> QED
  BY <1>1, <1>2, <1>3, <1>4, <1>5, <1>6, <1>7, <1>8 DEF Next

-----------------------------------------------------------------------------
(* What the steps do to a slot.                                            *)

SlotType == [step : Steps, job : Jobs, owned : BOOLEAN, page : SUBSET (1..top),
             next : Ids]

LEMMA FreeIsSlot ==
    ASSUME TypeOK
    PROVE  /\ Free \in SlotType /\ Free.step = "idle" /\ Free.job = NoJob
           /\ Free.owned = FALSE /\ Free.page = {} /\ Free.next = 0
           /\ NoJob \in Jobs /\ NoJob[1] = 0 /\ NoJob[2] = 0
  BY JobsAssumption DEF Free, SlotType, Steps, NoJob, Jobs, Ids

\* A slot goes on to another step with the job and the page it has.
Goes(w, from, to) ==
    /\ slot[w].step \in from /\ slot'[w].step \in to
    /\ slot'[w].job = slot[w].job /\ slot'[w].page = slot[w].page
    /\ slot'[w].next = slot[w].next

Stays(w) == Goes(w, {slot[w].step}, {slot[w].step})

Begins(w) ==
    /\ slot'[w].step = "acquire" /\ slot'[w].page = {} /\ slot'[w].next = 0
    /\ slot'[w].job \in Jobs /\ queue[slot'[w].job] > 0

Stores(w) ==
    /\ slot[w].page \subseteq stored'
    /\ \/ Goes(w, {"store"}, {"publish"})
       \/ Goes(w, {"store"}, {"progress"}) /\ slot[w].next = 0

\* What any step does to a slot.
SlotMove(w) ==
    \/ Stays(w) \/ slot'[w] = Free \/ Begins(w) \/ Fetch(w) \/ Stores(w)
    \/ Goes(w, {"acquire", "fetch", "store", "publish", "progress"},
               {"fetch", "fail", "reject"})
    \/ Publish(w) \/ Goes(w, {"progress"}, {"complete"})
    \/ Goes(w, {"complete"}, {"audit"})

LEMMA ToType ==
    ASSUME TypeOK, NEW w \in Slots, NEW s \in Steps, To(w, s)
    PROVE  slot' \in [Slots -> SlotType]
  BY DEF TypeOK, To, SlotType

LEMMA FreedType ==
    ASSUME TypeOK, NEW w \in Slots, slot' = [slot EXCEPT ![w] = Free]
    PROVE  slot' \in [Slots -> SlotType]
  BY FreeIsSlot DEF TypeOK, SlotType

LEMMA RunMoves ==
    ASSUME JobsInv, NEW w \in Slots, Run(w)
    PROVE  slot' \in [Slots -> SlotType] /\ \A v \in Slots : SlotMove(v)
<1> USE DEF JobsInv
<1>0. \A v \in Slots : slot'[v] = slot[v] => SlotMove(v)
  BY DEF SlotMove, Stays, Goes
<1>A. {"fetch", "complete", "audit", "fail", "publish", "progress"} \subseteq Steps
  BY DEF Steps
<1>R. ASSUME slot' = [slot EXCEPT ![w] = Free]
      PROVE  slot' \in [Slots -> SlotType] /\ \A v \in Slots : SlotMove(v)
  <2>1. slot'[w] = Free /\ \A v \in Slots \ {w} : slot'[v] = slot[v]
    BY <1>R DEF TypeOK
  <2> QED
    BY <1>R, <1>0, <2>1, FreedType DEF SlotMove
<1>T. ASSUME NEW s \in Steps, To(w, s),
             Goes(w, {slot[w].step}, {s}) => SlotMove(w)
      PROVE  slot' \in [Slots -> SlotType] /\ \A v \in Slots : SlotMove(v)
  <2>1. Goes(w, {slot[w].step}, {s}) /\ \A v \in Slots \ {w} : slot'[v] = slot[v]
    BY <1>T, ToMoves DEF Goes
  <2> QED
    BY <1>0, <1>T, <2>1, ToType
<1>1. CASE Acquire(w)
  <2>1. CASE Returned(w)
    BY <2>1, <1>R DEF Returned
  <2>2. CASE To(w, "fetch")
    BY <1>1, <1>A, <2>2, <1>T DEF Acquire, SlotMove, Goes
  <2> QED
    BY <1>1, <2>1, <2>2 DEF Acquire
<1>2. CASE Fetch(w)
  <2>1. slot' \in [Slots -> SlotType]
    <3>1. PICK page \in Pages(slot[w].job[1]) :
          slot' = [slot EXCEPT ![w].step = "store",
                               ![w].page = Kept(slot[w].job, page),
                               ![w].next = NextBefore(slot[w].job, page)]
      BY <1>2 DEF Fetch
    <3>2. PICK k, n : k = Kept(slot[w].job, page)
                      /\ n = NextBefore(slot[w].job, page)
      OBVIOUS
    <3>3. k \in SUBSET (1..top) /\ n \in Ids /\ "store" \in Steps
      BY <3>2, PageFacts, CountFacts DEF Ids, Steps
    <3>4. slot' = [slot EXCEPT ![w].step = "store", ![w].page = k, ![w].next = n]
      BY <3>1, <3>2
    <3>5. slot[w] \in SlotType
      BY DEF TypeOK, SlotType
    <3>6. [slot[w] EXCEPT !.step = "store", !.page = k, !.next = n] \in SlotType
      BY <3>3, <3>5 DEF SlotType
    <3>7. slot' = [slot EXCEPT ![w] = [slot[w] EXCEPT !.step = "store",
                                          !.page = k, !.next = n]]
      BY <3>4 DEF TypeOK
    <3> QED
      BY <3>6, <3>7 DEF TypeOK, SlotType
  <2> QED
    BY <1>0, <1>2, <2>1, FetchMoves DEF SlotMove
<1>3. CASE Store(w)
  <2>1. CASE slot[w].next = 0
    BY <1>3, <1>A, <2>1, <1>T DEF Store, SlotMove, Stores, Goes
  <2>2. CASE slot[w].next # 0
    BY <1>3, <1>A, <2>2, <1>T DEF Store, SlotMove, Stores, Goes
  <2> QED
    BY <2>1, <2>2
<1>4. CASE Publish(w)
  BY <1>4, <1>A, <1>T DEF Publish, SlotMove
<1>5. CASE Progress(w)
  <2>1. CASE To(w, "complete")
    BY <1>5, <1>A, <2>1, <1>T DEF Progress, SlotMove, Goes
  <2>2. CASE To(w, "fail")
    BY <1>5, <1>A, <2>2, <1>T DEF Progress, SlotMove, Goes
  <2> QED
    BY <1>5, <2>1, <2>2 DEF Progress
<1>6. CASE Complete(w)
  <2>1. CASE Returned(w)
    BY <2>1, <1>R DEF Returned
  <2>2. CASE To(w, "audit")
    BY <1>6, <1>A, <2>2, <1>T DEF Complete, SlotMove, Goes
  <2> QED
    BY <1>6, <2>1, <2>2 DEF Complete
<1>7. CASE Ack(w)
  BY <1>7, <1>R DEF Ack
<1>8. CASE Fail(w)
  BY <1>8, <1>R DEF Fail, Returned
<1> QED
  BY <1>1, <1>2, <1>3, <1>4, <1>5, <1>6, <1>7, <1>8 DEF Run

LEMMA StepMoves ==
    ASSUME JobsInv, Next
    PROVE  slot' \in [Slots -> SlotType] /\ \A v \in Slots : SlotMove(v)
<1> USE DEF JobsInv
<1>0. \A v \in Slots : slot'[v] = slot[v] => SlotMove(v)
  BY DEF SlotMove, Stays, Goes
<1>1. CASE UNCHANGED slot
  <2>1. slot' \in [Slots -> SlotType]
    BY <1>1 DEF TypeOK, SlotType
  <2> QED
    BY <1>0, <1>1, <2>1
<1>2. ASSUME NEW w \in Slots, NEW j \in Jobs, Take(w, j)
      PROVE  slot' \in [Slots -> SlotType] /\ \A v \in Slots : SlotMove(v)
  <2> DEFINE begun == [Free EXCEPT !.step = "acquire", !.job = j, !.owned = TRUE]
  <2>1. /\ begun \in SlotType /\ begun.step = "acquire" /\ begun.job = j
        /\ begun.page = {} /\ begun.next = 0
    <3>1. "acquire" \in Steps
      BY DEF Steps
    <3>2. PICK r \in SlotType : r = Free
      BY FreeIsSlot
    <3>3. begun = [r EXCEPT !.step = "acquire", !.job = j, !.owned = TRUE]
      BY <3>2
    <3>4. r.page = {} /\ r.next = 0
      BY <3>2, FreeIsSlot
    <3> HIDE DEF begun
    <3> QED
      BY <3>1, <3>3, <3>4 DEF SlotType
  <2>2. slot' = [slot EXCEPT ![w] = begun] /\ queue[j] > 0
    BY <1>2 DEF Take
  <2> HIDE DEF begun
  <2>3. slot'[w] = begun /\ \A v \in Slots \ {w} : slot'[v] = slot[v]
    BY <2>2 DEF TypeOK
  <2>4. slot' \in [Slots -> SlotType]
    BY <2>1, <2>2 DEF TypeOK, SlotType
  <2>5. SlotMove(w)
    BY <2>1, <2>2, <2>3 DEF SlotMove, Begins
  <2> QED
    BY <1>0, <2>3, <2>4, <2>5
<1>3. ASSUME NEW w \in Slots, Redeliver(w)
      PROVE  slot' \in [Slots -> SlotType] /\ \A v \in Slots : SlotMove(v)
  <2>1. slot' = [slot EXCEPT ![w].owned = FALSE]
    BY <1>3 DEF Redeliver
  <2>2. slot' \in [Slots -> SlotType]
    BY <2>1 DEF TypeOK, SlotType
  <2>3. Stays(w) /\ \A v \in Slots \ {w} : slot'[v] = slot[v]
    BY <2>1 DEF TypeOK, Stays, Goes
  <2> QED
    BY <1>0, <2>2, <2>3 DEF SlotMove
<1>4. ASSUME NEW w \in Slots, Crash(w) \/ Lost(w)
      PROVE  slot' \in [Slots -> SlotType] /\ \A v \in Slots : SlotMove(v)
  <2>1. slot'[w] = Free /\ \A v \in Slots \ {w} : slot'[v] = slot[v]
    BY <1>4, ReturnedKeeps DEF Crash, Lost
  <2> QED
    BY <1>0, <1>4, <2>1, FreedType DEF SlotMove, Crash, Lost, Returned
<1>5. ASSUME NEW w \in Slots, Fails(w) \/ Rejected(w)
      PROVE  slot' \in [Slots -> SlotType] /\ \A v \in Slots : SlotMove(v)
  <2>1. PICK s \in {"fail", "reject"} : To(w, s)
    BY <1>5 DEF Fails, Rejected
  <2>2. s \in Steps
    BY DEF Steps
  <2>3. /\ Goes(w, {"acquire", "fetch", "store", "publish", "progress"},
                   {"fetch", "fail", "reject"})
        /\ \A v \in Slots \ {w} : slot'[v] = slot[v]
    BY <1>5, <2>1, <2>2, ToMoves DEF Goes, Fails, Rejected
  <2> QED
    BY <1>0, <2>1, <2>2, <2>3, ToType DEF SlotMove
<1>6. CASE \/ NewMessage \/ Expire \/ BootRead \/ BootPublish
           \/ \E j \in Jobs : Forget(j)
  BY <1>1, <1>6 DEF NewMessage, Expire, BootRead, BootPublish, Forget
<1> QED
  BY <1>2, <1>3, <1>4, <1>5, <1>6, RunMoves DEF Next

-----------------------------------------------------------------------------
(* The row of sync_states, and the type invariant.                         *)

StateType == [cursor : Ids, newest : 0..top, lease : Slots \cup {None},
              expired : BOOLEAN]

\* Progress: the cursor and the newest message known.
LEMMA ProgressMoves ==
    ASSUME JobsInv, NEW w \in Slots, Progress(w)
    PROVE  \/ To(w, "fail") /\ UNCHANGED state
           \/ /\ To(w, "complete") /\ Holds(w) /\ ~state.expired
              /\ state'.cursor = slot[w].next
              /\ state'.lease = state.lease /\ state'.expired = state.expired
              /\ state'.newest \in Nat /\ state'.newest >= state.newest
              /\ state'.newest <= top
              /\ state'.newest = state.newest \/ state'.newest \in slot[w].page
              /\ state' \in StateType
<1> USE DEF JobsInv
<1>1. CASE ~(Holds(w) /\ ~state.expired)
  BY <1>1 DEF Progress
<1> DEFINE hi == CHOOSE m \in slot[w].page : \A n \in slot[w].page : n <= m
           new == IF slot[w].page = {} THEN state.newest
                  ELSE GREATEST(state.newest, hi)
<1>2. CASE Holds(w) /\ ~state.expired
  <2>1. slot[w].page # {} => hi \in slot[w].page
    BY DEF PageShape, Progress
  <2>2. /\ new \in Nat /\ new >= state.newest /\ new <= top
        /\ new = state.newest \/ new \in slot[w].page
    <3> HIDE DEF hi
    <3> QED
      BY <2>1, CountFacts, SlotFacts DEF GREATEST
  <2> HIDE DEF new
  <2>3. PICK n : n = new
    OBVIOUS
  <2>4. state' = [state EXCEPT !.cursor = slot[w].next, !.newest = n]
        /\ To(w, "complete")
    BY <1>2, <2>3 DEF Progress, new
  <2>5. state \in StateType /\ slot[w].next \in Ids
    BY DEF TypeOK, StateType
  <2>6. n \in 0..top
    BY <2>2, <2>3, CountFacts
  <2> QED
    BY <1>2, <2>2, <2>3, <2>4, <2>5, <2>6 DEF StateType
<1> QED
  BY <1>1, <1>2

\* What any step does to the row.
LEMMA StepState ==
    ASSUME JobsInv, Next
    PROVE  /\ state' \in StateType /\ state'.newest >= state.newest
           /\ state'.lease = None => ~state'.expired
           /\ \/ state'.cursor = state.cursor /\ state'.newest = state.newest
              \/ \E w \in Slots : Progress(w) /\ state'.cursor = slot[w].next
<1> USE DEF JobsInv
<1>0. /\ state \in StateType /\ (state.lease = None => ~state.expired)
      /\ state.newest \in Nat
  BY CountFacts DEF TypeOK, StateType
<1>1. CASE UNCHANGED state
  BY <1>0, <1>1
<1>2. CASE Expire
  <2>1. state' = [state EXCEPT !.expired = TRUE] /\ state.lease # None
    BY <1>2 DEF Expire
  <2>2. state' \in StateType
    BY <1>0, <2>1 DEF StateType
  <2>3. /\ state'.cursor = state.cursor /\ state'.newest = state.newest
        /\ state'.lease = state.lease
    BY <1>0, <2>1 DEF StateType
  <2> QED
    BY <1>0, <2>1, <2>2, <2>3
<1>3. ASSUME NEW w \in Slots, state' = [state EXCEPT !.lease = w, !.expired = FALSE]
      PROVE  /\ state' \in StateType /\ state'.newest >= state.newest
             /\ state'.lease = None => ~state'.expired
             /\ state'.cursor = state.cursor /\ state'.newest = state.newest
  <2>2. state' \in StateType
    BY <1>0, <1>3 DEF StateType
  <2>3. /\ state'.cursor = state.cursor /\ state'.newest = state.newest
        /\ state'.expired = FALSE
    BY <1>0, <1>3 DEF StateType
  <2> QED
    BY <1>0, <2>2, <2>3
<1>4. CASE state' = Released
  <2>1. state' = [state EXCEPT !.lease = None, !.expired = FALSE]
    BY <1>4 DEF Released
  <2>2. state' \in StateType
    BY <1>0, <2>1 DEF StateType
  <2>3. /\ state'.cursor = state.cursor /\ state'.newest = state.newest
        /\ state'.expired = FALSE
    BY <1>0, <2>1 DEF StateType
  <2> QED
    BY <1>0, <2>2, <2>3
<1>5. ASSUME NEW w \in Slots, Progress(w)
      PROVE  /\ state' \in StateType /\ state'.newest >= state.newest
             /\ state'.lease = None => ~state'.expired
             /\ \/ state'.cursor = state.cursor /\ state'.newest = state.newest
                \/ Progress(w) /\ state'.cursor = slot[w].next
  BY <1>0, <1>1, <1>5, ProgressMoves
<1>6. ASSUME NEW w \in Slots, Run(w)
      PROVE  \/ UNCHANGED state \/ state' = Released \/ Progress(w)
             \/ state' = [state EXCEPT !.lease = w, !.expired = FALSE]
  BY <1>6 DEF Run, Acquire, Fetch, Store, Publish, Complete, Ack, Fail
<1>7. CASE \E w \in Slots : Run(w)
  BY <1>1, <1>3, <1>4, <1>5, <1>6, <1>7
<1>8. CASE \/ NewMessage \/ BootRead \/ BootPublish \/ \E j \in Jobs : Forget(j)
           \/ \E w \in Slots :
                 \/ \E j \in Jobs : Take(w, j)
                 \/ Redeliver(w) \/ Crash(w) \/ Fails(w) \/ Rejected(w) \/ Lost(w)
  BY <1>1, <1>8 DEF NewMessage, BootRead, BootPublish, Forget, Take, Redeliver,
     Crash, Fails, Rejected, Lost
<1> QED
  BY <1>2, <1>7, <1>8 DEF Next

\* What any step does to the queue: what is queued was, or was being worked on, or
\* is published.
NewJob(j) ==
    \/ \E w \in Slots : Publish(w) /\ j = <<slot[w].next, slot[w].job[2]>>
    \/ BootPublish /\ j = boot

LEMMA StepQueue ==
    ASSUME JobsInv, Next
    PROVE  /\ queue' \in [Jobs -> Nat] /\ recent' \subseteq Jobs
           /\ \A j \in recent' : j \in recent \/ NewJob(j)
           /\ \A j \in Jobs :
                 queue'[j] > 0 => \/ queue[j] > 0 \/ NewJob(j)
                                  \/ \E w \in Slots : j = slot[w].job
<1> USE DEF JobsInv
<1> DEFINE Goal == /\ queue' \in [Jobs -> Nat]
                   /\ \A j \in Jobs :
                         queue'[j] > 0 => \/ queue[j] > 0 \/ NewJob(j)
                                          \/ \E w \in Slots : j = slot[w].job
<1>0. queue \in [Jobs -> Nat] /\ recent \subseteq Jobs
  BY DEF TypeOK
<1>1. ASSUME UNCHANGED queue PROVE Goal
  BY <1>0, <1>1
<1>2. ASSUME NEW w \in Slots, Returned(w) PROVE Goal
  BY <1>2, ReturnedKeeps
<1>3. ASSUME NEW j \in Jobs, Published(j), NewJob(j)
      PROVE  /\ Goal /\ recent' \subseteq Jobs
             /\ \A i \in recent' : i \in recent \/ NewJob(i)
  <2>1. Goal
    BY <1>3, PublishedKeeps
  <2> HIDE DEF Goal
  <2> QED
    BY <1>0, <1>3, <2>1 DEF Published
<1>4. ASSUME NEW w \in Slots, Publish(w)
      PROVE  /\ Goal /\ recent' \subseteq Jobs
             /\ \A i \in recent' : i \in recent \/ NewJob(i)
  <2>1. <<slot[w].next, slot[w].job[2]>> \in Jobs
    BY DEF TypeOK, Jobs
  <2>2. PICK j \in Jobs : j = <<slot[w].next, slot[w].job[2]>>
    BY <2>1
  <2>3. Published(j) /\ NewJob(j)
    BY <1>4, <2>2 DEF Publish, NewJob
  <2> HIDE DEF Goal
  <2> QED
    BY <1>3, <2>3
<1>5. ASSUME BootPublish
      PROVE  /\ Goal /\ recent' \subseteq Jobs
             /\ \A i \in recent' : i \in recent \/ NewJob(i)
  <2>1. PICK j \in Jobs : j = boot
    BY <1>5 DEF BootPublish, TypeOK
  <2>2. Published(j) /\ NewJob(j)
    BY <1>5, <2>1 DEF BootPublish, NewJob
  <2> HIDE DEF Goal
  <2> QED
    BY <1>3, <2>2
<1>6. ASSUME NEW w \in Slots, NEW i \in Jobs, Take(w, i)
      PROVE  Goal /\ recent' = recent
  BY <1>0, <1>6 DEF Take
<1>7. ASSUME NEW w \in Slots, Redeliver(w) PROVE Goal /\ recent' = recent
  <2>1. PICK i \in Jobs : i = slot[w].job
    BY SlotFacts
  <2>2. queue' = [queue EXCEPT ![i] = @ + 1] /\ recent' = recent
    BY <1>7, <2>1 DEF Redeliver
  <2> QED
    BY <1>0, <2>1, <2>2
<1> HIDE DEF Goal
<1>8. ASSUME NEW w \in Slots, Run(w), ~Publish(w) PROVE Goal /\ recent' = recent
  <2>1. (UNCHANGED queue \/ Returned(w)) /\ recent' = recent
    BY <1>8 DEF Run, Acquire, Fetch, Store, Progress, Complete, Ack, Fail
  <2> QED
    BY <1>1, <1>2, <2>1
<1>9. ASSUME NEW w \in Slots, Crash(w) \/ Fails(w) \/ Rejected(w) \/ Lost(w)
      PROVE  Goal /\ recent' = recent
  <2>1. (UNCHANGED queue \/ Returned(w)) /\ recent' = recent
    BY <1>9 DEF Crash, Fails, Rejected, Lost
  <2> QED
    BY <1>1, <1>2, <2>1
<1>10. ASSUME NewMessage \/ Expire \/ BootRead \/ \E j \in Jobs : Forget(j)
       PROVE  Goal /\ recent' \subseteq recent
  <2>1. UNCHANGED queue /\ recent' \subseteq recent
    BY <1>10 DEF NewMessage, Expire, BootRead, Forget
  <2> QED
    BY <1>1, <2>1
<1>11. /\ Goal /\ recent' \subseteq Jobs
       /\ \A i \in recent' : i \in recent \/ NewJob(i)
  BY <1>0, <1>4, <1>5, <1>6, <1>7, <1>8, <1>9, <1>10 DEF Next
<1> QED
  BY <1>11 DEF Goal

\* The rest of the state.
LEMMA StepRest ==
    ASSUME JobsInv, Next
    PROVE  /\ top' \in Ids /\ top <= top'
           /\ stored \subseteq stored' /\ stored' \subseteq 1..top
           /\ boot' = boot \/ boot' = None \/ BootRead
           /\ boots' \in 0..MaxBoots /\ faults' \in 0..MaxFaults
           /\ termed' \subseteq Jobs
<1> USE DEF JobsInv
<1>0. /\ top \in Nat /\ top <= MaxMsg /\ MaxMsg \in Nat /\ stored \subseteq 1..top
      /\ boots \in 0..MaxBoots /\ faults \in 0..MaxFaults /\ termed \subseteq Jobs
      /\ \A w \in Slots : slot[w].page \subseteq 1..top /\ slot[w].job \in Jobs
      /\ MaxBoots \in Nat /\ MaxFaults \in Nat
  BY CountFacts, SlotFacts, JobsAssumption DEF TypeOK
<1>1. Fault => faults' \in 0..MaxFaults
  BY <1>0 DEF Fault
<1>2. CASE NewMessage
  BY <1>0, <1>2 DEF NewMessage, Ids
<1>3. CASE Expire
  BY <1>0, <1>1, <1>3 DEF Expire, Ids
<1>4. CASE BootRead
  <2>1. boots' \in 0..MaxBoots
    BY <1>0, <1>4 DEF BootRead
  <2>2. UNCHANGED <<top, stored, faults, termed>>
    BY <1>4 DEF BootRead
  <2> QED
    BY <1>0, <1>4, <2>1, <2>2 DEF Ids
<1>11. CASE BootPublish
  BY <1>0, <1>11 DEF BootPublish, Ids
<1>5. CASE \E j \in Jobs : Forget(j)
  BY <1>0, <1>5 DEF Forget, Ids
<1>6. ASSUME NEW w \in Slots, (\E j \in Jobs : Take(w, j)) \/ Redeliver(w)
             \/ Crash(w) \/ Rejected(w) \/ Lost(w)
      PROVE  UNCHANGED <<top, stored, boot, boots, termed>>
             /\ (UNCHANGED faults \/ Fault)
  BY <1>6 DEF Take, Redeliver, Crash, Rejected, Lost
<1>7. ASSUME NEW w \in Slots, Fails(w)
      PROVE  /\ UNCHANGED <<top, boot, boots, termed>> /\ Fault
             /\ stored \subseteq stored' /\ stored' \subseteq 1..top
  BY <1>0, <1>7 DEF Fails
<1>8. ASSUME NEW w \in Slots, Run(w)
      PROVE  /\ UNCHANGED <<top, boot, boots, faults>>
             /\ stored \subseteq stored' /\ stored' \subseteq 1..top
             /\ termed' \subseteq Jobs
  <2>1. CASE Store(w)
    BY <1>0, <2>1 DEF Store
  <2>2. CASE Fail(w)
    BY <1>0, <2>2 DEF Fail
  <2>3. CASE Acquire(w) \/ Fetch(w) \/ Publish(w) \/ Progress(w) \/ Complete(w)
             \/ Ack(w)
    BY <1>0, <2>3 DEF Acquire, Fetch, Publish, Progress, Complete, Ack
  <2> QED
    BY <1>8, <2>1, <2>2, <2>3 DEF Run
<1>9. top \in Ids
  BY <1>0 DEF Ids
<1>10. CASE \E w \in Slots :
          \/ \E j \in Jobs : Take(w, j)
          \/ Run(w)
          \/ Redeliver(w) \/ Crash(w) \/ Fails(w) \/ Rejected(w) \/ Lost(w)
  BY <1>0, <1>1, <1>6, <1>7, <1>8, <1>9, <1>10
<1> QED
  BY <1>2, <1>3, <1>4, <1>5, <1>10, <1>11 DEF Next

LEMMA ResumeIsJob ==
    ASSUME JobsInv
    PROVE  Resume \in Jobs /\ Sane(Resume)
  BY CountFacts DEF JobsInv, Resume, Jobs, Ids, JobsSane, Sane

LEMMA JobsTypeStep ==
    ASSUME JobsInv, Next
    PROVE  TypeOK'
<1>1. top' \in Ids /\ stored' \in SUBSET (1..top')
  BY StepRest, CountFacts DEF JobsInv, Ids
<1>2. state' \in StateType /\ (state'.lease = None => ~state'.expired)
  BY StepState
<1>3. 0..top \subseteq 0..top' /\ 1..top \subseteq 1..top'
  BY StepRest, CountFacts DEF JobsInv, Ids
<1>4. state' \in [cursor : Ids, newest : 0..top', lease : Slots \cup {None},
                  expired : BOOLEAN]
  <2>1. PICK s \in StateType : s = state'
    BY <1>2
  <2>2. s \in [cursor : Ids, newest : 0..top', lease : Slots \cup {None},
                  expired : BOOLEAN]
    BY <1>3 DEF StateType
  <2> QED
    BY <2>1, <2>2
<1>5. slot' \in [Slots -> [step : Steps, job : Jobs, owned : BOOLEAN,
                           page : SUBSET (1..top'), next : Ids]]
  <2>1. slot' \in [Slots -> SlotType]
    BY StepMoves
  <2>2. SlotType \subseteq [step : Steps, job : Jobs, owned : BOOLEAN,
                            page : SUBSET (1..top'), next : Ids]
    BY <1>3 DEF SlotType
  <2> QED
    BY <2>1, <2>2
<1>6. boot' \in {None} \cup Jobs
  BY StepRest, ResumeIsJob DEF JobsInv, TypeOK, BootRead
<1>7. queue' \in [Jobs -> Nat] /\ recent' \in SUBSET Jobs
  BY StepQueue
<1>8. boots' \in 0..MaxBoots /\ faults' \in 0..MaxFaults /\ termed' \in SUBSET Jobs
  BY StepRest
<1> QED
  BY <1>1, <1>2, <1>4, <1>5, <1>6, <1>7, <1>8 DEF TypeOK

LEMMA CursorStep ==
    ASSUME JobsInv, Next
    PROVE  CursorIsHolders'
<1> USE DEF JobsInv
<1> SUFFICES ASSUME NEW w \in Slots, slot'[w].step = "complete", state'.lease = w
             PROVE  state'.cursor = slot'[w].next
  BY DEF CursorIsHolders
<1>0. None \notin Slots
  BY JobsAssumption
<1>1. Goes(w, {"progress"}, {"complete"}) \/ Stays(w)
  BY StepMoves, FreeIsSlot, FetchMoves, ToMoves
     DEF SlotMove, Begins, Stores, Goes, Stays, Publish, Steps
<1>2. CASE \E v \in Slots : Progress(v) /\ state'.cursor = slot[v].next
  <2>1. PICK v \in Slots : Progress(v) /\ state'.cursor = slot[v].next
    BY <1>2
  <2>2. CASE To(v, "fail") /\ UNCHANGED state
    <3>1. /\ slot'[v].step = "fail" /\ \A u \in Slots \ {v} : slot'[u] = slot[u]
      BY <2>2, ToMoves DEF Steps
    <3> QED
      BY <2>2, <3>1 DEF CursorIsHolders
  <2>3. CASE To(v, "complete") /\ Holds(v) /\ state'.lease = state.lease
    <3>1. v = w
      BY <2>3 DEF Holds
    <3>2. slot'[v].next = slot[v].next
      BY <2>3, ToMoves DEF Steps
    <3> QED
      BY <2>1, <3>1, <3>2
  <2> QED
    BY <2>1, <2>2, <2>3, ProgressMoves
<1>3. CASE state'.cursor = state.cursor /\ ~\E v \in Slots : Progress(v)
  <2>1. Stays(w)
    <3>1. SUFFICES ASSUME Goes(w, {"progress"}, {"complete"})
                   PROVE  FALSE
      BY <1>1
    <3>2. slot'[w] # slot[w] /\ slot'[w] # Free
      BY <3>1, FreeIsSlot DEF Goes
    <3>3. ASSUME NEW v \in Slots, Run(v) PROVE v = w
      <4>1. \/ Returned(v) \/ slot' = [slot EXCEPT ![v] = Free] \/ Fetch(v)
            \/ \E s \in Steps : To(v, s)
        BY <3>3 DEF Run, Acquire, Store, Publish, Progress, Complete, Ack, Fail,
           Steps, Returned
      <4> QED
        BY <3>2, <4>1, ReturnedKeeps, FetchMoves, ToMoves DEF TypeOK
    <3>4. ~Run(w)
      BY <1>3, <3>1, <3>2, ToMoves, FetchMoves
         DEF Run, Acquire, Store, Publish, Complete, Ack, Fail, Goes, Fetch
    <3>5. ~\E v \in Slots : Run(v)
      BY <3>3, <3>4
    <3>6. ASSUME NEW v \in Slots, \/ \E j \in Jobs : Take(v, j)
                                  \/ Redeliver(v) \/ Crash(v) \/ Lost(v)
          PROVE  FALSE
      <4>1. v = w
        BY <3>2, <3>6, ReturnedKeeps DEF Take, Redeliver, Crash, Lost, TypeOK
      <4>2. ~(Crash(v) \/ Lost(v))
        BY <3>2, <4>1, ReturnedKeeps DEF Crash, Lost
      <4>3. CASE Redeliver(v)
        BY <3>1, <4>1, <4>3 DEF Redeliver, Goes, TypeOK
      <4>4. CASE \E j \in Jobs : Take(v, j)
        BY <3>1, <4>1, <4>4 DEF Take, Goes
      <4> QED
        BY <3>6, <4>2, <4>3, <4>4
    <3>7. ASSUME NEW v \in Slots, Fails(v) \/ Rejected(v)
          PROVE  FALSE
      <4>1. PICK s \in {"fail", "reject"} : To(v, s)
        BY <3>7 DEF Fails, Rejected
      <4>2. s \in Steps /\ s # "complete"
        BY DEF Steps
      <4>3. slot'[v].step = s /\ \A u \in Slots \ {v} : slot'[u] = slot[u]
        BY <4>1, <4>2, ToMoves
      <4> QED
        BY <3>1, <3>2, <4>2, <4>3 DEF Goes
    <3>8. slot' # slot
      BY <3>2
    <3> QED
      BY <3>5, <3>6, <3>7, <3>8
         DEF Next, NewMessage, Expire, BootRead, BootPublish, Forget
  <2>2. slot[w].step = "complete" /\ slot'[w].next = slot[w].next
    BY <2>1 DEF Stays, Goes
  <2>3. state.lease = w
    <3>1. CASE state'.lease = state.lease
      BY <3>1
    <3>2. ASSUME NEW v \in Slots, Acquire(v), To(v, "fetch") PROVE v # w
      BY <3>2, ToMoves DEF Steps
    <3>3. CASE state' = Released
      BY <1>0, <3>3 DEF Released, TypeOK
    <3>4. ASSUME NEW v \in Slots, Run(v), ~(Acquire(v) /\ To(v, "fetch"))
          PROVE  UNCHANGED state \/ state' = Released
      BY <1>3, <3>4 DEF Run, Acquire, Fetch, Store, Publish, Complete, Ack, Fail
    <3>5. ASSUME NEW v \in Slots, Acquire(v), To(v, "fetch")
          PROVE  state'.lease = v \/ UNCHANGED state
      BY <3>5 DEF Acquire, TypeOK
    <3>6. CASE \E v \in Slots : Run(v)
      BY <3>1, <3>2, <3>3, <3>4, <3>5, <3>6
    <3>7. CASE ~\E v \in Slots : Run(v)
      BY <3>1, <3>7 DEF Next, NewMessage, Expire, BootRead, BootPublish, Forget,
         Take, Redeliver, Crash, Fails, Rejected, Lost, TypeOK
    <3> QED
      BY <3>6, <3>7
  <2> QED
    BY <1>3, <2>2, <2>3 DEF CursorIsHolders
<1>4. CASE state'.cursor = state.cursor /\ \E v \in Slots : Progress(v)
  <2>1. PICK v \in Slots : Progress(v)
    BY <1>4
  <2>2. CASE To(v, "fail") /\ UNCHANGED state
    <3>1. /\ slot'[v].step = "fail" /\ \A u \in Slots \ {v} : slot'[u] = slot[u]
      BY <2>2, ToMoves DEF Steps
    <3> QED
      BY <2>2, <3>1 DEF CursorIsHolders
  <2>3. CASE state'.cursor = slot[v].next
    BY <1>2, <2>1, <2>3
  <2> QED
    BY <2>1, <2>2, <2>3, ProgressMoves
<1> QED
  BY <1>2, <1>3, <1>4, StepState

LEMMA SaneStep ==
    ASSUME JobsInv, Next
    PROVE  JobsSane'
<1> USE DEF JobsInv
<1>0. /\ top \in Nat /\ top' \in Nat /\ top <= top'
      /\ state.newest \in Nat /\ state'.newest \in Nat
      /\ state.newest <= state'.newest
  BY CountFacts, StepRest, StepState DEF Ids, StateType
<1>1. ASSUME NEW j \in Jobs, Sane(j) PROVE Sane(j)'
  BY <1>0, <1>1, JobFacts DEF Sane
<1>2. ASSUME NEW j \in Jobs, NewJob(j) PROVE Sane(j)
  <2>1. CASE BootPublish /\ j = boot
    BY <2>1 DEF JobsSane, BootPublish
  <2>2. ASSUME NEW w \in Slots, j = <<slot[w].next, slot[w].job[2]>>
        PROVE  Sane(j)
    BY <2>2 DEF JobsSane, Sane
  <2> QED
    BY <1>2, <2>1, <2>2 DEF NewJob
<1>3. \A j \in Jobs : queue'[j] > 0 => Sane(j)'
  BY <1>1, <1>2, StepQueue, SlotFacts DEF JobsSane
<1>4. \A j \in recent' : Sane(j)'
  BY <1>1, <1>2, StepQueue DEF JobsSane
<1>5. ASSUME NEW w \in Slots
      PROVE  Sane(slot[w].job)' /\ slot'[w].next <= top'
  <2>1. slot[w].job \in Jobs /\ slot[w].next \in Nat /\ slot[w].next <= top
        /\ Sane(slot[w].job)
    BY SlotFacts DEF JobsSane
  <2>2. PICK j \in Jobs : j = slot[w].job
    BY <2>1
  <2>3. CASE slot'[w].job = slot[w].job /\ slot'[w].next = slot[w].next
    <3>1. slot'[w].job = j /\ Sane(j)'
      BY <1>1, <2>1, <2>2, <2>3
    <3> QED
      BY <1>0, <2>1, <2>3, <3>1 DEF Sane
  <2>4. CASE slot'[w] = Free
    BY <1>0, <2>4, FreeIsSlot DEF Sane
  <2>5. CASE Begins(w)
    <3>1. PICK i \in Jobs : i = slot'[w].job
      BY <2>5 DEF Begins
    <3>2. Sane(i)'
      BY <1>1, <2>5, <3>1 DEF Begins, JobsSane
    <3> QED
      BY <1>0, <2>5, <3>1, <3>2 DEF Begins, Sane
  <2>6. CASE Fetch(w)
    <3>1. slot'[w].job = j /\ Sane(j)' /\ slot'[w].next <= top
          /\ slot'[w].next \in Nat
      BY <1>1, <2>1, <2>2, <2>6, FetchMoves
    <3> QED
      BY <1>0, <3>1 DEF Sane
  <2>7. Publish(w) => slot'[w].job = slot[w].job /\ slot'[w].next = slot[w].next
    BY ToMoves DEF Publish, Steps
  <2> QED
    BY <2>3, <2>4, <2>5, <2>6, <2>7, StepMoves
       DEF SlotMove, Stays, Goes, Stores
<1>6. ASSUME boot' # None PROVE Sane(boot)'
  <2>1. CASE BootRead
    <3>1. PICK j \in Jobs : j = Resume
      BY ResumeIsJob
    <3>2. boot' = j /\ Sane(j)'
      BY <1>1, <2>1, <3>1, ResumeIsJob DEF BootRead
    <3> QED
      BY <3>2 DEF Sane
  <2>2. CASE boot' = boot
    <3>1. PICK j \in Jobs : j = boot
      BY <1>6, <2>2 DEF TypeOK
    <3>2. Sane(j)'
      BY <1>1, <1>6, <2>2, <3>1 DEF JobsSane
    <3> QED
      BY <2>2, <3>1, <3>2 DEF Sane
  <2> QED
    BY <1>6, <2>1, <2>2, StepRest
<1>7. state'.cursor <= top'
  <2>1. state.cursor \in Nat /\ \A w \in Slots : slot[w].next \in Nat
    BY CountFacts, SlotFacts
  <2> QED
    BY <1>0, <2>1, StepState DEF JobsSane
<1>8. (\A j \in Jobs : queue[j] > 0 => Sane(j))'
  BY <1>3 DEF Sane
<1>9. (\A j \in recent : Sane(j))'
  BY <1>4 DEF Sane
<1>10. (\A w \in Slots : Sane(slot[w].job) /\ slot[w].next <= top)'
  BY <1>5 DEF Sane
<1> QED
  BY <1>6, <1>7, <1>8, <1>9, <1>10 DEF JobsSane

LEMMA ShapeStep ==
    ASSUME JobsInv, Next
    PROVE  PageShape'
<1> USE DEF JobsInv
<1> SUFFICES ASSUME NEW w \in Slots,
                    slot'[w].step \in {"store", "publish", "progress",
                                       "complete", "audit"}
             PROVE  /\ \A m \in slot'[w].page : Covers(slot'[w].job, m)
                    /\ slot'[w].page # {}
                       => \E hi \in slot'[w].page :
                             \A n \in slot'[w].page : n <= hi
                    /\ \A n \in slot'[w].page : \A m \in 1..n :
                          m > slot'[w].job[2]
                          => m \in slot'[w].page \/ m < slot'[w].next
                    /\ slot'[w].next < Height(slot'[w].job)
                    /\ slot'[w].step = "publish" => slot'[w].page \subseteq stored'
  BY DEF PageShape, Covers, Height
<1>1. CASE Fetch(w)
  BY <1>1, FetchMoves
<1>2. CASE /\ slot[w].step \in {"store", "publish", "progress", "complete", "audit"}
           /\ slot'[w].job = slot[w].job /\ slot'[w].page = slot[w].page
           /\ slot'[w].next = slot[w].next
           /\ slot'[w].step = "publish"
              => slot[w].step = "publish" \/ slot[w].page \subseteq stored'
  <2>1. slot'[w].step = "publish" => slot'[w].page \subseteq stored'
    BY <1>2, StepRest DEF PageShape
  <2> QED
    BY <1>2, <2>1 DEF PageShape
<1>3. CASE Publish(w)
  <2>1. /\ slot'[w].step = "progress" /\ slot'[w].job = slot[w].job
        /\ slot'[w].page = slot[w].page /\ slot'[w].next = slot[w].next
    BY <1>3, ToMoves DEF Publish, Steps
  <2> QED
    BY <1>2, <1>3, <2>1 DEF Publish
<1>4. slot'[w] # Free /\ ~Begins(w)
  BY FreeIsSlot DEF Begins
<1>5. CASE Stays(w) \/ Goes(w, {"progress"}, {"complete"})
           \/ Goes(w, {"complete"}, {"audit"})
  BY <1>2, <1>5 DEF Stays, Goes
<1>6. CASE Stores(w)
  BY <1>2, <1>6 DEF Stores, Goes
<1>7. ~Goes(w, {"acquire", "fetch", "store", "publish", "progress"},
               {"fetch", "fail", "reject"})
  BY DEF Goes
<1> QED
  BY <1>1, <1>3, <1>4, <1>5, <1>6, <1>7, StepMoves DEF SlotMove

LEMMA DoneStep ==
    ASSUME JobsInv, Next
    PROVE  DoneLeads'
<1> USE DEF JobsInv
<1> SUFFICES ASSUME NEW w \in Slots,
                    slot'[w].step \in {"progress", "complete", "audit"}
             PROVE  /\ slot'[w].page \subseteq stored'
                    /\ \A m \in 1..top' : Below(w, m)' => Leads(m, slot[w].next)'
  BY DEF DoneLeads, Leads, Below, ByQueue, BySlot
<1>0. /\ top \in Nat /\ top' \in Nat /\ top <= top' /\ stored \subseteq stored'
      /\ slot[w].next \in Nat /\ slot[w].next <= top
  BY CountFacts, SlotFacts, StepRest DEF Ids, JobsSane
<1>1. ASSUME slot'[w].job = slot[w].job, slot'[w].next = slot[w].next,
             NEW m \in 1..top', Below(w, m)'
      PROVE  m \in 1..top /\ Below(w, m)
  BY <1>0, <1>1 DEF Below
<1>2. CASE /\ slot[w].step \in {"progress", "complete", "audit"}
           /\ slot'[w].job = slot[w].job /\ slot'[w].page = slot[w].page
           /\ slot'[w].next = slot[w].next
  <2>1. slot'[w].page \subseteq stored'
    BY <1>0, <1>2 DEF DoneLeads
  <2>2. ASSUME NEW m \in 1..top', Below(w, m)'
        PROVE  Leads(m, slot[w].next)'
    <3>1. m \in 1..top /\ Below(w, m)
      BY <1>1, <1>2, <2>2
    <3>2. PICK b \in Nat : b = slot[w].next
      BY <1>0
    <3>3. Leads(m, b)'
      BY <1>2, <3>1, <3>2, StepLeads DEF DoneLeads
    <3>4. slot'[w].next = b
      BY <1>2, <3>2
    <3> QED
      BY <3>3, <3>4 DEF Leads, ByQueue, BySlot
  <2> QED
    BY <2>1, <2>2
<1>3. CASE Publish(w)
  <2>1. /\ slot'[w].job = slot[w].job
        /\ slot'[w].page = slot[w].page /\ slot'[w].next = slot[w].next
    BY <1>3, ToMoves DEF Publish, Steps
  <2>2. slot'[w].page \subseteq stored'
    BY <1>0, <1>3, <2>1 DEF PageShape, Publish
  <2>3. \A m \in 1..top' : Below(w, m)' => Leads(m, slot[w].next)'
    BY <1>1, <1>3, <2>1, PublishLeads
  <2> QED
    BY <2>2, <2>3
<1>4. CASE Stores(w)
  <2>1. slot'[w].page = slot[w].page /\ slot'[w].next = 0
        /\ slot[w].page \subseteq stored'
    BY <1>4 DEF Stores, Goes
  <2>2. \A m \in 1..top' : ~Below(w, m)'
    BY <1>0, <2>1 DEF Below
  <2> QED
    BY <2>1, <2>2
<1>5. slot'[w] # Free /\ ~Begins(w) /\ ~Fetch(w)
  BY FreeIsSlot, FetchMoves DEF Begins
<1>6. CASE Stays(w) \/ Goes(w, {"progress"}, {"complete"})
           \/ Goes(w, {"complete"}, {"audit"})
  BY <1>2, <1>6 DEF Stays, Goes
<1>7. ~Goes(w, {"acquire", "fetch", "store", "publish", "progress"},
               {"fetch", "fail", "reject"})
  BY DEF Goes
<1> QED
  BY <1>3, <1>4, <1>5, <1>6, <1>7, StepMoves DEF SlotMove

LEMMA RecentStep ==
    ASSUME JobsInv, Next
    PROVE  RecentLeads'
<1> USE DEF JobsInv
<1> SUFFICES ASSUME NEW j \in recent', j[1] # 0, NEW m \in 1..top', Covers(j, m)
             PROVE  Leads(m, j[1])'
  BY DEF RecentLeads, Covers
<1>0. /\ top \in Nat /\ top' \in Nat /\ top <= top' /\ j \in Jobs
      /\ j[1] \in Nat /\ j[2] \in Nat
  BY CountFacts, StepRest, StepQueue, JobFacts DEF Ids
<1>1. CASE j \in recent
  <2>1. m \in 1..top
    BY <1>0, <1>1 DEF JobsSane, Sane, Covers
  <2>2. Leads(m, j[1])
    BY <1>1, <2>1 DEF RecentLeads
  <2> QED
    BY <1>0, <2>1, <2>2, StepLeads
<1>2. ASSUME NEW w \in Slots, Publish(w), j = <<slot[w].next, slot[w].job[2]>>
      PROVE  Leads(m, j[1])'
  <2>1. slot[w].next = j[1] /\ slot[w].job[2] = j[2]
    BY <1>2
  <2>2. m \in 1..top /\ Below(w, m)
    BY <1>0, <2>1, SlotFacts DEF Below, Covers, JobsSane
  <2>3. Leads(m, slot[w].next)' /\ slot'[w].next = slot[w].next
    BY <1>2, <2>2, PublishLeads, ToMoves DEF Publish, Steps
  <2> QED
    BY <2>1, <2>3 DEF Leads, ByQueue, BySlot
<1>3. CASE BootPublish /\ j = boot /\ j \notin recent
  <2>1. queue'[j] > 0
    BY <1>0, <1>3, PublishedKeeps DEF BootPublish
  <2> QED
    BY <1>0, <2>1, QueuedLeads DEF Height
<1> QED
  BY <1>1, <1>2, <1>3, StepQueue DEF NewJob

LEMMA KnownStep ==
    ASSUME JobsInv, Next
    PROVE  KnownLeads'
<1> USE DEF JobsInv
<1>0. /\ top \in Nat /\ MaxMsg \in Nat /\ state.newest \in Nat
      /\ state.newest <= top /\ top <= MaxMsg
  BY CountFacts
<1>1. ASSUME NEW m \in 1..state'.newest, m \in 1..top, Leads(m, MaxMsg + 1)
      PROVE  Leads(m, MaxMsg + 1)'
  BY <1>0, <1>1, StepLeads
<1>2. CASE state'.newest = state.newest
  <2>1. \A m \in 1..state'.newest : Leads(m, MaxMsg + 1)'
    BY <1>0, <1>1, <1>2 DEF KnownLeads
  <2> QED
    BY <2>1 DEF KnownLeads
<1>3. ASSUME NEW w \in Slots, Progress(w), state'.newest # state.newest
      PROVE  KnownLeads'
  <2>1. /\ state'.newest \in slot[w].page /\ state'.newest <= top
        /\ state'.newest \in Nat
    BY <1>3, ProgressMoves
  <2>2. ASSUME NEW m \in 1..state'.newest
        PROVE  Leads(m, MaxMsg + 1)'
    <3>1. m \in Nat /\ m \in 1..top
      BY <1>0, <2>1
    <3>2. slot[w].job[2] \in Nat /\ slot[w].job[2] <= state.newest
      BY SlotFacts, JobFacts DEF JobsSane, Sane
    <3>3. CASE m <= slot[w].job[2]
      <4>1. Leads(m, MaxMsg + 1)
        BY <1>0, <3>1, <3>2, <3>3 DEF KnownLeads
      <4> QED
        BY <1>1, <3>1, <4>1
    <3>4. CASE m > slot[w].job[2]
      <4>1. m \in slot[w].page \/ m < slot[w].next
        BY <1>3, <2>1, <3>4 DEF PageShape, Progress
      <4>2. CASE m \in slot[w].page
        <5>1. m \in stored
          BY <1>3, <4>2 DEF DoneLeads, Progress
        <5> QED
          BY <1>1, <3>1, <5>1 DEF Leads
      <4>3. CASE m < slot[w].next
        <5>1. PICK b \in Nat : b = slot[w].next
          BY SlotFacts
        <5>2. b <= MaxMsg + 1
          BY <1>0, <5>1, SlotFacts
        <5>3. Leads(m, b)
          BY <1>3, <3>1, <3>4, <4>3, <5>1 DEF DoneLeads, Below, Progress
        <5>4. Leads(m, MaxMsg + 1)
          BY <1>0, <5>2, <5>3, HigherLeads
        <5> QED
          BY <1>1, <3>1, <5>4
      <4> QED
        BY <4>1, <4>2, <4>3
    <3> QED
      BY <3>1, <3>2, <3>3, <3>4
  <2> QED
    BY <2>2 DEF KnownLeads
<1> QED
  BY <1>2, <1>3, StepState

LEMMA JobsInitially ==
    ASSUME Init
    PROVE  JobsInv
<1>1. TypeOK
  <2>1. state \in [cursor : Ids, newest : 0..top, lease : Slots \cup {None},
                   expired : BOOLEAN]
    BY JobsAssumption DEF Init, Ids
  <2>2. slot \in [Slots -> [step : Steps, job : Jobs, owned : BOOLEAN,
                            page : SUBSET (1..top), next : Ids]]
    BY JobsAssumption DEF Init, Free, Steps, Jobs, Ids, NoJob
  <2>3. ~state.expired
    BY DEF Init
  <2> QED
    BY <2>1, <2>2, <2>3, JobsAssumption DEF Init, TypeOK, Ids
<1>2. \A w \in Slots : /\ slot[w].step = "idle" /\ slot[w].job = NoJob
                       /\ slot[w].next = 0
  BY <1>1, FreeIsSlot DEF Init
<1>3. CursorIsHolders /\ DoneLeads /\ PageShape
  BY <1>2 DEF CursorIsHolders, DoneLeads, PageShape
<1>4. KnownLeads /\ RecentLeads
  BY DEF Init, KnownLeads, RecentLeads
<1>5. JobsSane
  BY <1>1, <1>2, FreeIsSlot, CountFacts DEF Init, JobsSane, Sane
<1> QED
  BY <1>1, <1>3, <1>4, <1>5 DEF JobsInv

LEMMA JobsStutter ==
    ASSUME JobsInv, UNCHANGED vars
    PROVE  JobsInv'
<1> USE DEF JobsInv, vars
<1>1. TypeOK' /\ CursorIsHolders'
  BY DEF TypeOK, CursorIsHolders
<1>2. \A m, b : Leads(m, b) => Leads(m, b)'
  BY StillLeads
<1>3. KnownLeads' /\ RecentLeads'
  BY <1>2 DEF KnownLeads, RecentLeads
<1>4. DoneLeads'
  <2>1. \A w \in Slots : \A m \in 1..top :
            Leads(m, slot[w].next) => Leads(m, slot[w].next)'
    BY DEF Leads, ByQueue, BySlot, ByTermed, Owed, Below, Height, Covers
  <2> QED
    BY <2>1 DEF DoneLeads, Below
<1>5. PageShape' /\ JobsSane'
  BY DEF PageShape, JobsSane, Sane, Covers, Height
<1> QED
  BY <1>1, <1>3, <1>4, <1>5

\* In every reachable state each message that is known is stored or led to by a
\* job, a slot or a rejected job, and so is each message of a page whose job was
\* dropped as a duplicate (worker/history.go,
\* syncjob/publisher.go).
THEOREM JobsInvariant == Spec => []JobsInv
<1>1. Init => JobsInv
  BY JobsInitially
<1>2. JobsInv /\ [Next]_vars => JobsInv'
  <2> SUFFICES ASSUME JobsInv, [Next]_vars PROVE JobsInv'
    OBVIOUS
  <2>1. CASE Next
    BY <2>1, JobsTypeStep, CursorStep, KnownStep, RecentStep, DoneStep, ShapeStep,
       SaneStep DEF JobsInv
  <2> QED
    BY <2>1, JobsStutter
<1> QED
  BY <1>1, <1>2, PTL DEF Spec

\* Every message up to newest_message_id is in the mirror, below the cursor, or
\* covered by a job that is queued, at work or rejected, and between Progress and
\* Complete the cursor is the lease holder's (worker/history.go,
\* syncstate/repository.go): for any number of slots, messages and faults, any
\* page size and any order of deliveries.
THEOREM CursorTrusted == Spec => []CursorSound
<1>1. JobsInv => CursorSound
  <2> SUFFICES ASSUME JobsInv PROVE NoGap
    BY DEF JobsInv, CursorSound
  <2> SUFFICES ASSUME NEW m \in 1..state.newest, m \notin stored
               PROVE  \/ \E j \in Jobs : queue[j] > 0 /\ Covers(j, m)
                      \/ \E w \in Slots : /\ slot[w].step # "idle"
                                          /\ Covers(slot[w].job, m)
                      \/ \E j \in termed : Covers(j, m)
    BY DEF NoGap
  <2>1. Leads(m, MaxMsg + 1) /\ m \in 1..top
    BY CountFacts DEF JobsInv, KnownLeads
  <2>2. ASSUME NEW w \in Slots, Owed(w, m)
        PROVE  slot[w].step # "idle" /\ Covers(slot[w].job, m)
    BY <2>1, <2>2, OwedIsCovered DEF JobsInv, Owed
  <2> QED
    BY <2>1, <2>2 DEF Leads, ByQueue, BySlot, ByTermed
<1> QED
  BY <1>1, JobsInvariant, PTL

-----------------------------------------------------------------------------
(* The snapshot of the contacts.                                           *)

Fetched == {"upsert", "mark", "progress", "complete"}

\* Another snapshot is queued or at work.
OthersAtWork(w) == jobs > 0 \/ \E v \in Slots \ {w} : work[v].step # "idle"

\* Telegram's list differs from a fetched one only in who changed later.
SeenIsList ==
    \A w \in Slots :
        work[w].step \in Fetched
        => work[w].seen \ work[w].later = list \ work[w].later

\* What the holder of the lease has written is there, unless somebody else is
\* still to write it again.
HoldersWork ==
    \A w \in Slots :
        lease = w /\ ~OthersAtWork(w)
        => /\ work[w].step = "mark"
              => work[w].seen \ work[w].later \subseteq shown
           /\ work[w].step \in {"progress", "complete"}
              => shown \ work[w].later = list \ work[w].later

\* On demand there is one snapshot at a time, and it never shows a contact wrongly,
\* not even when it fails half way.
OneAtATime ==
    ~auto => \A v, w \in Slots :
                work[v].step # "idle" /\ work[w].step # "idle" => v = w

AgreesOnDemand ==
    ~auto => /\ shown \ doubt = list \ doubt
             /\ \A w \in Slots : work[w].step \in Fetched
                                 => work[w].seen \ doubt = list \ doubt

ContactsInv ==
    /\ C!TypeOK /\ SeenIsList /\ HoldersWork /\ OneAtATime /\ AgreesOnDemand
    /\ C!QuietAgrees

ContactsRest ==
    SeenIsList /\ HoldersWork /\ OneAtATime /\ AgreesOnDemand /\ C!QuietAgrees

-----------------------------------------------------------------------------
SnapType == [step : C!Steps, owned : BOOLEAN, seen : SUBSET People,
             later : SUBSET People]

LEMMA SnapFacts ==
    ASSUME C!TypeOK, NEW w \in Slots
    PROVE  /\ work[w] \in SnapType /\ work[w].step \in C!Steps
           /\ work[w].owned \in BOOLEAN
           /\ work[w].seen \subseteq People /\ work[w].later \subseteq People
           /\ list \subseteq People /\ shown \subseteq People
           /\ doubt \subseteq People /\ jobs \in Nat /\ auto \in BOOLEAN
  BY DEF C!TypeOK, SnapType

LEMMA FreeSnap ==
    /\ C!Free \in SnapType /\ C!Free.step = "idle" /\ C!Free.owned = FALSE
    /\ C!Free.seen = {} /\ C!Free.later = {}
  BY DEF C!Free, SnapType, C!Steps

LEMMA StepsAre ==
    /\ {"idle", "acquire", "fetch", "upsert", "mark", "progress", "complete",
        "fail", "reject"} \subseteq C!Steps
    /\ Fetched \subseteq C!Steps /\ "idle" \notin Fetched
    /\ Fetched \cap {"acquire", "fetch", "fail", "reject"} = {}
  BY DEF C!Steps, Fetched

\* One snapshot moves on, to a step at which it is not done.
LEMMA BusyStep ==
    ASSUME ContactsInv, NEW w \in Slots, work'[w].step # "idle",
           \A v \in Slots \ {w} : work'[v] = work[v],
           list' = list, doubt' = doubt, auto' = auto,
           work'[w].step \in Fetched
           => work'[w].seen \ work'[w].later = list \ work'[w].later,
           lease' = w /\ ~OthersAtWork(w)'
           => /\ work'[w].step = "mark"
                 => work'[w].seen \ work'[w].later \subseteq shown'
              /\ work'[w].step \in {"progress", "complete"}
                 => shown' \ work'[w].later = list \ work'[w].later,
           ~auto => work[w].step # "idle" \/ \A v \in Slots : work[v].step = "idle",
           ~auto => /\ shown' \ doubt = list \ doubt
                    /\ work'[w].step \in Fetched
                       => work'[w].seen \ doubt = list \ doubt
    PROVE  ContactsRest'
<1> USE DEF ContactsInv
<1>1. SeenIsList'
  BY DEF SeenIsList
<1>2. \A v \in Slots \ {w} : OthersAtWork(v)'
  BY DEF OthersAtWork
<1>3. HoldersWork'
  BY <1>2 DEF HoldersWork, OthersAtWork
<1>4. OneAtATime'
  BY DEF OneAtATime
<1>5. AgreesOnDemand'
  BY DEF AgreesOnDemand
<1>6. C!QuietAgrees'
  BY DEF C!QuietAgrees, C!Quiet
<1> QED
  BY <1>1, <1>3, <1>4, <1>5, <1>6 DEF ContactsRest

\* A snapshot is given up and not repeated.
LEMMA AbandonedStep ==
    ASSUME ContactsInv, NEW w \in Slots, C!Abandoned(w), list' = list,
           shown' = shown, auto' = auto, lease' \in {lease, None}
    PROVE  ContactsRest'
<1> USE DEF ContactsInv
<1>1. /\ work'[w].step = "idle" /\ doubt' = People
      /\ \A v \in Slots \ {w} : /\ work'[v].step = work[v].step
                                /\ work'[v].seen = work[v].seen
                                /\ work'[v].later = People
  BY FreeSnap, SnapFacts DEF C!Abandoned, SnapType
<1>2. \A v \in Slots : /\ work[v].seen \subseteq People
                       /\ list \subseteq People /\ shown \subseteq People
  BY SnapFacts
<1>3. SeenIsList'
  BY <1>1, <1>2, StepsAre DEF SeenIsList
<1>4. HoldersWork'
  BY <1>1, <1>2 DEF HoldersWork
<1>5. OneAtATime'
  BY <1>1 DEF OneAtATime
<1>6. AgreesOnDemand'
  BY <1>1, <1>2, StepsAre DEF AgreesOnDemand
<1>7. C!QuietAgrees'
  <2>1. list \subseteq People /\ shown \subseteq People
    BY DEF C!TypeOK
  <2> QED
    BY <1>1, <2>1 DEF C!QuietAgrees
<1> QED
  BY <1>3, <1>4, <1>5, <1>6, <1>7 DEF ContactsRest

\* A snapshot ends and is repeated, or was on demand.
LEMMA RequeuedStep ==
    ASSUME ContactsInv, NEW w \in Slots, C!Requeued(w), work[w].step # "idle",
           ~auto \/ work[w].owned, doubt' = doubt, list' = list,
           shown' = shown, auto' = auto, lease' \in {lease, None}
    PROVE  ContactsRest'
<1> USE DEF ContactsInv
<1>0. None \notin Slots
  BY ContactsOK DEF C!ContactsAssumption
<1>1. work'[w].step = "idle" /\ \A v \in Slots \ {w} : work'[v] = work[v]
  BY FreeSnap DEF C!Requeued, C!TypeOK
<1>2. auto => jobs' > 0
  BY SnapFacts DEF C!Requeued
<1>3. SeenIsList'
  BY <1>1, StepsAre DEF SeenIsList
<1>4. HoldersWork'
  <2> SUFFICES ASSUME NEW v \in Slots, lease' = v, ~OthersAtWork(v)',
                      work'[v].step # "idle"
               PROVE  FALSE
    BY DEF HoldersWork
  <2>1. v # w /\ ~auto
    BY <1>1, <1>2 DEF OthersAtWork
  <2> QED
    BY <1>1, <2>1 DEF OneAtATime
<1>5. OneAtATime'
  BY <1>1 DEF OneAtATime
<1>6. AgreesOnDemand'
  BY <1>1, StepsAre DEF AgreesOnDemand
<1>7. C!QuietAgrees'
  BY <1>2, SnapFacts DEF C!QuietAgrees, C!Quiet, AgreesOnDemand
<1> QED
  BY <1>3, <1>4, <1>5, <1>6, <1>7 DEF ContactsRest

LEMMA ReturnedStep ==
    ASSUME ContactsInv, NEW w \in Slots, C!Returned(w), work[w].step # "idle",
           list' = list, shown' = shown, auto' = auto, lease' \in {lease, None}
    PROVE  ContactsRest'
  BY AbandonedStep, RequeuedStep DEF C!Returned

\* A snapshot succeeds.
LEMMA CompletedStep ==
    ASSUME ContactsInv, NEW w \in Slots, work[w].step = "complete", lease = w,
           C!Released, work' = [work EXCEPT ![w] = C!Free], doubt' = work[w].later,
           jobs' = jobs \/ jobs' = jobs + 1,
           list' = list, shown' = shown, auto' = auto
    PROVE  ContactsRest'
<1> USE DEF ContactsInv
<1>0. None \notin Slots /\ jobs \in Nat
  BY ContactsOK DEF C!ContactsAssumption, C!TypeOK
<1>1. work'[w].step = "idle" /\ \A v \in Slots \ {w} : work'[v] = work[v]
  BY FreeSnap DEF C!TypeOK
<1>2. ~OthersAtWork(w) => shown \ work[w].later = list \ work[w].later
  BY DEF HoldersWork
<1>3. SeenIsList'
  BY <1>1, StepsAre DEF SeenIsList
<1>4. HoldersWork'
  BY <1>0 DEF HoldersWork, C!Released
<1>5. OneAtATime'
  BY <1>1 DEF OneAtATime
<1>6. ASSUME ~auto
      PROVE  ~OthersAtWork(w) /\ \A v \in Slots : work'[v].step = "idle"
  BY <1>1, <1>6 DEF OneAtATime, OthersAtWork, C!TypeOK
<1>7. AgreesOnDemand'
  BY <1>2, <1>6, StepsAre DEF AgreesOnDemand
<1>8. C!QuietAgrees'
  <2> SUFFICES ASSUME C!Quiet' PROVE ~OthersAtWork(w)
    BY <1>2 DEF C!QuietAgrees
  <2> QED
    BY <1>0, <1>1 DEF C!Quiet, OthersAtWork
<1> QED
  BY <1>3, <1>4, <1>5, <1>7, <1>8 DEF ContactsRest

LEMMA ContactsChange ==
    ASSUME ContactsInv, NEW p \in People, C!Change(p)
    PROVE  ContactsRest'
<1> USE DEF ContactsInv
<1>1. \A v \in Slots : /\ work'[v].step = work[v].step
                       /\ work'[v].seen = work[v].seen
                       /\ work'[v].later = work[v].later \cup {p}
  BY SnapFacts DEF C!Change, SnapType
<1>2. /\ list' \ {p} = list \ {p} /\ doubt' = doubt \cup {p}
      /\ UNCHANGED <<auto, shown, lease, jobs>>
  BY DEF C!Change
<1>3. SeenIsList'
  BY <1>1, <1>2 DEF SeenIsList
<1>4. \A w \in Slots : OthersAtWork(w)' = OthersAtWork(w)
  BY <1>1, <1>2 DEF OthersAtWork
<1>5. HoldersWork'
  BY <1>1, <1>2, <1>4 DEF HoldersWork
<1>6. OneAtATime'
  BY <1>1, <1>2 DEF OneAtATime
<1>7. AgreesOnDemand'
  BY <1>1, <1>2 DEF AgreesOnDemand
<1>8. C!Quiet' = C!Quiet
  BY <1>1, <1>2 DEF C!Quiet
<1>9. C!QuietAgrees'
  BY <1>2, <1>8 DEF C!QuietAgrees
<1> QED
  BY <1>3, <1>5, <1>6, <1>7, <1>9 DEF ContactsRest

\* A step that leaves the snapshots and the lists alone.
LEMMA StillStep ==
    ASSUME ContactsInv, UNCHANGED <<auto, list, shown, lease, work, doubt>>,
           jobs' = jobs \/ jobs' > 0
    PROVE  ContactsRest'
<1> USE DEF ContactsInv
<1>1. \A w \in Slots : ~OthersAtWork(w)' => ~OthersAtWork(w)
  BY DEF OthersAtWork
<1>2. HoldersWork'
  BY <1>1 DEF HoldersWork
<1>3. SeenIsList' /\ OneAtATime' /\ AgreesOnDemand'
  BY DEF SeenIsList, OneAtATime, AgreesOnDemand
<1>4. C!QuietAgrees'
  BY DEF C!QuietAgrees, C!Quiet
<1> QED
  BY <1>2, <1>3, <1>4 DEF ContactsRest

LEMMA SnapTo ==
    ASSUME C!TypeOK, NEW w \in Slots, NEW s \in C!Steps, C!To(w, s)
    PROVE  /\ work'[w].step = s /\ work'[w].seen = work[w].seen
           /\ work'[w].later = work[w].later
           /\ \A v \in Slots \ {w} : work'[v] = work[v]
  BY DEF C!TypeOK, C!To

LEMMA BegunTo ==
    ASSUME C!TypeOK, NEW w \in Slots, C!Begun(w)
    PROVE  work'[w].step = "acquire" /\ \A v \in Slots \ {w} : work'[v] = work[v]
<1>1. PICK r \in SnapType : r = C!Free
  BY FreeSnap
<1>2. work' = [work EXCEPT ![w] = [r EXCEPT !.step = "acquire", !.owned = TRUE]]
  BY <1>1 DEF C!Begun
<1> QED
  BY <1>2 DEF C!TypeOK, SnapType

\* Another snapshot is at work as much as before.
LEMMA OthersKept ==
    ASSUME NEW w \in Slots, \A v \in Slots \ {w} : work'[v] = work[v],
           jobs' = jobs
    PROVE  OthersAtWork(w)' = OthersAtWork(w)
  BY DEF OthersAtWork

LEMMA RunStep ==
    ASSUME ContactsInv, NEW w \in Slots, C!Run(w)
    PROVE  ContactsRest'
<1> USE DEF ContactsInv
<1>S. /\ work[w].seen \subseteq People /\ work[w].later \subseteq People
      /\ {"fetch", "complete", "fail", "progress", "mark"} \subseteq C!Steps
  BY SnapFacts, StepsAre
<1>1. CASE C!Acquire(w)
  <2>1. CASE C!Returned(w) /\ UNCHANGED <<lease, expired>>
    BY <1>1, <2>1, ReturnedStep DEF C!Acquire
  <2>2. CASE C!To(w, "fetch") /\ UNCHANGED <<jobs, doubt>>
    <3>1. /\ work'[w].step = "fetch" /\ \A v \in Slots \ {w} : work'[v] = work[v]
          /\ list' = list /\ shown' = shown /\ auto' = auto /\ doubt' = doubt
      BY <1>1, <1>S, <2>2, SnapTo DEF C!Acquire
    <3>2. work[w].step # "idle" /\ work'[w].step \notin Fetched
      BY <1>1, <3>1 DEF C!Acquire, Fetched
    <3> QED
      BY <3>1, <3>2, BusyStep DEF AgreesOnDemand
  <2> QED
    BY <1>1, <2>1, <2>2 DEF C!Acquire
<1>2. CASE C!Fetch(w)
  <2>1. /\ work'[w].step = "upsert" /\ work'[w].seen = list
        /\ \A v \in Slots \ {w} : work'[v] = work[v]
        /\ list' = list /\ shown' = shown /\ auto' = auto /\ doubt' = doubt
    BY <1>2 DEF C!Fetch, C!TypeOK
  <2>2. work[w].step # "idle"
    BY <1>2 DEF C!Fetch
  <2> QED
    BY <2>1, <2>2, BusyStep DEF AgreesOnDemand
<1>3. CASE C!Upsert(w)
  <2>1. /\ work'[w].step = "mark" /\ work'[w].seen = work[w].seen
        /\ work'[w].later = work[w].later
        /\ \A v \in Slots \ {w} : work'[v] = work[v]
        /\ list' = list /\ auto' = auto /\ doubt' = doubt
        /\ shown' = shown \cup work[w].seen
    BY <1>3, <1>S, SnapTo DEF C!Upsert
  <2>2. work[w].step # "idle" /\ work[w].step \in Fetched
    BY <1>3 DEF C!Upsert, Fetched
  <2>3. work'[w].seen \ work'[w].later = list \ work'[w].later
    BY <2>1, <2>2 DEF SeenIsList
  <2>4. ~auto => /\ shown' \ doubt = list \ doubt
                 /\ work'[w].seen \ doubt = list \ doubt
    BY <2>1, <2>2 DEF AgreesOnDemand
  <2> QED
    BY <2>1, <2>2, <2>3, <2>4, BusyStep
<1>4. CASE C!Mark(w)
  <2>1. /\ work'[w].step = "progress" /\ work'[w].seen = work[w].seen
        /\ work'[w].later = work[w].later
        /\ \A v \in Slots \ {w} : work'[v] = work[v]
        /\ list' = list /\ auto' = auto /\ doubt' = doubt /\ lease' = lease
        /\ jobs' = jobs /\ shown' = shown \cap work[w].seen
    BY <1>4, <1>S, SnapTo DEF C!Mark, C!Hidden
  <2>2. work[w].step # "idle" /\ work[w].step \in Fetched /\ work[w].step = "mark"
    BY <1>4 DEF C!Mark, Fetched
  <2>3. work[w].seen \ work[w].later = list \ work[w].later
    BY <2>2 DEF SeenIsList
  <2>4. ~auto => /\ shown' \ doubt = list \ doubt
                 /\ work'[w].seen \ doubt = list \ doubt
    BY <2>1, <2>2 DEF AgreesOnDemand
  <2>5. OthersAtWork(w)' = OthersAtWork(w)
    BY <2>1, OthersKept
  <2>6. lease' = w /\ ~OthersAtWork(w)'
        => shown' \ work'[w].later = list \ work'[w].later
    <3> SUFFICES ASSUME lease = w, ~OthersAtWork(w)
                 PROVE  shown' \ work'[w].later = list \ work'[w].later
      BY <2>1, <2>5
    <3>1. work[w].seen \ work[w].later \subseteq shown
      BY <2>2 DEF HoldersWork
    <3> QED
      BY <2>1, <2>3, <3>1
  <2> QED
    BY <2>1, <2>2, <2>3, <2>4, <2>6, BusyStep
<1>5. CASE C!Progress(w)
  <2>1. PICK s \in {"complete", "fail"} : C!To(w, s)
    BY <1>5 DEF C!Progress
  <2>2. /\ work'[w].step = s /\ work'[w].seen = work[w].seen
        /\ work'[w].later = work[w].later
        /\ \A v \in Slots \ {w} : work'[v] = work[v]
        /\ list' = list /\ auto' = auto /\ doubt' = doubt /\ lease' = lease
        /\ jobs' = jobs /\ shown' = shown
    BY <1>5, <1>S, <2>1, SnapTo DEF C!Progress
  <2>3. work[w].step \in Fetched /\ work[w].step = "progress"
    BY <1>5 DEF C!Progress, Fetched
  <2>4. work[w].seen \ work[w].later = list \ work[w].later
    BY <2>3 DEF SeenIsList
  <2>5. ~auto => /\ shown' \ doubt = list \ doubt
                 /\ work'[w].seen \ doubt = list \ doubt
    BY <2>2, <2>3 DEF AgreesOnDemand
  <2>6. OthersAtWork(w)' = OthersAtWork(w)
    BY <2>2, OthersKept
  <2>7. lease' = w /\ ~OthersAtWork(w)'
        => shown' \ work'[w].later = list \ work'[w].later
    BY <2>2, <2>3, <2>6 DEF HoldersWork
  <2>8. work'[w].step # "idle" /\ work'[w].step # "mark" /\ work[w].step # "idle"
    BY <2>2, <2>3
  <2> QED
    BY <2>2, <2>4, <2>5, <2>7, <2>8, BusyStep
<1>6. CASE C!Complete(w)
  <2>1. CASE lease = w
    <3>1. /\ work[w].step = "complete" /\ C!Released /\ jobs' = jobs
          /\ work' = [work EXCEPT ![w] = C!Free] /\ doubt' = work[w].later
          /\ list' = list /\ shown' = shown /\ auto' = auto
      BY <1>6, <2>1 DEF C!Complete
    <3> QED
      BY <2>1, <3>1, CompletedStep
  <2>2. CASE lease # w
    BY <1>6, <2>2, ReturnedStep DEF C!Complete
  <2> QED
    BY <2>1, <2>2
<1>7. CASE C!Fail(w)
  <2>1. lease' \in {lease, None} /\ list' = list /\ shown' = shown /\ auto' = auto
    BY <1>7 DEF C!Fail, C!Released
  <2>2. CASE work[w].step = "fail"
    BY <1>7, <2>1, <2>2, ReturnedStep DEF C!Fail
  <2>3. CASE work[w].step = "reject"
    BY <1>7, <2>1, <2>3, AbandonedStep DEF C!Fail
  <2> QED
    BY <1>7, <2>2, <2>3 DEF C!Fail
<1> QED
  BY <1>1, <1>2, <1>3, <1>4, <1>5, <1>6, <1>7 DEF C!Run

LEMMA ContactsStep ==
    ASSUME ContactsInv, C!Next
    PROVE  ContactsRest'
<1> USE DEF ContactsInv
<1>1. ASSUME NEW p \in People, C!Change(p) PROVE ContactsRest'
  BY <1>1, ContactsChange
<1>2. CASE C!Expire \/ C!Enqueue
  <2>1. jobs \in Nat
    BY DEF C!TypeOK
  <2> QED
    BY <1>2, <2>1, StillStep DEF C!Expire, C!Enqueue
<1>3. ASSUME NEW w \in Slots, C!Take(w) \/ C!Request(w) PROVE ContactsRest'
  <2>1. /\ work'[w].step = "acquire" /\ \A v \in Slots \ {w} : work'[v] = work[v]
        /\ list' = list /\ shown' = shown /\ auto' = auto /\ doubt' = doubt
    BY <1>3, BegunTo DEF C!Take, C!Request
  <2>2. ~auto => \A v \in Slots : work[v].step = "idle"
    BY <1>3 DEF C!Take, C!Request, C!TypeOK
  <2>3. work'[w].step \notin Fetched
    BY <2>1 DEF Fetched
  <2> QED
    BY <2>1, <2>2, <2>3, BusyStep DEF AgreesOnDemand
<1>4. ASSUME NEW w \in Slots, C!Redeliver(w) PROVE ContactsRest'
  <2>1. /\ work'[w].step = work[w].step /\ work'[w].seen = work[w].seen
        /\ work'[w].later = work[w].later
        /\ \A v \in Slots \ {w} : work'[v] = work[v]
        /\ UNCHANGED <<auto, list, shown, lease, doubt>> /\ auto /\ jobs' > 0
    BY <1>4 DEF C!Redeliver, C!TypeOK
  <2>2. \A v \in Slots : OthersAtWork(v)'
    BY <2>1 DEF OthersAtWork
  <2>3. SeenIsList'
    BY <2>1 DEF SeenIsList
  <2>4. HoldersWork'
    BY <2>2 DEF HoldersWork
  <2>5. OneAtATime' /\ AgreesOnDemand'
    BY <2>1 DEF OneAtATime, AgreesOnDemand
  <2>6. C!QuietAgrees'
    BY <2>1 DEF C!QuietAgrees, C!Quiet
  <2> QED
    BY <2>3, <2>4, <2>5, <2>6 DEF ContactsRest
<1>5. ASSUME NEW w \in Slots, C!Crash(w) PROVE ContactsRest'
  BY <1>5, ReturnedStep DEF C!Crash
<1>6. ASSUME NEW w \in Slots, C!Fails(w) PROVE ContactsRest'
  <2>1. /\ work'[w].step = "fail" /\ work'[w].seen = work[w].seen
        /\ \A v \in Slots \ {w} : work'[v] = work[v]
        /\ list' = list /\ auto' = auto /\ doubt' = doubt
    BY <1>6, SnapTo, StepsAre DEF C!Fails
  <2>2. PICK some \in SUBSET work[w].seen :
            shown' = IF work[w].step = "upsert" THEN shown \cup some ELSE shown
    BY <1>6 DEF C!Fails
  <2>3. ~auto => shown' \ doubt = list \ doubt
    BY <2>2 DEF AgreesOnDemand, Fetched
  <2>4. work[w].step # "idle" /\ work'[w].step \notin Fetched
    BY <1>6, <2>1 DEF C!Fails, Fetched
  <2> QED
    BY <2>1, <2>3, <2>4, BusyStep
<1>7. ASSUME NEW w \in Slots, C!Rejected(w) PROVE ContactsRest'
  <2>1. /\ work'[w].step = "reject" /\ \A v \in Slots \ {w} : work'[v] = work[v]
        /\ list' = list /\ auto' = auto /\ doubt' = doubt /\ shown' = shown
    BY <1>7, SnapTo, StepsAre DEF C!Rejected
  <2>2. work[w].step # "idle" /\ work'[w].step \notin Fetched
    BY <1>7, <2>1 DEF C!Rejected, Fetched
  <2> QED
    BY <2>1, <2>2, BusyStep DEF AgreesOnDemand
<1>8. ASSUME NEW w \in Slots, C!Lost(w) PROVE ContactsRest'
  <2>1. /\ work[w].step = "complete" /\ lease = w /\ C!Released
        /\ work' = [work EXCEPT ![w] = C!Free] /\ doubt' = work[w].later
        /\ jobs' = jobs \/ jobs' = jobs + 1
        /\ list' = list /\ shown' = shown /\ auto' = auto
    BY <1>8 DEF C!Lost, C!Requeued
  <2> QED
    BY <2>1, CompletedStep
<1> QED
  BY <1>1, <1>2, <1>3, <1>4, <1>5, <1>6, <1>7, <1>8, RunStep DEF C!Next

-----------------------------------------------------------------------------
CountType == [changes : 0..MaxChanges, jobs : 0..MaxJobs, faults : 0..MaxSnapFaults]

LEMMA CountStep ==
    ASSUME C!TypeOK
    PROVE  /\ C!Fault => count' \in CountType
           /\ count.jobs < MaxJobs /\ count' = [count EXCEPT !.jobs = @ + 1]
              => count' \in CountType
           /\ count.changes < MaxChanges
              /\ count' = [count EXCEPT !.changes = @ + 1]
              => count' \in CountType
<1>1. /\ count \in CountType /\ MaxChanges \in Nat /\ MaxJobs \in Nat
      /\ MaxSnapFaults \in Nat
  BY ContactsOK DEF C!ContactsAssumption, C!TypeOK, CountType
<1>2. /\ count.faults \in 0..MaxSnapFaults /\ count.jobs \in 0..MaxJobs
      /\ count.changes \in 0..MaxChanges
  BY <1>1 DEF CountType
<1>3. ASSUME C!Fault PROVE count' \in CountType
  <2>1. count.faults + 1 \in 0..MaxSnapFaults
    BY <1>1, <1>2, <1>3 DEF C!Fault
  <2> QED
    BY <1>1, <1>3, <2>1 DEF C!Fault, CountType
<1>4. ASSUME count.jobs < MaxJobs, count' = [count EXCEPT !.jobs = @ + 1]
      PROVE  count' \in CountType
  <2>1. count.jobs + 1 \in 0..MaxJobs
    BY <1>1, <1>2, <1>4
  <2> QED
    BY <1>1, <1>4, <2>1 DEF CountType
<1>5. ASSUME count.changes < MaxChanges,
             count' = [count EXCEPT !.changes = @ + 1]
      PROVE  count' \in CountType
  <2>1. count.changes + 1 \in 0..MaxChanges
    BY <1>1, <1>2, <1>5
  <2> QED
    BY <1>1, <1>5, <2>1 DEF CountType
<1> QED
  BY <1>3, <1>4, <1>5

LEMMA SnapToType ==
    ASSUME C!TypeOK, NEW w \in Slots, NEW s \in C!Steps, C!To(w, s)
    PROVE  work' \in [Slots -> SnapType]
  BY DEF C!TypeOK, C!To, SnapType

LEMMA FreedSnap ==
    ASSUME C!TypeOK, NEW w \in Slots, work' = [work EXCEPT ![w] = C!Free]
    PROVE  work' \in [Slots -> SnapType]
  BY FreeSnap DEF C!TypeOK, SnapType

LEMMA ReturnedType ==
    ASSUME C!TypeOK, NEW w \in Slots, C!Returned(w) \/ C!Abandoned(w)
    PROVE  /\ work' \in [Slots -> SnapType] /\ jobs' \in Nat
           /\ doubt' \in SUBSET People /\ (~auto => jobs' = jobs)
<1>1. CASE C!Abandoned(w)
  <2>1. \A v \in Slots : [work[v] EXCEPT !.later = People] \in SnapType
    BY SnapFacts DEF SnapType
  <2>2. work' \in [Slots -> SnapType]
    BY <1>1, <2>1, FreeSnap DEF C!Abandoned
  <2> QED
    BY <1>1, <2>2 DEF C!Abandoned, C!TypeOK
<1>2. CASE C!Requeued(w) /\ UNCHANGED doubt
  <2>1. work' \in [Slots -> SnapType]
    BY <1>2, FreedSnap DEF C!Requeued
  <2>2. jobs' \in Nat /\ doubt' \in SUBSET People /\ (~auto => jobs' = jobs)
    BY <1>2, SnapFacts DEF C!Requeued
  <2> QED
    BY <2>1, <2>2
<1> QED
  BY <1>1, <1>2 DEF C!Returned

LEMMA ContactsTypeStep ==
    ASSUME C!TypeOK, C!Next
    PROVE  C!TypeOK'
<1> DEFINE Good == /\ auto' \in BOOLEAN
                   /\ list' \in SUBSET People /\ shown' \in SUBSET People
                   /\ lease' \in Slots \cup {None} /\ expired' \in BOOLEAN
                   /\ jobs' \in Nat /\ work' \in [Slots -> SnapType]
                   /\ doubt' \in SUBSET People /\ count' \in CountType
                   /\ (~auto' => jobs' = 0) /\ (lease' = None => ~expired')
<1>0. /\ auto \in BOOLEAN
      /\ list \in SUBSET People /\ shown \in SUBSET People
      /\ lease \in Slots \cup {None} /\ expired \in BOOLEAN
      /\ jobs \in Nat /\ work \in [Slots -> SnapType]
      /\ doubt \in SUBSET People /\ count \in CountType
      /\ (~auto => jobs = 0) /\ (lease = None => ~expired)
      /\ None \notin Slots
      /\ \A w \in Slots : work[w].seen \subseteq People
                          /\ work[w].later \subseteq People
  BY ContactsOK, SnapFacts DEF C!ContactsAssumption, C!TypeOK, SnapType, CountType
<1>1. ASSUME NEW p \in People, C!Change(p) PROVE Good
  <2>1. \A v \in Slots : [work[v] EXCEPT !.later = @ \cup {p}] \in SnapType
    BY SnapFacts DEF SnapType
  <2>2. work' \in [Slots -> SnapType]
    BY <1>1, <2>1 DEF C!Change
  <2>3. count' \in CountType
    BY <1>1, CountStep DEF C!Change
  <2> QED
    BY <1>0, <1>1, <2>2, <2>3 DEF C!Change
<1>2. ASSUME C!Expire PROVE Good
  <2>1. count' \in CountType
    BY <1>0, <1>2, CountStep DEF C!Expire
  <2> QED
    BY <1>0, <1>2, <2>1 DEF C!Expire
<1>3. ASSUME C!Enqueue PROVE Good
  <2>1. count' \in CountType
    BY <1>3, CountStep DEF C!Enqueue
  <2> QED
    BY <1>0, <1>3, <2>1 DEF C!Enqueue
<1>4. ASSUME NEW w \in Slots, C!Begun(w) PROVE work' \in [Slots -> SnapType]
  <2>1. PICK r \in SnapType : r = C!Free
    BY FreeSnap
  <2>2. [r EXCEPT !.step = "acquire", !.owned = TRUE] \in SnapType
    BY StepsAre DEF SnapType
  <2>3. work' = [work EXCEPT ![w] = [r EXCEPT !.step = "acquire", !.owned = TRUE]]
    BY <1>4, <2>1 DEF C!Begun
  <2> QED
    BY <1>0, <2>2, <2>3
<1>5. ASSUME NEW w \in Slots, C!Take(w) PROVE Good
  <2>1. work' \in [Slots -> SnapType] /\ jobs' \in Nat /\ auto
    BY <1>0, <1>4, <1>5 DEF C!Take
  <2> QED
    BY <1>0, <1>5, <2>1 DEF C!Take
<1>6. ASSUME NEW w \in Slots, C!Request(w) PROVE Good
  <2>1. work' \in [Slots -> SnapType] /\ count' \in CountType
    BY <1>4, <1>6, CountStep DEF C!Request
  <2> QED
    BY <1>0, <1>6, <2>1 DEF C!Request
<1>7. ASSUME NEW w \in Slots, C!Redeliver(w) PROVE Good
  <2>1. work' \in [Slots -> SnapType]
    BY <1>0, <1>7 DEF C!Redeliver, SnapType
  <2>2. count' \in CountType
    BY <1>7, CountStep DEF C!Redeliver
  <2> QED
    BY <1>0, <1>7, <2>1, <2>2 DEF C!Redeliver
<1>8. ASSUME NEW w \in Slots, C!Crash(w) PROVE Good
  <2>1. /\ work' \in [Slots -> SnapType] /\ jobs' \in Nat
        /\ doubt' \in SUBSET People /\ (~auto => jobs' = jobs)
    BY <1>8, ReturnedType DEF C!Crash
  <2>2. count' \in CountType
    BY <1>8, CountStep DEF C!Crash
  <2> QED
    BY <1>0, <1>8, <2>1, <2>2 DEF C!Crash
<1>9. ASSUME NEW w \in Slots, C!Fails(w) PROVE Good
  <2>1. work' \in [Slots -> SnapType]
    BY <1>9, SnapToType, StepsAre DEF C!Fails
  <2>2. count' \in CountType
    BY <1>9, CountStep DEF C!Fails
  <2>3. shown' \in SUBSET People
    BY <1>0, <1>9 DEF C!Fails
  <2> QED
    BY <1>0, <1>9, <2>1, <2>2, <2>3 DEF C!Fails
<1>10. ASSUME NEW w \in Slots, C!Rejected(w) PROVE Good
  <2>1. work' \in [Slots -> SnapType]
    BY <1>10, SnapToType, StepsAre DEF C!Rejected
  <2>2. count' \in CountType
    BY <1>10, CountStep DEF C!Rejected
  <2> QED
    BY <1>0, <1>10, <2>1, <2>2 DEF C!Rejected
<1>11. ASSUME NEW w \in Slots, C!Lost(w) PROVE Good
  <2>1. work' \in [Slots -> SnapType]
    BY <1>11, FreedSnap DEF C!Lost, C!Requeued
  <2>2. count' \in CountType
    BY <1>11, CountStep DEF C!Lost
  <2>3. jobs' \in Nat /\ (~auto => jobs' = jobs)
    BY <1>0, <1>11 DEF C!Lost, C!Requeued
  <2> QED
    BY <1>0, <1>11, <2>1, <2>2, <2>3 DEF C!Lost, C!Released
<1>12. ASSUME NEW w \in Slots, C!Run(w) PROVE Good
  <2>1. CASE C!Acquire(w)
    <3>1. CASE C!Returned(w) /\ UNCHANGED <<lease, expired>>
      <4>1. /\ work' \in [Slots -> SnapType] /\ jobs' \in Nat
            /\ doubt' \in SUBSET People /\ (~auto => jobs' = jobs)
        BY <3>1, ReturnedType
      <4> QED
        BY <1>0, <2>1, <3>1, <4>1 DEF C!Acquire
    <3>2. CASE C!To(w, "fetch") /\ UNCHANGED <<jobs, doubt>>
               /\ lease' = w /\ expired' = FALSE
      <4>1. work' \in [Slots -> SnapType]
        BY <3>2, SnapToType, StepsAre
      <4> QED
        BY <1>0, <2>1, <3>2, <4>1 DEF C!Acquire
    <3> QED
      BY <2>1, <3>1, <3>2 DEF C!Acquire
  <2>2. CASE C!Fetch(w)
    <3>1. work' \in [Slots -> SnapType]
      <4>1. [work[w] EXCEPT !.step = "upsert", !.seen = list, !.later = {}]
            \in SnapType
        BY <1>0, StepsAre DEF SnapType
      <4>2. work' = [work EXCEPT ![w] = [work[w] EXCEPT !.step = "upsert",
                                           !.seen = list, !.later = {}]]
        BY <1>0, <2>2 DEF C!Fetch
      <4> QED
        BY <1>0, <4>1, <4>2
    <3> QED
      BY <1>0, <2>2, <3>1 DEF C!Fetch
  <2>3. CASE C!Upsert(w)
    <3>1. work' \in [Slots -> SnapType]
      BY <2>3, SnapToType, StepsAre DEF C!Upsert
    <3> QED
      BY <1>0, <2>3, <3>1 DEF C!Upsert
  <2>4. CASE C!Mark(w)
    <3>1. work' \in [Slots -> SnapType]
      BY <2>4, SnapToType, StepsAre DEF C!Mark
    <3> QED
      BY <1>0, <2>4, <3>1 DEF C!Mark, C!Hidden
  <2>5. CASE C!Progress(w)
    <3>1. work' \in [Slots -> SnapType]
      BY <2>5, SnapToType, StepsAre DEF C!Progress
    <3> QED
      BY <1>0, <2>5, <3>1 DEF C!Progress
  <2>6. CASE C!Complete(w)
    <3>1. CASE C!Returned(w) /\ UNCHANGED <<lease, expired>>
      <4>1. /\ work' \in [Slots -> SnapType] /\ jobs' \in Nat
            /\ doubt' \in SUBSET People /\ (~auto => jobs' = jobs)
        BY <3>1, ReturnedType
      <4> QED
        BY <1>0, <2>6, <3>1, <4>1 DEF C!Complete
    <3>2. CASE /\ C!Released /\ work' = [work EXCEPT ![w] = C!Free]
               /\ doubt' = work[w].later /\ UNCHANGED jobs
      <4>1. work' \in [Slots -> SnapType]
        BY <3>2, FreedSnap
      <4> QED
        BY <1>0, <2>6, <3>2, <4>1 DEF C!Complete, C!Released
    <3> QED
      BY <2>6, <3>1, <3>2 DEF C!Complete
  <2>7. CASE C!Fail(w)
    <3>1. /\ work' \in [Slots -> SnapType] /\ jobs' \in Nat
          /\ doubt' \in SUBSET People /\ (~auto => jobs' = jobs)
      BY <2>7, ReturnedType DEF C!Fail
    <3>2. /\ lease' \in Slots \cup {None} /\ expired' \in BOOLEAN
          /\ (lease' = None => ~expired')
      BY <1>0, <2>7 DEF C!Fail, C!Released
    <3> QED
      BY <1>0, <2>7, <3>1, <3>2 DEF C!Fail
  <2> HIDE DEF Good
  <2> QED
    BY <1>12, <2>1, <2>2, <2>3, <2>4, <2>5, <2>6, <2>7 DEF C!Run
<1> HIDE DEF Good
<1>13. Good
  BY <1>1, <1>2, <1>3, <1>5, <1>6, <1>7, <1>8, <1>9, <1>10, <1>11, <1>12 DEF C!Next
<1> QED
  BY <1>13 DEF Good, C!TypeOK, SnapType, CountType

LEMMA ContactsInitially ==
    ASSUME C!Init
    PROVE  ContactsInv
<1>1. \A w \in Slots : work[w] = C!Free
  BY DEF C!Init
<1>2. \A w \in Slots : work[w].step = "idle"
  BY <1>1, FreeSnap
<1>3. work \in [Slots -> SnapType]
  BY FreeSnap DEF C!Init
<1>4. count \in CountType
  BY ContactsOK DEF C!ContactsAssumption, C!Init, CountType
<1>5. C!TypeOK
  <2>1. ~expired /\ jobs = 0 /\ lease = None /\ expired \in BOOLEAN
    BY DEF C!Init
  <2>2. /\ auto \in BOOLEAN /\ list \in SUBSET People /\ shown \in SUBSET People
        /\ doubt \in SUBSET People
    BY DEF C!Init
  <2> QED
    BY <1>3, <1>4, <2>1, <2>2 DEF C!TypeOK, SnapType, CountType
<1>6. SeenIsList /\ HoldersWork /\ OneAtATime
  BY <1>2, StepsAre DEF SeenIsList, HoldersWork, OneAtATime
<1>7. list \ doubt = {} /\ shown \ doubt = {}
  BY DEF C!Init
<1>8. AgreesOnDemand /\ C!QuietAgrees
  BY <1>2, <1>7, StepsAre DEF AgreesOnDemand, C!QuietAgrees
<1> QED
  BY <1>5, <1>6, <1>8 DEF ContactsInv

\* In every reachable state a fetched list differs from Telegram's only in who
\* changed since, and the lease's holder finds what it wrote unless somebody else
\* is still to write it again (worker/contacts.go, contacts/snapshot.go).
THEOREM ContactsInvariant == C!Spec => []ContactsInv
<1>1. C!Init => ContactsInv
  BY ContactsInitially
<1>2. ContactsInv /\ [C!Next]_(C!vars) => ContactsInv'
  <2> SUFFICES ASSUME ContactsInv, [C!Next]_(C!vars) PROVE ContactsInv'
    OBVIOUS
  <2>1. CASE C!Next
    <3>1. C!TypeOK' /\ ContactsRest'
      BY <2>1, ContactsTypeStep, ContactsStep DEF ContactsInv
    <3> QED
      BY <3>1 DEF ContactsInv, ContactsRest
  <2>2. CASE UNCHANGED C!vars
    <3>1. C!TypeOK'
      BY <2>2 DEF ContactsInv, C!TypeOK, C!vars
    <3>2. ContactsRest'
      BY <2>2, StillStep DEF C!vars
    <3> QED
      BY <3>1, <3>2 DEF ContactsInv, ContactsRest
  <2> QED
    BY <2>1, <2>2
<1> QED
  BY <1>1, <1>2, PTL DEF C!Spec

\* When no snapshot is queued or at work, the contacts shown are Telegram's, but
\* for those that changed since the last list that was stored in full
\* (contacts/snapshot.go): for any number of contacts, slots and faults.
THEOREM ContactsSettle == C!Spec => []QuietAgrees
<1>1. ContactsInv => QuietAgrees
  BY DEF ContactsInv, QuietAgrees
<1> QED
  BY <1>1, ContactsInvariant, PTL

-----------------------------------------------------------------------------
(* The snapshot of a chat's members.                                       *)

\* The snapshots at work, which have their start.
AtWork(w) == task[w].step \notin {"idle", "ensure"}

\* The page of the slot is stored.
Stored(w) == task[w].step \in {"progress", "publish", "mark", "complete"}

\* The pages that are queued or at work.
Outstanding(o) ==
    pages[o] > 0 \/ \E w \in Slots : task[w].step # "idle" /\ task[w].offset = o

Prefix(o) == {members[i] : i \in {k \in DOMAIN members : k <= o}}

\* The members were stamped since a start as far as there are pages.
Reaches(st) ==
    /\ \A o \in M!Offsets : Outstanding(o) => Prefix(o) \subseteq st.seen
    /\ \A w \in Slots : Stored(w) => task[w].page \subseteq st.seen

\* What a start stands for while nothing disturbs it.
Trusted(st) ==
    ~st.disturbed => /\ Reaches(st)
                     /\ st.seen \subseteq M!Range(members)
                     /\ st.seen \subseteq visible

StartsTrusted ==
    Trusted(start) /\ \A w \in Slots : AtWork(w) => Trusted(task[w].start)

\* Starts are disturbed together.
SameFate ==
    \A v, w \in Slots :
        AtWork(v) /\ AtWork(w) /\ task[v].start.disturbed
        => task[w].start.disturbed

\* The start in the cursor too, once a page of the snapshot has written it.
CursorFate ==
    \A w \in Slots :
        AtWork(w)
        => /\ task[w].start.disturbed => start.disturbed
           /\ auto /\ start.disturbed /\ ~task[w].start.disturbed
              => /\ \A o \in M!Offsets : Outstanding(o) => o = 0
                 /\ task[w].step \notin {"publish", "mark", "complete"}

\* A page that was fetched goes on where the pages before it ended, to the next
\* one or to the end; the last one comes when all were seen.
FetchedOK(w) ==
    ~task[w].start.disturbed
    => /\ task[w].step \in {"upsert", "progress", "publish"}
          => /\ task[w].page \subseteq M!Range(members)
             /\ IF task[w].next = 0
                THEN M!Range(members)
                     \subseteq Prefix(task[w].offset) \cup task[w].page
                ELSE Prefix(task[w].next)
                     \subseteq Prefix(task[w].offset) \cup task[w].page
       /\ task[w].step = "mark" => M!Range(members) \subseteq task[w].start.seen

PageFetched == \A w \in Slots : FetchedOK(w)

\* On demand there is one at a time, without a queue.
OnDemand ==
    ~auto => /\ \A o \in M!Offsets : pages[o] = 0
             /\ \A v, w \in Slots :
                   task[v].step # "idle" /\ task[w].step # "idle" => v = w
             /\ \A w \in Slots :
                   /\ task[w].step \in {"idle", "fetch", "upsert", "mark"}
                   /\ ~task[w].owned
                   /\ clean /\ AtWork(w) => ~task[w].start.disturbed

OwnersWork == \A w \in Slots : task[w].owned => task[w].step # "idle"

MembersRest ==
    /\ StartsTrusted /\ SameFate /\ CursorFate /\ PageFetched
    /\ OnDemand /\ OwnersWork /\ M!MembersSound

MembersInv == M!TypeOK /\ MembersRest

-----------------------------------------------------------------------------
TaskType == [step : M!Steps, owned : BOOLEAN, offset : M!Offsets,
             page : SUBSET People, next : M!Offsets, start : M!Starts]

LEMMA TaskFacts ==
    ASSUME M!TypeOK, NEW w \in Slots
    PROVE  /\ task[w] \in TaskType /\ task[w].step \in M!Steps
           /\ task[w].owned \in BOOLEAN /\ task[w].offset \in M!Offsets
           /\ task[w].page \subseteq People /\ task[w].next \in M!Offsets
           /\ task[w].start \in M!Starts
           /\ task[w].start.seen \subseteq People
           /\ task[w].start.disturbed \in BOOLEAN
  BY DEF M!TypeOK, TaskType, M!Starts

LEMMA MemberFacts ==
    ASSUME M!TypeOK
    PROVE  /\ members \in Seq(People) /\ Len(members) \in Nat
           /\ Len(members) <= MaxMembers
           /\ DOMAIN members = 1..Len(members) /\ M!Range(members) \subseteq People
           /\ MaxMembers \in Nat /\ PageSize \in Nat /\ PageSize > 0
           /\ 0 \in M!Offsets /\ auto \in BOOLEAN
           /\ start \in M!Starts /\ start.seen \subseteq People
           /\ start.disturbed \in BOOLEAN
           /\ \A o \in M!Offsets : pages[o] \in Nat
           /\ None \notin Slots
<1>1. /\ MaxMembers \in Nat /\ PageSize \in Nat /\ PageSize > 0 /\ None \notin Slots
      /\ 0 \in M!Offsets
  BY MembersOK DEF M!MembersAssumption, M!Offsets
<1>2. /\ members \in Seq(People) /\ Len(members) \in Nat
      /\ Len(members) <= MaxMembers
      /\ DOMAIN members = 1..Len(members)
  BY DEF M!TypeOK
<1>3. M!Range(members) \subseteq People
  BY <1>2 DEF M!Range
<1>4. /\ start \in M!Starts /\ start.seen \subseteq People
      /\ start.disturbed \in BOOLEAN
  BY DEF M!TypeOK, M!Starts
<1>5. auto \in BOOLEAN /\ \A o \in M!Offsets : pages[o] \in Nat
  BY MembersOK DEF M!MembersAssumption, M!TypeOK
<1> QED
  BY <1>1, <1>2, <1>3, <1>4, <1>5

LEMMA FreeTask ==
    ASSUME M!TypeOK
    PROVE  /\ M!Free \in TaskType /\ M!Free.step = "idle" /\ M!Free.owned = FALSE
           /\ M!Free.offset = 0 /\ M!Free.page = {} /\ M!Free.next = 0
           /\ M!Free.start = M!Now
           /\ M!Now \in M!Starts /\ M!Now.seen = {} /\ M!Now.disturbed = FALSE
<1>1. /\ M!Free.step = "idle" /\ M!Free.owned = FALSE
      /\ M!Free.offset = 0 /\ M!Free.page = {} /\ M!Free.next = 0
      /\ M!Free.start = M!Now
  BY DEF M!Free
<1>2. M!Now \in M!Starts /\ M!Now.seen = {} /\ M!Now.disturbed = FALSE
  BY DEF M!Now, M!Starts
<1>3. M!Free \in TaskType
  BY <1>2, MemberFacts DEF M!Free, TaskType, M!Steps
<1> QED
  BY <1>1, <1>2, <1>3

LEMMA PrefixZero ==
    ASSUME M!TypeOK
    PROVE  Prefix(0) = {}
  BY MemberFacts DEF Prefix

\* Everything is disturbed.
LEMMA AllDisturbed ==
    ASSUME start'.disturbed, \A w \in Slots : task'[w].start.disturbed,
           OnDemand', OwnersWork', M!MembersSound'
    PROVE  MembersRest'
<1>1. StartsTrusted'
  BY DEF StartsTrusted, Trusted
<1>2. SameFate' /\ CursorFate'
  BY DEF SameFate, CursorFate
<1>3. PageFetched'
  BY DEF PageFetched, FetchedOK
<1> QED
  BY <1>1, <1>2, <1>3 DEF MembersRest

\* Slot w moves, if any, and neither the starts nor the lists change.
LEMMA CalmMove ==
    ASSUME MembersInv, NEW w, \A v \in Slots \ {w} : task'[v] = task[v],
           UNCHANGED <<auto, members, visible, start, clean>>,
           w \in Slots
           => /\ AtWork(w)' => AtWork(w) /\ task'[w].start = task[w].start
              /\ Stored(w)' => Stored(w) /\ task'[w].page = task[w].page
              /\ task'[w].step \in {"publish", "mark", "complete"}
                 => task[w].step \in {"publish", "mark", "complete"}
              /\ FetchedOK(w)',
           \A o \in M!Offsets : Outstanding(o)' => Outstanding(o) \/ o = 0,
           OwnersWork', OnDemand'
    PROVE  MembersRest'
<1> USE DEF MembersInv, MembersRest
<1>1. \A o \in M!Offsets : Prefix(o)' = Prefix(o)
  BY DEF Prefix
<1>2. \A v \in Slots : Stored(v)' => Stored(v) /\ task'[v].page = task[v].page
  BY DEF Stored
<1>3. \A v \in Slots : AtWork(v)' => AtWork(v) /\ task'[v].start = task[v].start
  BY DEF AtWork
<1>4. ASSUME NEW st, Trusted(st) PROVE Trusted(st)'
  <2>1. Reaches(st) => Reaches(st)'
    BY <1>1, <1>2, PrefixZero DEF Reaches
  <2> QED
    BY <1>4, <2>1 DEF Trusted, M!Range
<1>5. StartsTrusted'
  <2>1. Trusted(start)'
    <3>1. PICK st : st = start
      OBVIOUS
    <3>2. Trusted(st)' /\ start' = st
      BY <1>4, <3>1 DEF StartsTrusted
    <3> QED
      BY <3>2 DEF Trusted, Reaches
  <2>2. ASSUME NEW v \in Slots, AtWork(v)' PROVE Trusted(task[v].start)'
    <3>1. PICK st : st = task[v].start
      OBVIOUS
    <3>2. Trusted(st)' /\ task'[v].start = st
      BY <1>3, <1>4, <2>2, <3>1 DEF StartsTrusted
    <3> QED
      BY <3>2 DEF Trusted, Reaches
  <2> QED
    BY <2>1, <2>2 DEF StartsTrusted
<1>6. SameFate'
  BY <1>3 DEF SameFate
<1>7. CursorFate'
  <2> SUFFICES ASSUME NEW v \in Slots, AtWork(v)'
               PROVE  /\ task'[v].start.disturbed => start'.disturbed
                      /\ auto' /\ start'.disturbed /\ ~task'[v].start.disturbed
                         => /\ \A o \in M!Offsets : Outstanding(o)' => o = 0
                            /\ task'[v].step \notin {"publish", "mark", "complete"}
    BY DEF CursorFate
  <2>1. AtWork(v) /\ task'[v].start = task[v].start
    BY <1>3
  <2> QED
    BY <2>1 DEF CursorFate
<1>8. PageFetched'
  <2>1. \A v \in Slots \ {w} : FetchedOK(v)'
    BY DEF PageFetched, FetchedOK, M!Range, Prefix
  <2> QED
    BY <2>1 DEF PageFetched
<1>9. M!MembersSound'
  BY DEF M!MembersSound, M!MembersShown, M!MembersAgree, M!Range
<1> QED
  BY <1>5, <1>6, <1>7, <1>8, <1>9

LEMMA TaskTo ==
    ASSUME M!TypeOK, NEW w \in Slots, NEW s \in M!Steps, M!To(w, s)
    PROVE  /\ task'[w].step = s /\ task'[w].owned = task[w].owned
           /\ task'[w].offset = task[w].offset /\ task'[w].page = task[w].page
           /\ task'[w].next = task[w].next /\ task'[w].start = task[w].start
           /\ \A v \in Slots \ {w} : task'[v] = task[v]
  BY DEF M!TypeOK, M!To

\* The pages at work are the same when a slot keeps its own and is not idle.
LEMMA SamePages ==
    ASSUME NEW w \in Slots, \A v \in Slots \ {w} : task'[v] = task[v],
           pages' = pages, task[w].step # "idle", task'[w].step # "idle",
           task'[w].offset = task[w].offset
    PROVE  \A o \in M!Offsets : Outstanding(o)' = Outstanding(o)
<1> SUFFICES ASSUME NEW o \in M!Offsets
             PROVE  Outstanding(o)' = Outstanding(o)
  OBVIOUS
<1>1. Outstanding(o)' => Outstanding(o)
  BY DEF Outstanding
<1>2. Outstanding(o) => Outstanding(o)'
  BY DEF Outstanding
<1>3. Outstanding(o) \in BOOLEAN /\ Outstanding(o)' \in BOOLEAN
  BY DEF Outstanding
<1> QED
  BY <1>1, <1>2, <1>3

\* A slot ends; its page goes back to the queue, or not.
LEMMA EndStep ==
    ASSUME MembersInv, NEW w \in Slots, task[w].step # "idle",
           task' = [task EXCEPT ![w] = M!Free],
           \/ pages' = pages
           \/ task[w].owned /\ pages' = [pages EXCEPT ![task[w].offset] = @ + 1],
           UNCHANGED <<auto, members, visible, start, clean>>
    PROVE  MembersRest'
<1> USE DEF MembersInv, MembersRest
<1>1. task'[w].step = "idle" /\ \A v \in Slots \ {w} : task'[v] = task[v]
  BY FreeTask DEF M!TypeOK
<1>2. task'[w].owned = FALSE /\ task[w].offset \in M!Offsets
  BY FreeTask, TaskFacts DEF M!TypeOK
<1>3. \A o \in M!Offsets : pages'[o] > 0 => pages[o] > 0 \/ o = task[w].offset
  BY DEF M!TypeOK
<1>4. \A o \in M!Offsets : Outstanding(o)' => Outstanding(o)
  BY <1>1, <1>3 DEF Outstanding
<1>5. ~AtWork(w)' /\ ~Stored(w)' /\ FetchedOK(w)'
  BY <1>1 DEF AtWork, Stored, FetchedOK
<1>6. OwnersWork'
  BY <1>1, <1>2 DEF OwnersWork
<1>7. OnDemand'
  <2> SUFFICES ASSUME ~auto
               PROVE  /\ \A o \in M!Offsets : pages'[o] = 0
                      /\ \A v, u \in Slots :
                            task'[v].step # "idle" /\ task'[u].step # "idle"
                            => v = u
                      /\ \A v \in Slots :
                            /\ task'[v].step \in {"idle", "fetch", "upsert", "mark"}
                            /\ ~task'[v].owned
                            /\ clean /\ AtWork(v)' => ~task'[v].start.disturbed
    BY DEF OnDemand
  <2>1. pages' = pages
    BY DEF OnDemand
  <2>2. \A v \in Slots \ {w} : task'[v].step = "idle"
    BY <1>1 DEF OnDemand
  <2> QED
    BY <1>1, <1>2, <2>1, <2>2 DEF OnDemand, AtWork
<1> QED
  BY <1>1, <1>4, <1>5, <1>6, <1>7, CalmMove

\* On demand, slot w goes on with the start it has.
LEMMA OnDemandKept ==
    ASSUME MembersInv, NEW w \in Slots, \A v \in Slots \ {w} : task'[v] = task[v],
           pages' = pages, auto' = auto, clean' = clean, task[w].step # "idle",
           task'[w].owned = task[w].owned,
           AtWork(w)' => AtWork(w) /\ task'[w].start = task[w].start,
           task'[w].step \in {"idle", "fetch", "upsert", "mark"} \/ auto
    PROVE  OnDemand'
  BY DEF MembersInv, MembersRest, OnDemand, AtWork

\* Members of the page of slot w are stored and stamped.
LEMMA StampStep ==
    ASSUME MembersInv, NEW w \in Slots, NEW ps, ps \subseteq task[w].page,
           ps = {} \/ task[w].step = "upsert", AtWork(w), AtWork(w)',
           visible' = visible \cup ps, UNCHANGED <<members, auto, clean>>,
           start'.seen = start.seen \cup ps,
           start'.disturbed = start.disturbed,
           \A v \in Slots : /\ task'[v].start.seen = task[v].start.seen \cup ps
                            /\ task'[v].start.disturbed = task[v].start.disturbed
                            /\ task'[v].page = task[v].page,
           \A v \in Slots \ {w} : /\ task'[v].step = task[v].step
                                  /\ task'[v].offset = task[v].offset
                                  /\ task'[v].next = task[v].next,
           auto => \A o \in M!Offsets : Outstanding(o)' => Outstanding(o),
           ~task[w].start.disturbed
           => \A o \in M!Offsets :
                 Outstanding(o)'
                 => \/ Outstanding(o)
                    \/ Prefix(o) \subseteq Prefix(task[w].offset) \cup ps,
           Stored(w)' => ps = task[w].page,
           auto => task'[w].step \notin {"publish", "mark", "complete"},
           FetchedOK(w)', OnDemand', OwnersWork'
    PROVE  MembersRest'
<1> USE DEF MembersInv, MembersRest
<1>1. \A o \in M!Offsets : Prefix(o)' = Prefix(o)
  BY DEF Prefix
<1>2. M!Range(members)' = M!Range(members)
  BY DEF M!Range
<1>3. ~task[w].start.disturbed => ps \subseteq M!Range(members)
  BY DEF PageFetched, FetchedOK
<1>4. Outstanding(task[w].offset) /\ task[w].offset \in M!Offsets
  BY TaskFacts DEF Outstanding, AtWork
<1>5. \A v \in Slots : Stored(v)' => v = w \/ Stored(v)
  BY DEF Stored
<1>6. ASSUME NEW st, NEW nt, Trusted(st), ~nt.disturbed, ~st.disturbed,
             ~task[w].start.disturbed, nt.seen = st.seen \cup ps
      PROVE  Trusted(nt)'
  <2>1. /\ Reaches(st) /\ st.seen \subseteq M!Range(members)
        /\ st.seen \subseteq visible
    BY <1>6 DEF Trusted
  <2>2. \A o \in M!Offsets : Outstanding(o)' => Prefix(o) \subseteq nt.seen
    BY <1>4, <1>6, <2>1 DEF Reaches
  <2>3. \A v \in Slots : Stored(v)' => task[v].page \subseteq nt.seen
    BY <1>5, <1>6, <2>1 DEF Reaches
  <2>4. Reaches(nt)'
    BY <1>1, <2>2, <2>3 DEF Reaches
  <2>5. nt.seen \subseteq M!Range(members)' /\ nt.seen \subseteq visible'
    BY <1>2, <1>3, <1>6, <2>1
  <2> QED
    BY <2>4, <2>5 DEF Trusted
<1>7. StartsTrusted'
  <2>1. Trusted(start)'
    <3>1. CASE start.disturbed
      BY <3>1 DEF Trusted
    <3>2. CASE ~start.disturbed
      <4>1. PICK nt : nt = start'
        OBVIOUS
      <4>2. ~task[w].start.disturbed
        BY <3>2 DEF CursorFate
      <4>3. Trusted(nt)'
        BY <1>6, <3>2, <4>1, <4>2 DEF StartsTrusted
      <4> QED
        BY <4>1, <4>3 DEF Trusted, Reaches
    <3> QED
      BY <3>1, <3>2
  <2>2. ASSUME NEW v \in Slots, AtWork(v)' PROVE Trusted(task[v].start)'
    <3>0. AtWork(v)
      BY <2>2 DEF AtWork
    <3>1. CASE task[v].start.disturbed
      BY <3>1 DEF Trusted
    <3>2. CASE ~task[v].start.disturbed
      <4>1. PICK nt : nt = task'[v].start
        OBVIOUS
      <4>2. ~task[w].start.disturbed
        BY <3>0, <3>2 DEF SameFate
      <4>3. Trusted(nt)'
        BY <1>6, <3>0, <3>2, <4>1, <4>2 DEF StartsTrusted
      <4> QED
        BY <4>1, <4>3 DEF Trusted, Reaches
    <3> QED
      BY <3>1, <3>2
  <2> QED
    BY <2>1, <2>2 DEF StartsTrusted
<1>8. \A v \in Slots : AtWork(v)' => AtWork(v)
  BY DEF AtWork
<1>9. SameFate'
  BY <1>8 DEF SameFate
<1>10. CursorFate'
  <2> SUFFICES ASSUME NEW v \in Slots, AtWork(v)'
               PROVE  /\ task'[v].start.disturbed => start'.disturbed
                      /\ auto' /\ start'.disturbed /\ ~task'[v].start.disturbed
                         => /\ \A o \in M!Offsets : Outstanding(o)' => o = 0
                            /\ task'[v].step \notin {"publish", "mark", "complete"}
    BY DEF CursorFate
  <2>1. AtWork(v)
    BY <1>8
  <2> QED
    BY <2>1 DEF CursorFate
<1>11. PageFetched'
  <2>1. ASSUME NEW v \in Slots \ {w} PROVE FetchedOK(v)'
    <3>1. FetchedOK(v)
      BY DEF PageFetched
    <3>2. /\ task'[v].step = task[v].step /\ task'[v].page = task[v].page
          /\ task'[v].offset = task[v].offset /\ task'[v].next = task[v].next
          /\ task'[v].start.disturbed = task[v].start.disturbed
          /\ task[v].start.seen \subseteq task'[v].start.seen
      OBVIOUS
    <3>3. Prefix(task[v].offset)' = Prefix(task[v].offset)
          /\ Prefix(task[v].next)' = Prefix(task[v].next)
      BY <3>2 DEF Prefix
    <3> QED
      BY <1>2, <3>1, <3>2, <3>3 DEF FetchedOK
  <2> QED
    BY <2>1 DEF PageFetched
<1>12. M!MembersSound'
  <2>1. M!MembersShown'
    BY <1>2 DEF M!MembersSound, M!MembersShown
  <2>2. M!MembersAgree'
    <3> SUFFICES ASSUME clean, ~auto PROVE visible' = M!Range(members)
      BY <1>2 DEF M!MembersAgree
    <3>1. ~task[w].start.disturbed /\ visible = M!Range(members)
      BY DEF OnDemand, M!MembersSound, M!MembersAgree
    <3> QED
      BY <1>3, <3>1
  <2> QED
    BY <2>1, <2>2 DEF M!MembersSound
<1> QED
  BY <1>7, <1>9, <1>10, <1>11, <1>12

LEMMA UpsertStep ==
    ASSUME MembersInv, NEW w \in Slots, M!Upsert(w)
    PROVE  MembersRest'
<1> USE DEF MembersInv, MembersRest
<1> DEFINE ps == task[w].page
           s == IF auto THEN "progress"
                ELSE IF task[w].next # 0 THEN "fetch" ELSE "mark"
           o1 == IF auto THEN task[w].offset ELSE task[w].next
<1>0. task[w].step = "upsert" /\ AtWork(w) /\ auto \in BOOLEAN
      /\ task[w].offset \in M!Offsets /\ task[w].next \in M!Offsets
  BY MemberFacts, TaskFacts DEF M!Upsert, AtWork
<1>1. \A v \in Slots :
          /\ task'[v].start = M!Stamped(task[v].start, ps)
          /\ task'[v].page = task[v].page /\ task'[v].next = task[v].next
          /\ task'[v].owned = task[v].owned
          /\ task'[v].step = IF v = w THEN s ELSE task[v].step
          /\ task'[v].offset = IF v = w THEN o1 ELSE task[v].offset
  <2> SUFFICES ASSUME NEW v \in Slots
               PROVE  /\ task'[v].start = M!Stamped(task[v].start, ps)
                      /\ task'[v].page = task[v].page
                      /\ task'[v].next = task[v].next
                      /\ task'[v].owned = task[v].owned
                      /\ task'[v].step = IF v = w THEN s ELSE task[v].step
                      /\ task'[v].offset = IF v = w THEN o1 ELSE task[v].offset
    OBVIOUS
  <2>1. PICK a, b, c :
            /\ a = M!Stamped(task[v].start, ps)
            /\ b = CASE v # w -> task[v].step
                     [] v = w /\ auto -> "progress"
                     [] v = w /\ ~auto /\ task[w].next # 0 -> "fetch"
                     [] OTHER -> "mark"
            /\ c = IF v = w /\ ~auto THEN task[w].next ELSE task[v].offset
    OBVIOUS
  <2>2. task'[v] = [task[v] EXCEPT !.start = a, !.step = b, !.offset = c]
    BY <2>1 DEF M!Upsert
  <2>3. task[v] \in TaskType
    BY TaskFacts
  <2>4. /\ task'[v].start = a /\ task'[v].step = b /\ task'[v].offset = c
        /\ task'[v].page = task[v].page /\ task'[v].next = task[v].next
        /\ task'[v].owned = task[v].owned
    BY <2>2, <2>3 DEF TaskType
  <2>5. b = IF v = w THEN s ELSE task[v].step
    BY <1>0, <2>1
  <2>6. c = IF v = w THEN o1 ELSE task[v].offset
    BY <1>0, <2>1
  <2> QED
    BY <2>1, <2>4, <2>5, <2>6
<1>2. task'[w].step = s /\ task'[w].offset = o1
  BY <1>1
<1>3. \A v \in Slots : /\ task'[v].start.seen = task[v].start.seen \cup ps
                       /\ task'[v].start.disturbed = task[v].start.disturbed
  BY <1>1, TaskFacts DEF M!Stamped, M!Starts
<1>4. /\ visible' = visible \cup ps /\ UNCHANGED <<members, auto, clean, pages>>
      /\ start'.seen = start.seen \cup ps /\ start'.disturbed = start.disturbed
  BY MemberFacts DEF M!Upsert, M!Stamped, M!Starts
<1> HIDE DEF ps
<1>5. \A o \in M!Offsets :
          Outstanding(o)' => Outstanding(o) \/ (~auto /\ o = task[w].next)
  BY <1>0, <1>1, <1>2, <1>4 DEF Outstanding
<1>6. ~auto /\ ~task[w].start.disturbed
      => Prefix(task[w].next) \subseteq Prefix(task[w].offset) \cup ps
  BY <1>0, PrefixZero DEF PageFetched, FetchedOK, ps
<1>7. task'[w].step \notin {"idle", "ensure", "publish", "complete"}
      /\ (auto => task'[w].step # "mark")
  BY <1>2
<1>8. FetchedOK(w)'
  <2> SUFFICES ASSUME ~task[w].start.disturbed
               PROVE  FetchedOK(w)'
    BY <1>3 DEF FetchedOK
  <2>1. FetchedOK(w)
    BY DEF PageFetched
  <2>2. M!Range(members)' = M!Range(members)
    BY <1>4 DEF M!Range
  <2>3. CASE auto
    <3>1. task'[w].step = "progress" /\ task'[w].offset = task[w].offset
      BY <1>2, <2>3
    <3>2. Prefix(task[w].offset)' = Prefix(task[w].offset)
          /\ Prefix(task[w].next)' = Prefix(task[w].next)
      BY <1>1, <1>4, <3>1 DEF Prefix
    <3> QED
      BY <1>0, <1>1, <2>1, <2>2, <3>1, <3>2 DEF FetchedOK
  <2>4. CASE ~auto /\ task[w].next = 0
    <3>1. task'[w].step = "mark"
      BY <1>2, <2>4
    <3>2. M!Range(members) \subseteq Prefix(task[w].offset) \cup ps
      BY <1>0, <2>1, <2>4 DEF FetchedOK, ps
    <3>3. Prefix(task[w].offset) \subseteq task[w].start.seen
      BY <1>0 DEF StartsTrusted, Trusted, Reaches, Outstanding
    <3> QED
      BY <1>3, <2>2, <3>1, <3>2, <3>3 DEF FetchedOK
  <2>5. CASE ~auto /\ task[w].next # 0
    BY <1>2, <2>5 DEF FetchedOK
  <2> QED
    BY <2>3, <2>4, <2>5
<1>9. OnDemand'
  <2> SUFFICES ASSUME ~auto
               PROVE  /\ \A o \in M!Offsets : pages'[o] = 0
                      /\ \A v, u \in Slots :
                            task'[v].step # "idle" /\ task'[u].step # "idle"
                            => v = u
                      /\ \A v \in Slots :
                            /\ task'[v].step \in {"idle", "fetch", "upsert", "mark"}
                            /\ ~task'[v].owned
                            /\ clean /\ AtWork(v)' => ~task'[v].start.disturbed
    BY <1>4 DEF OnDemand
  <2>1. \A v \in Slots : v # w => task[v].step = "idle"
    BY <1>0 DEF OnDemand
  <2>2. task'[w].step \in {"fetch", "mark"}
    BY <1>2
  <2> QED
    BY <1>0, <1>1, <1>3, <1>4, <2>1, <2>2 DEF OnDemand, AtWork
<1>10. OwnersWork'
  BY <1>1, <1>7 DEF OwnersWork
<1>11. AtWork(w)' /\ ps = task[w].page
  BY <1>7 DEF AtWork, ps
<1> HIDE DEF s, o1
<1> QED
  BY <1>0, <1>1, <1>3, <1>4, <1>5, <1>6, <1>7, <1>8, <1>9, <1>10, <1>11, StampStep

LEMMA FailsStep ==
    ASSUME MembersInv, NEW w \in Slots, M!Fails(w)
    PROVE  MembersRest'
<1> USE DEF MembersInv, MembersRest
<1>0. /\ auto /\ task[w].step \notin {"idle", "ensure"} /\ AtWork(w)
      /\ UNCHANGED <<auto, members, clean, pages>>
  BY DEF M!Fails, AtWork
<1>1. PICK ps \in SUBSET task[w].page :
          /\ task[w].step # "upsert" => ps = {}
          /\ visible' = visible \cup ps
          /\ start' = M!Stamped(start, ps)
          /\ task' = [v \in Slots |->
                        [task[v] EXCEPT !.start = M!Stamped(@, ps),
                                        !.step = IF v = w THEN "fail" ELSE @]]
  BY DEF M!Fails
<1>2. \A v \in Slots :
          /\ task'[v].start = M!Stamped(task[v].start, ps)
          /\ task'[v].page = task[v].page /\ task'[v].next = task[v].next
          /\ task'[v].owned = task[v].owned /\ task'[v].offset = task[v].offset
          /\ v # w => task'[v].step = task[v].step
  BY <1>1, TaskFacts DEF TaskType
<1>3. task'[w].step = "fail"
  BY <1>1, TaskFacts DEF TaskType
<1>4. \A v \in Slots : /\ task'[v].start.seen = task[v].start.seen \cup ps
                       /\ task'[v].start.disturbed = task[v].start.disturbed
  BY <1>2, TaskFacts DEF M!Stamped, M!Starts
<1>5. start'.seen = start.seen \cup ps /\ start'.disturbed = start.disturbed
  BY <1>1, MemberFacts DEF M!Stamped, M!Starts
<1>6. \A o \in M!Offsets : Outstanding(o)' => Outstanding(o)
  BY <1>0, <1>2, <1>3 DEF Outstanding
<1>7. FetchedOK(w)' /\ AtWork(w)' /\ ~Stored(w)'
  BY <1>3 DEF FetchedOK, AtWork, Stored
<1>8. OnDemand' /\ OwnersWork'
  BY <1>0, <1>2, <1>3 DEF OnDemand, OwnersWork
<1>9. /\ ps \subseteq task[w].page /\ (ps = {} \/ task[w].step = "upsert")
      /\ visible' = visible \cup ps
      /\ task'[w].step \notin {"publish", "mark", "complete"}
  BY <1>1, <1>3
<1>10. \A v \in Slots \ {w} : /\ task'[v].step = task[v].step
                              /\ task'[v].offset = task[v].offset
                              /\ task'[v].next = task[v].next
  BY <1>2
<1>11. \A v \in Slots : /\ task'[v].start.seen = task[v].start.seen \cup ps
                        /\ task'[v].start.disturbed = task[v].start.disturbed
                        /\ task'[v].page = task[v].page
  BY <1>2, <1>4
<1> QED
  BY <1>0, <1>5, <1>6, <1>7, <1>8, <1>9, <1>10, <1>11, StampStep

LEMMA ChangeStep ==
    ASSUME MembersInv, NEW p \in People, M!Change(p)
    PROVE  MembersRest'
<1> USE DEF MembersInv, MembersRest
<1>1. \A v \in Slots :
          /\ task'[v].step = task[v].step /\ task'[v].owned = task[v].owned
          /\ task'[v].start = M!Disturbed(task[v].start, TRUE)
  BY TaskFacts DEF M!Change, TaskType
<1>2. \A v \in Slots : task'[v].start.disturbed
  BY <1>1, TaskFacts DEF M!Disturbed, M!Starts
<1>3. start'.disturbed
  BY MemberFacts DEF M!Change, M!Disturbed, M!Starts
<1>4. clean' = FALSE /\ auto' = auto /\ pages' = pages
  BY DEF M!Change
<1>5. M!MembersSound'
  BY <1>4 DEF M!MembersSound, M!MembersShown, M!MembersAgree
<1>6. OnDemand' /\ OwnersWork'
  BY <1>1, <1>4 DEF OnDemand, OwnersWork
<1> QED
  BY <1>2, <1>3, <1>5, <1>6, AllDisturbed

\* Slot w begins a snapshot, alone.
LEMMA BeginStep ==
    ASSUME MembersInv, NEW w \in Slots,
           \A v \in Slots \ {w} : task'[v].step = "idle" /\ ~task'[v].owned,
           \A o \in M!Offsets : pages'[o] = 0,
           task'[w].step \in {"acquire", "fetch"}, task'[w].offset = 0,
           task'[w].start = M!Now,
           auto' \/ (task'[w].step = "fetch" /\ ~task'[w].owned),
           UNCHANGED <<auto, members, visible, start, clean>>
    PROVE  MembersRest'
<1> USE DEF MembersInv, MembersRest
<1>1. \A o \in M!Offsets : Outstanding(o)' => o = 0
  BY DEF Outstanding
<1>2. \A v \in Slots : ~Stored(v)' /\ (AtWork(v)' => v = w)
  BY DEF Stored, AtWork
<1>3. Prefix(0)' = {}
  BY PrefixZero DEF Prefix
<1>4. /\ M!Now.seen = {} /\ M!Now.disturbed = FALSE
      /\ M!Range(members)' = M!Range(members)
  BY FreeTask DEF M!Range
<1>5. Trusted(M!Now)'
  BY <1>1, <1>2, <1>3, <1>4 DEF Trusted, Reaches
<1>6. Trusted(start)'
  BY <1>1, <1>2, <1>3, <1>4 DEF StartsTrusted, Trusted, Reaches
<1>7. Trusted(task[w].start)'
  BY <1>5 DEF Trusted, Reaches
<1>8. StartsTrusted'
  BY <1>2, <1>6, <1>7 DEF StartsTrusted
<1>9. SameFate'
  BY <1>2, <1>4 DEF SameFate
<1>10. CursorFate'
  BY <1>1, <1>2, <1>4 DEF CursorFate
<1>11. PageFetched'
  BY <1>2 DEF PageFetched, FetchedOK, AtWork
<1>12. OnDemand'
  BY <1>2, <1>4 DEF OnDemand, AtWork
<1>13. OwnersWork'
  BY DEF OwnersWork
<1>14. M!MembersSound'
  BY <1>4 DEF M!MembersSound, M!MembersShown, M!MembersAgree
<1> QED
  BY <1>8, <1>9, <1>10, <1>11, <1>12, <1>13, <1>14

LEMMA RequestStep ==
    ASSUME MembersInv, NEW w \in Slots, M!Request(w)
    PROVE  MembersRest'
<1> USE DEF MembersInv, MembersRest
<1>1. /\ ~auto /\ \A v \in Slots : task[v].step = "idle"
      /\ UNCHANGED <<auto, members, visible, start, clean, pages>>
  BY DEF M!Request, M!Turn
<1>2. \A v \in Slots \ {w} : task'[v] = task[v]
  BY DEF M!Request, M!TypeOK
<1>3. task'[w] = [M!Free EXCEPT !.step = "fetch"]
  BY DEF M!Request, M!TypeOK
<1>4. task'[w].step = "fetch" /\ ~task'[w].owned /\ task'[w].offset = 0
      /\ task'[w].start = M!Now
  BY <1>3, FreeTask DEF TaskType
<1>5. \A v \in Slots \ {w} : task'[v].step = "idle" /\ ~task'[v].owned
  BY <1>1, <1>2 DEF OwnersWork
<1>6. \A o \in M!Offsets : pages'[o] = 0
  BY <1>1 DEF OnDemand
<1> QED
  BY <1>1, <1>4, <1>5, <1>6, BeginStep

LEMMA EnsureStep ==
    ASSUME MembersInv, NEW w \in Slots, M!Ensure(w)
    PROVE  MembersRest'
<1> USE DEF MembersInv, MembersRest
<1> DEFINE b == M!Overlaps(w)
<1>1. /\ task[w].step = "ensure" /\ auto
      /\ UNCHANGED <<auto, members, visible, held, lapsed, pages, published,
                     clean>>
  BY DEF M!Ensure, OnDemand
<1>2. b \in BOOLEAN
  BY DEF M!Overlaps
<1>3. start' = M!Disturbed(start, b)
  BY DEF M!Ensure
<1>4. ASSUME NEW v \in Slots
      PROVE  /\ task'[v].page = task[v].page /\ task'[v].next = task[v].next
             /\ task'[v].owned = task[v].owned
             /\ task'[v].offset = task[v].offset
             /\ task'[v].step = IF v = w THEN "acquire" ELSE task[v].step
             /\ task'[v].start = M!Disturbed(IF v = w THEN M!StartOf(task[w].offset)
                                             ELSE task[v].start, b)
  <2>1. PICK x, y :
            /\ x = IF v = w THEN "acquire" ELSE task[v].step
            /\ y = M!Disturbed(IF v = w THEN M!StartOf(task[w].offset)
                               ELSE task[v].start, b)
    OBVIOUS
  <2>2. task'[v] = [task[v] EXCEPT !.step = x, !.start = y]
    BY <2>1 DEF M!Ensure
  <2>3. /\ task'[v].page = task[v].page /\ task'[v].next = task[v].next
        /\ task'[v].owned = task[v].owned /\ task'[v].offset = task[v].offset
        /\ task'[v].step = x /\ task'[v].start = y
    BY <2>2, TaskFacts DEF TaskType
  <2> QED
    BY <2>1, <2>3
<1>5. M!StartOf(task[w].offset) \in M!Starts
  BY FreeTask, MemberFacts DEF M!StartOf
<1>6. \A v \in Slots \ {w} : task'[v].step = task[v].step
  BY <1>4
<1>7. task'[w].step = "acquire"
  BY <1>4
<1>8. OnDemand' /\ OwnersWork'
  BY <1>1, <1>4, <1>6, <1>7 DEF OnDemand, OwnersWork
<1>9. M!MembersSound'
  BY <1>1 DEF M!MembersSound, M!MembersShown, M!MembersAgree, M!Range
<1>10. CASE b
  <2>1. start'.disturbed
    BY <1>3, <1>10, MemberFacts DEF M!Disturbed, M!Starts
  <2>2. ASSUME NEW v \in Slots PROVE task'[v].start.disturbed
    <3>1. PICK y \in M!Starts : y = IF v = w THEN M!StartOf(task[w].offset)
                                    ELSE task[v].start
      BY <1>5, TaskFacts
    <3>2. task'[v].start = M!Disturbed(y, b)
      BY <1>4, <3>1
    <3> HIDE DEF b
    <3> QED
      BY <1>10, <3>2 DEF M!Disturbed, M!Starts
  <2> QED
    BY <1>8, <1>9, <2>1, <2>2, AllDisturbed
<1>11. CASE ~b
  <2> HIDE DEF b
  <2>1. \A st \in M!Starts : M!Disturbed(st, b) = st
    <3> SUFFICES ASSUME NEW st \in M!Starts PROVE M!Disturbed(st, b) = st
      OBVIOUS
    <3>1. M!Disturbed(st, b).seen = st.seen
      BY DEF M!Disturbed, M!Starts
    <3>2. M!Disturbed(st, b).disturbed = st.disturbed
      BY <1>11 DEF M!Disturbed, M!Starts
    <3>3. M!Disturbed(st, b) \in M!Starts
      BY <1>2 DEF M!Disturbed, M!Starts
    <3> QED
      BY <3>1, <3>2, <3>3 DEF M!Starts
  <2>2. start' = start
    BY <1>3, <2>1, MemberFacts
  <2>3. task'[w].start = M!StartOf(task[w].offset)
    BY <1>4, <1>5, <2>1
  <2>4. \A v \in Slots \ {w} : task'[v].start = task[v].start
    BY <1>4, <2>1, TaskFacts
  <2>5. CASE task[w].offset = 0
    <3>1. /\ \A o \in M!Offsets : ~(pages[o] > 0)
          /\ \A v \in Slots \ {w} : task[v].step = "idle"
      BY <1>11, <2>5 DEF M!Overlaps, b
    <3>2. \A o \in M!Offsets : pages'[o] = 0
      BY <1>1, <3>1, MemberFacts
    <3>3. \A v \in Slots \ {w} : task'[v].step = "idle" /\ ~task'[v].owned
      BY <1>4, <1>6, <3>1 DEF OwnersWork
    <3>4. task'[w].start = M!Now /\ task'[w].offset = 0
      BY <1>4, <2>3, <2>5 DEF M!StartOf
    <3>5. UNCHANGED <<auto, members, visible, start, clean>>
      BY <1>1, <2>2
    <3> QED
      BY <1>1, <1>7, <3>2, <3>3, <3>4, <3>5, BeginStep
  <2>6. CASE task[w].offset # 0
    <3>1. task'[w].start = start
      BY <2>3, <2>6 DEF M!StartOf
    <3>2. \A o \in M!Offsets : Outstanding(o)' => Outstanding(o)
      BY <1>1, <1>4, <1>6, <1>7 DEF Outstanding
    <3>3. \A v \in Slots :
              /\ Stored(v)' => Stored(v) /\ task'[v].page = task[v].page
              /\ AtWork(v)' => v = w \/ AtWork(v)
      BY <1>4, <1>6, <1>7 DEF Stored, AtWork
    <3>4. \A o \in M!Offsets : Prefix(o)' = Prefix(o)
      BY <1>1 DEF Prefix
    <3>5. ASSUME NEW st, Trusted(st) PROVE Trusted(st)'
      <4>1. Reaches(st) => Reaches(st)'
        BY <3>2, <3>3, <3>4 DEF Reaches
      <4> QED
        BY <1>1, <3>5, <4>1 DEF Trusted, M!Range
    <3>6. Trusted(start)'
      <4>1. PICK st : st = start
        OBVIOUS
      <4>2. Trusted(st)' /\ start' = st
        BY <2>2, <3>5, <4>1 DEF StartsTrusted
      <4> QED
        BY <4>2 DEF Trusted, Reaches
    <3>7. ASSUME NEW v \in Slots, AtWork(v)' PROVE Trusted(task[v].start)'
      <4>1. PICK st : st = IF v = w THEN start ELSE task[v].start
        OBVIOUS
      <4>2. Trusted(st)
        BY <3>3, <3>7, <4>1 DEF StartsTrusted
      <4>3. Trusted(st)' /\ task'[v].start = st
        BY <2>4, <3>1, <3>5, <4>1, <4>2
      <4> QED
        BY <4>3 DEF Trusted, Reaches
    <3>8. Outstanding(task[w].offset) /\ task[w].offset \in M!Offsets
      BY <1>1, TaskFacts DEF Outstanding
    <3>9. \A v \in Slots :
              AtWork(v) /\ start.disturbed => task[v].start.disturbed
      BY <1>1, <2>6, <3>8 DEF CursorFate
    <3>10. SameFate'
      <4> SUFFICES ASSUME NEW v \in Slots, NEW u \in Slots, AtWork(v)', AtWork(u)',
                          task'[v].start.disturbed
                   PROVE  task'[u].start.disturbed
        BY DEF SameFate
      <4>1. start.disturbed \/ (v # w /\ u # w)
        BY <2>4, <3>1, <3>3 DEF CursorFate
      <4> QED
        BY <2>4, <3>1, <3>3, <3>9, <4>1 DEF SameFate
    <3>11. CursorFate'
      <4> SUFFICES ASSUME NEW v \in Slots, AtWork(v)'
                   PROVE  /\ task'[v].start.disturbed => start'.disturbed
                          /\ ~(start'.disturbed /\ ~task'[v].start.disturbed)
        BY DEF CursorFate
      <4>1. CASE v = w
        BY <2>2, <3>1, <4>1
      <4>2. CASE v # w
        BY <2>2, <2>4, <3>3, <3>9, <4>2 DEF CursorFate
      <4> QED
        BY <4>1, <4>2
    <3>12. PageFetched'
      <4>1. ASSUME NEW v \in Slots \ {w} PROVE FetchedOK(v)'
        <5>1. FetchedOK(v)
          BY DEF PageFetched
        <5>2. /\ task'[v].step = task[v].step /\ task'[v].page = task[v].page
              /\ task'[v].offset = task[v].offset /\ task'[v].next = task[v].next
              /\ task'[v].start = task[v].start
          BY <1>4, <1>6, <2>4
        <5>3. Prefix(task[v].offset)' = Prefix(task[v].offset)
              /\ Prefix(task[v].next)' = Prefix(task[v].next)
              /\ M!Range(members)' = M!Range(members)
          BY <1>1, <5>2 DEF Prefix, M!Range
        <5> QED
          BY <5>1, <5>2, <5>3 DEF FetchedOK
      <4>2. FetchedOK(w)'
        BY <1>7 DEF FetchedOK
      <4> QED
        BY <4>1, <4>2 DEF PageFetched
    <3>13. StartsTrusted'
      BY <3>6, <3>7 DEF StartsTrusted
    <3> QED
      BY <1>8, <1>9, <3>10, <3>11, <3>12, <3>13
  <2> QED
    BY <2>5, <2>6
<1> QED
  BY <1>2, <1>10, <1>11

LEMMA TakeStep ==
    ASSUME MembersInv, NEW w \in Slots, NEW o \in M!Offsets, M!Take(w, o)
    PROVE  MembersRest'
<1> USE DEF MembersInv, MembersRest
<1>1. /\ task[w].step = "idle" /\ pages[o] > 0
      /\ UNCHANGED <<auto, members, visible, start, clean>>
  BY DEF M!Take
<1>2. \A v \in Slots \ {w} : task'[v] = task[v]
  BY DEF M!Take, M!TypeOK
<1>3. task'[w] = [M!Free EXCEPT !.step = "ensure", !.owned = TRUE, !.offset = o]
  BY DEF M!Take, M!TypeOK
<1>4. task'[w].step = "ensure" /\ task'[w].owned = TRUE /\ task'[w].offset = o
  BY <1>3, FreeTask DEF TaskType
<1>5. \A q \in M!Offsets : pages'[q] > 0 => pages[q] > 0
  BY <1>1 DEF M!Take, M!TypeOK
<1>6. \A q \in M!Offsets : Outstanding(q)' => Outstanding(q)
  BY <1>1, <1>2, <1>4, <1>5 DEF Outstanding
<1>7. ~AtWork(w)' /\ ~Stored(w)' /\ FetchedOK(w)'
      /\ task'[w].step \notin {"publish", "mark", "complete"}
  BY <1>4 DEF AtWork, Stored, FetchedOK
<1>8. auto
  BY <1>1, MemberFacts DEF OnDemand
<1>9. OnDemand' /\ OwnersWork'
  BY <1>1, <1>2, <1>4, <1>8 DEF OnDemand, OwnersWork
<1> QED
  BY <1>1, <1>2, <1>6, <1>7, <1>9, CalmMove

\* Nothing that a slot knows changes, and at most the first page is queued.
LEMMA OutsideStep ==
    ASSUME MembersInv, UNCHANGED <<auto, members, visible, start, task, clean>>,
           auto \/ pages' = pages,
           \A o \in M!Offsets : pages'[o] > 0 => pages[o] > 0 \/ o = 0
    PROVE  MembersRest'
<1> USE DEF MembersInv, MembersRest
<1>1. \A o \in M!Offsets : Outstanding(o)' => Outstanding(o) \/ o = 0
  BY DEF Outstanding
<1>2. OnDemand' /\ OwnersWork'
  BY DEF OnDemand, OwnersWork, AtWork
<1>3. None \notin Slots /\ \A v \in Slots \ {None} : task'[v] = task[v]
  BY MemberFacts
<1> QED
  BY <1>1, <1>2, <1>3, CalmMove

LEMMA EnqueueStep ==
    ASSUME MembersInv, M!Enqueue
    PROVE  MembersRest'
<1> USE DEF MembersInv
<1>1. \A o \in M!Offsets : pages'[o] > 0 => pages[o] > 0 \/ o = 0
  BY MemberFacts DEF M!Enqueue, M!Published, M!TypeOK
<1> QED
  BY <1>1, OutsideStep DEF M!Enqueue

LEMMA RedeliverStep ==
    ASSUME MembersInv, NEW w \in Slots, M!Redeliver(w)
    PROVE  MembersRest'
<1> USE DEF MembersInv, MembersRest
<1>1. /\ task[w].owned /\ task[w].step # "idle"
      /\ UNCHANGED <<auto, members, visible, start, clean>>
  BY DEF M!Redeliver, OwnersWork
<1>2. auto
  BY <1>1 DEF OnDemand
<1>3. /\ \A v \in Slots \ {w} : task'[v] = task[v]
      /\ task'[w].step = task[w].step /\ task'[w].offset = task[w].offset
      /\ task'[w].page = task[w].page /\ task'[w].next = task[w].next
      /\ task'[w].start = task[w].start /\ task'[w].owned = FALSE
  BY DEF M!Redeliver, M!TypeOK
<1>4. \A o \in M!Offsets : pages'[o] > 0 => pages[o] > 0 \/ o = task[w].offset
  BY DEF M!Redeliver, M!TypeOK
<1>5. \A o \in M!Offsets : Outstanding(o)' => Outstanding(o)
  BY <1>1, <1>3, <1>4 DEF Outstanding
<1>6. OnDemand' /\ OwnersWork'
  BY <1>1, <1>2, <1>3 DEF OnDemand, OwnersWork
<1>7. FetchedOK(w)'
  <2>1. FetchedOK(w)
    BY DEF PageFetched
  <2>2. Prefix(task[w].offset)' = Prefix(task[w].offset)
        /\ Prefix(task[w].next)' = Prefix(task[w].next)
        /\ M!Range(members)' = M!Range(members)
    BY <1>1, <1>3 DEF Prefix, M!Range
  <2> QED
    BY <1>3, <2>1, <2>2 DEF FetchedOK
<1>8. AtWork(w)' => AtWork(w)
  BY <1>3 DEF AtWork
<1>9. Stored(w)' => Stored(w)
  BY <1>3 DEF Stored
<1> QED
  BY <1>1, <1>3, <1>5, <1>6, <1>7, <1>8, <1>9, CalmMove

\* A slot gives its job back, or loses it.
LEMMA ReturnStep ==
    ASSUME MembersInv, NEW w \in Slots, task[w].step # "idle",
           \/ M!Returned(w)
           \/ task' = [task EXCEPT ![w] = M!Free] /\ pages' = pages,
           UNCHANGED <<auto, members, visible, start, clean>>
    PROVE  MembersRest'
<1>1. task' = [task EXCEPT ![w] = M!Free]
  BY DEF M!Returned
<1>2. \/ pages' = pages
      \/ task[w].owned /\ pages' = [pages EXCEPT ![task[w].offset] = @ + 1]
  BY DEF M!Returned
<1> QED
  BY <1>1, <1>2, EndStep

\* A slot goes on to a step that needs no page.
LEMMA MoveStep ==
    ASSUME MembersInv, NEW w \in Slots, NEW s \in {"fetch", "fail", "reject"},
           AtWork(w), M!To(w, s), auto, pages' = pages,
           UNCHANGED <<auto, members, visible, start, clean>>
    PROVE  MembersRest'
<1> USE DEF MembersInv, MembersRest
<1>1. s \in M!Steps
  BY DEF M!Steps
<1>2. /\ task'[w].step = s /\ task'[w].owned = task[w].owned
      /\ task'[w].offset = task[w].offset /\ task'[w].start = task[w].start
      /\ \A v \in Slots \ {w} : task'[v] = task[v]
  BY <1>1, TaskTo
<1>3. task[w].step # "idle" /\ task'[w].step # "idle"
  BY <1>2 DEF AtWork
<1>4. \A o \in M!Offsets : Outstanding(o)' = Outstanding(o)
  BY <1>2, <1>3, SamePages
<1>5. ~Stored(w)' /\ FetchedOK(w)'
      /\ task'[w].step \notin {"publish", "mark", "complete"}
  BY <1>2 DEF Stored, FetchedOK
<1>6. OnDemand' /\ OwnersWork'
  BY <1>2, <1>3 DEF OnDemand, OwnersWork
<1> QED
  BY <1>2, <1>4, <1>5, <1>6, CalmMove

LEMMA AcquireStep ==
    ASSUME MembersInv, NEW w \in Slots, M!Acquire(w)
    PROVE  MembersRest'
<1> USE DEF MembersInv, MembersRest
<1>1. /\ task[w].step = "acquire" /\ auto
      /\ UNCHANGED <<auto, members, visible, start, clean>>
  BY DEF M!Acquire, OnDemand
<1>2. CASE M!To(w, "fetch") /\ UNCHANGED pages
  BY <1>1, <1>2, MoveStep DEF AtWork
<1>3. CASE M!Returned(w)
  BY <1>1, <1>3, ReturnStep
<1> QED
  BY <1>2, <1>3 DEF M!Acquire

\* A page of the list: what follows offset o, as far as e.
LEMMA PageOf ==
    ASSUME M!TypeOK, NEW o \in Nat, NEW e \in Nat, e <= Len(members), NEW page,
           page = SubSeq(members, o + 1, e)
    PROVE  /\ Len(page) = IF o < e THEN e - o ELSE 0
           /\ M!Range(page)
              = {members[i] : i \in {k \in DOMAIN members : o < k /\ k <= e}}
           /\ page = <<>> => e <= o
           /\ page \in Seq(People)
<1>1. /\ members \in Seq(People) /\ Len(members) \in Nat
      /\ DOMAIN members = 1..Len(members)
  BY MemberFacts
<1>2. /\ SubSeq(members, o + 1, e) \in Seq(People)
      /\ Len(SubSeq(members, o + 1, e)) = IF o + 1 <= e THEN e - (o + 1) + 1 ELSE 0
      /\ \A i \in 1..e - (o + 1) + 1 :
            SubSeq(members, o + 1, e)[i] = members[(o + 1) + i - 1]
  BY <1>1, SubSeqProperties
<1>3. /\ page \in Seq(People) /\ Len(page) = IF o < e THEN e - o ELSE 0
      /\ DOMAIN page = 1..Len(page)
      /\ \A i \in 1..(e - o) : page[i] = members[o + i]
  BY <1>2
<1>4. M!Range(page)
      \subseteq {members[i] : i \in {k \in DOMAIN members : o < k /\ k <= e}}
  <2> SUFFICES ASSUME NEW i \in DOMAIN page
               PROVE  \E k \in DOMAIN members :
                         o < k /\ k <= e /\ page[i] = members[k]
    BY DEF M!Range
  <2>1. /\ o + i \in DOMAIN members /\ o < o + i /\ o + i <= e
        /\ page[i] = members[o + i]
    BY <1>1, <1>3
  <2> QED
    BY <2>1
<1>5. {members[i] : i \in {k \in DOMAIN members : o < k /\ k <= e}}
      \subseteq M!Range(page)
  <2> SUFFICES ASSUME NEW k \in DOMAIN members, o < k, k <= e
               PROVE  members[k] \in M!Range(page)
    OBVIOUS
  <2>1. k \in Nat /\ k - o \in 1..(e - o) /\ o + (k - o) = k
    BY <1>1
  <2>2. Len(page) = e - o
    BY <1>3, <2>1
  <2>3. k - o \in DOMAIN page /\ page[k - o] = members[k]
    BY <1>3, <2>1, <2>2
  <2> QED
    BY <2>3 DEF M!Range
<1>6. page = <<>> => e <= o
  BY <1>3
<1> QED
  BY <1>3, <1>4, <1>5, <1>6

\* What Fetch stores in its slot.
LEMMA FetchFacts ==
    ASSUME M!TypeOK, NEW w \in Slots, M!Fetch(w)
    PROVE  /\ task'[w].step = "upsert" /\ task'[w].owned = task[w].owned
           /\ task'[w].offset = task[w].offset /\ task'[w].start = task[w].start
           /\ \A v \in Slots \ {w} : task'[v] = task[v]
           /\ task'[w].page \subseteq M!Range(members)
           /\ task'[w].next \in M!Offsets
           /\ IF task'[w].next = 0
              THEN M!Range(members)
                   \subseteq Prefix(task[w].offset) \cup task'[w].page
              ELSE Prefix(task'[w].next)
                   \subseteq Prefix(task[w].offset) \cup task'[w].page
           /\ task' \in [Slots -> TaskType]
<1>1. PICK o \in Nat : o = task[w].offset
  BY MemberFacts, TaskFacts DEF M!Offsets
<1>2. PICK L \in Nat : L = Len(members)
  BY MemberFacts
<1>3. /\ DOMAIN members = 1..L /\ L <= MaxMembers /\ MaxMembers \in Nat
      /\ M!Range(members) \subseteq People
  BY <1>2, MemberFacts
<1>4. PICK e \in Nat : /\ e = IF o + PageSize < L THEN o + PageSize ELSE L
                       /\ e <= L /\ (e <= o => L <= o)
  <2>1. PICK q \in Nat : q = PageSize /\ q > 0
    BY MemberFacts
  <2>2. CASE o + q < L
    BY <2>1, <2>2
  <2>3. CASE ~(o + q < L)
    BY <2>1, <2>3
  <2> QED
    BY <2>2, <2>3
<1>5. PICK page : page = SubSeq(members, o + 1, e)
  OBVIOUS
<1>6. PICK n : n = IF page # <<>> /\ o + Len(page) < L
                   THEN o + Len(page) ELSE 0
  OBVIOUS
<1>7. task' = [task EXCEPT ![w].step = "upsert", ![w].page = M!Range(page),
                           ![w].next = n]
  BY <1>1, <1>2, <1>4, <1>5, <1>6 DEF M!Fetch
<1>8. /\ Len(page) = IF o < e THEN e - o ELSE 0
      /\ M!Range(page)
         = {members[i] : i \in {k \in DOMAIN members : o < k /\ k <= e}}
      /\ page = <<>> => e <= o
  <2>1. e <= Len(members)
    BY <1>2, <1>4
  <2> QED
    BY <1>5, <2>1, PageOf
<1>9. \/ n = 0 /\ (L <= o \/ e = L)
      \/ n = e /\ n # 0
  <2>1. CASE page = <<>> \/ e <= o
    BY <1>4, <1>6, <1>8, <2>1
  <2>2. CASE page # <<>> /\ ~(e <= o)
    <3>1. o + Len(page) = e
      BY <1>8, <2>2
    <3> QED
      BY <1>4, <1>6, <2>2, <3>1
  <2> QED
    BY <2>1, <2>2
<1>10. n \in M!Offsets
  BY <1>3, <1>4, <1>9 DEF M!Offsets
<1>11. M!Range(page) \subseteq M!Range(members)
  BY <1>8 DEF M!Range
<1>12. n = 0 => M!Range(members) \subseteq Prefix(o) \cup M!Range(page)
  BY <1>3, <1>8, <1>9 DEF M!Range, Prefix
<1>13. n # 0 => Prefix(n) \subseteq Prefix(o) \cup M!Range(page)
  BY <1>3, <1>8, <1>9 DEF Prefix
<1>14. PICK P : P = M!Range(page)
  OBVIOUS
<1>15. /\ task'[w].step = "upsert" /\ task'[w].owned = task[w].owned
       /\ task'[w].offset = task[w].offset /\ task'[w].start = task[w].start
       /\ task'[w].page = P /\ task'[w].next = n
       /\ \A v \in Slots \ {w} : task'[v] = task[v]
  BY <1>7, <1>14 DEF M!TypeOK
<1>16. P \subseteq People /\ "upsert" \in M!Steps
  BY <1>3, <1>11, <1>14 DEF M!Steps
<1>17. task \in [Slots -> TaskType]
  BY DEF M!TypeOK, TaskType
<1>18. [task[w] EXCEPT !.step = "upsert", !.page = P, !.next = n] \in TaskType
  BY <1>10, <1>16, <1>17 DEF TaskType
<1>19. task' = [task EXCEPT ![w] = [task[w] EXCEPT !.step = "upsert", !.page = P,
                                                   !.next = n]]
  BY <1>7, <1>14, <1>17
<1>20. task' \in [Slots -> TaskType]
  BY <1>17, <1>18, <1>19
<1> QED
  BY <1>1, <1>10, <1>11, <1>12, <1>13, <1>14, <1>15, <1>20

LEMMA FetchStep ==
    ASSUME MembersInv, NEW w \in Slots, M!Fetch(w)
    PROVE  MembersRest'
<1> USE DEF MembersInv, MembersRest
<1>1. /\ task[w].step = "fetch" /\ AtWork(w)
      /\ UNCHANGED <<auto, members, visible, start, pages, clean>>
  BY DEF M!Fetch, AtWork
<1>2. /\ task'[w].step = "upsert" /\ task'[w].owned = task[w].owned
      /\ task'[w].offset = task[w].offset /\ task'[w].start = task[w].start
      /\ \A v \in Slots \ {w} : task'[v] = task[v]
  BY FetchFacts
<1>3. \A o \in M!Offsets : Outstanding(o)' = Outstanding(o)
  BY <1>1, <1>2, SamePages
<1>4. FetchedOK(w)'
  <2>1. PICK n : n = task'[w].next
    OBVIOUS
  <2>2. PICK o : o = task[w].offset
    OBVIOUS
  <2>3. Prefix(o)' = Prefix(o) /\ Prefix(n)' = Prefix(n)
        /\ M!Range(members)' = M!Range(members)
    BY <1>1 DEF Prefix, M!Range
  <2>4. /\ task'[w].page \subseteq M!Range(members)'
        /\ IF n = 0
           THEN M!Range(members)' \subseteq Prefix(o)' \cup task'[w].page
           ELSE Prefix(n)' \subseteq Prefix(o)' \cup task'[w].page
    BY <2>1, <2>2, <2>3, FetchFacts
  <2>5. Prefix(task[w].offset)' = Prefix(o)' /\ Prefix(task[w].next)' = Prefix(n)'
    BY <1>2, <2>1, <2>2 DEF Prefix
  <2> QED
    BY <1>2, <2>1, <2>4, <2>5 DEF FetchedOK
<1>5. OnDemand'
  BY <1>1, <1>2, OnDemandKept
<1>6. OwnersWork'
  BY <1>1, <1>2 DEF OwnersWork
<1>7. ~Stored(w)' /\ task'[w].step \notin {"publish", "mark", "complete"}
  BY <1>2 DEF Stored
<1> QED
  BY <1>1, <1>2, <1>3, <1>4, <1>5, <1>6, <1>7, CalmMove

LEMMA ProgressStep ==
    ASSUME MembersInv, NEW w \in Slots, M!Progress(w)
    PROVE  MembersRest'
<1> USE DEF MembersInv, MembersRest
<1>1. /\ task[w].step = "progress" /\ auto /\ AtWork(w) /\ Stored(w)
      /\ UNCHANGED <<auto, members, visible, pages, clean>>
  BY DEF M!Progress, OnDemand, AtWork, Stored
<1>2. CASE M!To(w, "fail") /\ UNCHANGED start
  <2>1. UNCHANGED <<auto, members, visible, start, clean>>
    BY <1>1, <1>2
  <2> QED
    BY <1>1, <1>2, <2>1, MoveStep
<1>3. CASE /\ start' = task[w].start
           /\ M!To(w, IF task[w].next = 0 THEN "mark" ELSE "publish")
  <2>1. PICK s \in {"mark", "publish"} :
            s = IF task[w].next = 0 THEN "mark" ELSE "publish"
    OBVIOUS
  <2>2. s \in M!Steps /\ M!To(w, s)
    BY <1>3, <2>1 DEF M!Steps
  <2>3. /\ task'[w].step = s /\ task'[w].owned = task[w].owned
        /\ task'[w].offset = task[w].offset /\ task'[w].page = task[w].page
        /\ task'[w].next = task[w].next /\ task'[w].start = task[w].start
        /\ \A v \in Slots \ {w} : task'[v] = task[v]
    BY <2>2, TaskTo
  <2>4. task[w].step # "idle" /\ task'[w].step # "idle"
    BY <1>1, <2>3
  <2>5. \A o \in M!Offsets : Outstanding(o)' = Outstanding(o)
    BY <1>1, <2>3, <2>4, SamePages
  <2>6. \A v \in Slots : /\ task'[v].start = task[v].start
                         /\ AtWork(v)' => AtWork(v)
                         /\ Stored(v)' => Stored(v) /\ task'[v].page = task[v].page
    BY <1>1, <2>3 DEF AtWork, Stored
  <2>7. \A o \in M!Offsets : Prefix(o)' = Prefix(o)
    BY <1>1 DEF Prefix
  <2>8. ASSUME NEW st, Trusted(st) PROVE Trusted(st)'
    <3>1. Reaches(st) => Reaches(st)'
      BY <2>5, <2>6, <2>7 DEF Reaches
    <3> QED
      BY <1>1, <2>8, <3>1 DEF Trusted, M!Range
  <2>9. ASSUME NEW v \in Slots, AtWork(v)' PROVE Trusted(task[v].start)'
    <3>1. PICK st : st = task[v].start
      OBVIOUS
    <3>2. Trusted(st)' /\ task'[v].start = st
      BY <2>6, <2>8, <2>9, <3>1 DEF StartsTrusted
    <3> QED
      BY <3>2 DEF Trusted, Reaches
  <2>10. Trusted(start)'
    <3>1. PICK st : st = task[w].start
      OBVIOUS
    <3>2. Trusted(st)' /\ start' = st
      BY <1>1, <1>3, <2>8, <3>1 DEF StartsTrusted
    <3> QED
      BY <3>2 DEF Trusted, Reaches
  <2>11. SameFate'
    BY <2>6 DEF SameFate
  <2>12. CursorFate'
    <3> SUFFICES ASSUME NEW v \in Slots, AtWork(v)'
                 PROVE  /\ task'[v].start.disturbed => start'.disturbed
                        /\ ~(start'.disturbed /\ ~task'[v].start.disturbed)
      BY DEF CursorFate
    <3>1. AtWork(v) /\ task'[v].start = task[v].start
      BY <2>6
    <3> QED
      BY <1>1, <1>3, <3>1 DEF SameFate
  <2>13. PageFetched'
    <3>1. ASSUME NEW v \in Slots \ {w} PROVE FetchedOK(v)'
      BY <1>1, <2>3 DEF PageFetched, FetchedOK, M!Range, Prefix
    <3>2. FetchedOK(w)'
      <4> SUFFICES ASSUME ~task[w].start.disturbed PROVE FetchedOK(w)'
        BY <2>3 DEF FetchedOK
      <4>1. FetchedOK(w)
        BY DEF PageFetched
      <4>2. Prefix(task[w].offset)' = Prefix(task[w].offset)
            /\ Prefix(task[w].next)' = Prefix(task[w].next)
            /\ M!Range(members)' = M!Range(members)
        BY <1>1, <2>3 DEF Prefix, M!Range
      <4>3. CASE s = "publish"
        BY <1>1, <2>3, <4>1, <4>2, <4>3 DEF FetchedOK
      <4>4. CASE s = "mark"
        <5>1. task[w].next = 0
          BY <2>1, <4>4
        <5>2. M!Range(members) \subseteq Prefix(task[w].offset) \cup task[w].page
          BY <1>1, <4>1, <5>1 DEF FetchedOK
        <5>3. task[w].offset \in M!Offsets /\ Outstanding(task[w].offset)
          BY <1>1, TaskFacts DEF Outstanding
        <5>4. M!Range(members) \subseteq task[w].start.seen
          BY <1>1, <5>2, <5>3 DEF StartsTrusted, Trusted, Reaches
        <5> QED
          BY <2>3, <4>2, <4>4, <5>4 DEF FetchedOK
      <4> QED
        BY <4>3, <4>4
    <3> QED
      BY <3>1, <3>2 DEF PageFetched
  <2>14. OnDemand' /\ OwnersWork'
    BY <1>1, <2>3, <2>4 DEF OnDemand, OwnersWork
  <2>15. M!MembersSound'
    BY <1>1 DEF M!MembersSound, M!MembersShown, M!MembersAgree, M!Range
  <2>16. StartsTrusted'
    BY <2>9, <2>10 DEF StartsTrusted
  <2> QED
    BY <2>11, <2>12, <2>13, <2>14, <2>15, <2>16
<1> QED
  BY <1>2, <1>3 DEF M!Progress

LEMMA PublishStep ==
    ASSUME MembersInv, NEW w \in Slots, M!Publish(w)
    PROVE  MembersRest'
<1> USE DEF MembersInv, MembersRest
<1>1. /\ task[w].step = "publish" /\ auto /\ AtWork(w) /\ Stored(w)
      /\ UNCHANGED <<auto, members, visible, start, clean>>
  BY DEF M!Publish, OnDemand, AtWork, Stored
<1>2. "complete" \in M!Steps /\ M!To(w, "complete")
  BY DEF M!Steps, M!Publish
<1>3. /\ task'[w].step = "complete" /\ task'[w].owned = task[w].owned
      /\ task'[w].offset = task[w].offset /\ task'[w].page = task[w].page
      /\ task'[w].next = task[w].next /\ task'[w].start = task[w].start
      /\ \A v \in Slots \ {w} : task'[v] = task[v]
  BY <1>2, TaskTo
<1>4. task[w].next \in M!Offsets /\ task[w].offset \in M!Offsets
      /\ Outstanding(task[w].offset)
  BY <1>1, TaskFacts DEF Outstanding
<1>5. \A o \in M!Offsets : pages'[o] > 0 => pages[o] > 0 \/ o = task[w].next
  BY <1>4 DEF M!Publish, M!Published, M!TypeOK
<1>6. \A o \in M!Offsets : Outstanding(o)' => Outstanding(o) \/ o = task[w].next
  BY <1>1, <1>3, <1>5 DEF Outstanding
<1>7. \A v \in Slots : /\ task'[v].start = task[v].start
                       /\ AtWork(v)' => AtWork(v)
                       /\ Stored(v)' => Stored(v) /\ task'[v].page = task[v].page
  BY <1>1, <1>3 DEF AtWork, Stored
<1>8. \A o \in M!Offsets : Prefix(o)' = Prefix(o)
  BY <1>1 DEF Prefix
<1>9. ~task[w].start.disturbed
      => Prefix(task[w].next) \subseteq Prefix(task[w].offset) \cup task[w].page
  BY <1>1, PrefixZero DEF PageFetched, FetchedOK
<1>10. ASSUME NEW st, Trusted(st), ~task[w].start.disturbed PROVE Trusted(st)'
  <2>1. Reaches(st) => Prefix(task[w].next) \subseteq st.seen
    BY <1>1, <1>4, <1>9, <1>10 DEF Reaches
  <2>2. Reaches(st) => Reaches(st)'
    BY <1>6, <1>7, <1>8, <2>1 DEF Reaches
  <2> QED
    BY <1>1, <1>10, <2>2 DEF Trusted, M!Range
<1>11. Trusted(start)'
  <2>1. CASE start.disturbed
    BY <1>1, <2>1 DEF Trusted
  <2>2. CASE ~start.disturbed
    <3>1. PICK st : st = start
      OBVIOUS
    <3>2. ~task[w].start.disturbed
      BY <1>1, <2>2 DEF CursorFate
    <3>3. Trusted(st)' /\ start' = st
      BY <1>1, <1>10, <3>1, <3>2 DEF StartsTrusted
    <3> QED
      BY <3>3 DEF Trusted, Reaches
  <2> QED
    BY <2>1, <2>2
<1>12. ASSUME NEW v \in Slots, AtWork(v)' PROVE Trusted(task[v].start)'
  <2>0. AtWork(v) /\ task'[v].start = task[v].start
    BY <1>7, <1>12
  <2>1. CASE task[v].start.disturbed
    BY <2>0, <2>1 DEF Trusted
  <2>2. CASE ~task[v].start.disturbed
    <3>1. PICK st : st = task[v].start
      OBVIOUS
    <3>2. ~task[w].start.disturbed
      BY <1>1, <2>0, <2>2 DEF SameFate
    <3>3. Trusted(st)' /\ task'[v].start = st
      BY <1>10, <2>0, <3>1, <3>2 DEF StartsTrusted
    <3> QED
      BY <3>3 DEF Trusted, Reaches
  <2> QED
    BY <2>1, <2>2
<1>13. StartsTrusted'
  BY <1>11, <1>12 DEF StartsTrusted
<1>14. SameFate'
  BY <1>7 DEF SameFate
<1>15. CursorFate'
  <2> SUFFICES ASSUME NEW v \in Slots, AtWork(v)'
               PROVE  /\ task'[v].start.disturbed => start'.disturbed
                      /\ ~(start'.disturbed /\ ~task'[v].start.disturbed)
    BY DEF CursorFate
  <2>1. AtWork(v) /\ task'[v].start = task[v].start /\ start' = start
    BY <1>1, <1>7
  <2>2. start.disturbed => task[w].start.disturbed
    BY <1>1 DEF CursorFate
  <2> QED
    BY <1>1, <2>1, <2>2 DEF CursorFate, SameFate
<1>16. PageFetched'
  <2>1. ASSUME NEW v \in Slots \ {w} PROVE FetchedOK(v)'
    BY <1>1, <1>3 DEF PageFetched, FetchedOK, M!Range, Prefix
  <2>2. FetchedOK(w)'
    BY <1>3 DEF FetchedOK
  <2> QED
    BY <2>1, <2>2 DEF PageFetched
<1>17. OnDemand' /\ OwnersWork'
  BY <1>1, <1>3 DEF OnDemand, OwnersWork
<1>18. M!MembersSound'
  BY <1>1 DEF M!MembersSound, M!MembersShown, M!MembersAgree, M!Range
<1> QED
  BY <1>13, <1>14, <1>15, <1>16, <1>17, <1>18

LEMMA MarkStep ==
    ASSUME MembersInv, NEW w \in Slots, M!Mark(w)
    PROVE  MembersRest'
<1> USE DEF MembersInv, MembersRest
<1>1. /\ task[w].step = "mark" /\ AtWork(w)
      /\ UNCHANGED <<auto, members, start, pages>>
      /\ visible' = visible \cap task[w].start.seen
      /\ clean' = ~task[w].start.disturbed
  BY DEF M!Mark, AtWork
<1>2. /\ \A v \in Slots \ {w} : task'[v] = task[v]
      /\ \/ /\ auto
            /\ task'[w].step = "complete" /\ task'[w].owned = task[w].owned
            /\ task'[w].offset = task[w].offset /\ task'[w].page = task[w].page
            /\ task'[w].start = task[w].start
         \/ ~auto /\ task'[w].step = "idle" /\ task'[w].owned = FALSE
  <2>1. CASE auto
    <3>1. "complete" \in M!Steps /\ M!To(w, "complete")
      BY <2>1 DEF M!Steps, M!Mark
    <3> QED
      BY <2>1, <3>1, TaskTo
  <2>2. CASE ~auto
    <3>1. task' = [task EXCEPT ![w] = M!Free]
      BY <2>2 DEF M!Mark
    <3> QED
      BY <2>2, <3>1, FreeTask DEF M!TypeOK
  <2> QED
    BY <2>1, <2>2
<1>3. ~task[w].start.disturbed
      => /\ M!Range(members) \subseteq task[w].start.seen
         /\ task[w].start.seen \subseteq M!Range(members)
         /\ task[w].start.seen \subseteq visible
         /\ task[w].page \subseteq task[w].start.seen
  <2>1. Stored(w) /\ FetchedOK(w)
    BY <1>1 DEF Stored, PageFetched
  <2> QED
    BY <1>1, <2>1 DEF FetchedOK, StartsTrusted, Trusted, Reaches
<1>4. \A o \in M!Offsets : Outstanding(o)' => Outstanding(o)
  BY <1>1, <1>2 DEF Outstanding
<1>5. \A v \in Slots :
          /\ AtWork(v)' => AtWork(v) /\ task'[v].start = task[v].start
          /\ Stored(v)' => Stored(v) /\ task'[v].page = task[v].page
  BY <1>1, <1>2 DEF AtWork, Stored
<1>6. \A o \in M!Offsets : Prefix(o)' = Prefix(o)
  BY <1>1 DEF Prefix
<1>7. ASSUME NEW st, Trusted(st), ~task[w].start.disturbed PROVE Trusted(st)'
  <2>1. Reaches(st) => Reaches(st)'
    BY <1>4, <1>5, <1>6 DEF Reaches
  <2>2. M!Range(members)' = M!Range(members)
    BY <1>1 DEF M!Range
  <2>3. st.seen \subseteq M!Range(members) /\ st.seen \subseteq visible
        => st.seen \subseteq visible'
    BY <1>1, <1>3, <1>7
  <2> QED
    BY <1>7, <2>1, <2>2, <2>3 DEF Trusted
<1>8. Trusted(start)'
  <2>1. CASE start.disturbed
    BY <1>1, <2>1 DEF Trusted
  <2>2. CASE ~start.disturbed
    <3>1. PICK st : st = start
      OBVIOUS
    <3>2. ~task[w].start.disturbed
      BY <1>1, <2>2 DEF CursorFate
    <3>3. Trusted(st)' /\ start' = st
      BY <1>1, <1>7, <3>1, <3>2 DEF StartsTrusted
    <3> QED
      BY <3>3 DEF Trusted, Reaches
  <2> QED
    BY <2>1, <2>2
<1>9. ASSUME NEW v \in Slots, AtWork(v)' PROVE Trusted(task[v].start)'
  <2>0. AtWork(v) /\ task'[v].start = task[v].start
    BY <1>5, <1>9
  <2>1. CASE task[v].start.disturbed
    BY <2>0, <2>1 DEF Trusted
  <2>2. CASE ~task[v].start.disturbed
    <3>1. PICK st : st = task[v].start
      OBVIOUS
    <3>2. ~task[w].start.disturbed
      BY <1>1, <2>0, <2>2 DEF SameFate
    <3>3. Trusted(st)' /\ task'[v].start = st
      BY <1>7, <2>0, <3>1, <3>2 DEF StartsTrusted
    <3> QED
      BY <3>3 DEF Trusted, Reaches
  <2> QED
    BY <2>1, <2>2
<1>10. StartsTrusted'
  BY <1>8, <1>9 DEF StartsTrusted
<1>11. SameFate'
  BY <1>5 DEF SameFate
<1>12. CursorFate'
  <2> SUFFICES ASSUME NEW v \in Slots, AtWork(v)'
               PROVE  /\ task'[v].start.disturbed => start'.disturbed
                      /\ auto' /\ start'.disturbed /\ ~task'[v].start.disturbed
                         => /\ \A o \in M!Offsets : Outstanding(o)' => o = 0
                            /\ task'[v].step \notin {"publish", "mark", "complete"}
    BY DEF CursorFate
  <2>1. AtWork(v) /\ task'[v].start = task[v].start
    BY <1>5
  <2>2. task'[v].step \in {"publish", "mark", "complete"}
        => task[v].step \in {"publish", "mark", "complete"}
    BY <1>1, <1>2
  <2> QED
    BY <1>1, <1>4, <2>1, <2>2 DEF CursorFate
<1>13. PageFetched'
  <2>1. ASSUME NEW v \in Slots \ {w} PROVE FetchedOK(v)'
    BY <1>1, <1>2 DEF PageFetched, FetchedOK, M!Range, Prefix
  <2>2. FetchedOK(w)'
    BY <1>2 DEF FetchedOK
  <2> QED
    BY <2>1, <2>2 DEF PageFetched
<1>14. OnDemand'
  <2> SUFFICES ASSUME ~auto
               PROVE  /\ \A o \in M!Offsets : pages'[o] = 0
                      /\ \A v \in Slots : task'[v].step = "idle" /\ ~task'[v].owned
    BY <1>1 DEF OnDemand, AtWork
  <2>1. \A v \in Slots \ {w} : task[v].step = "idle"
    BY <1>1 DEF OnDemand
  <2> QED
    BY <1>1, <1>2, <2>1 DEF OnDemand
<1>15. OwnersWork'
  BY <1>2 DEF OwnersWork
<1>16. M!MembersSound'
  BY <1>1, <1>3 DEF M!MembersSound, M!MembersShown, M!MembersAgree, M!Range
<1> QED
  BY <1>10, <1>11, <1>12, <1>13, <1>14, <1>15, <1>16

-----------------------------------------------------------------------------
\* The parts of the state that an action changes keep their types.
LEMMA TypeStep ==
    ASSUME M!TypeOK, auto' = auto,
           members' \in Seq(People), Len(members') <= MaxMembers,
           visible' \subseteq People, start' \in M!Starts,
           held' \in Slots \cup {None}, lapsed' \in BOOLEAN,
           held' = None => ~lapsed', pages' \in [M!Offsets -> Nat],
           published' \subseteq M!Offsets, task' \in [Slots -> TaskType],
           clean' \in BOOLEAN,
           tally' \in [changes : 0..MaxChanges, starts : 0..MaxJobs,
                       faults : 0..MaxFaults]
    PROVE  M!TypeOK'
  BY DEF M!TypeOK, TaskType

LEMMA SlotsType ==
    ASSUME M!TypeOK
    PROVE  /\ task \in [Slots -> TaskType]
           /\ pages \in [M!Offsets -> Nat] /\ published \subseteq M!Offsets
           /\ held \in Slots \cup {None} /\ lapsed \in BOOLEAN
           /\ held = None => ~lapsed
           /\ visible \subseteq People /\ clean \in BOOLEAN
           /\ tally \in [changes : 0..MaxChanges, starts : 0..MaxJobs,
                         faults : 0..MaxFaults]
  BY DEF M!TypeOK, TaskType

LEMMA FaultType ==
    ASSUME M!TypeOK, M!Fault
    PROVE  tally' \in [changes : 0..MaxChanges, starts : 0..MaxJobs,
                       faults : 0..MaxFaults]
  BY MembersOK, SlotsType DEF M!Fault, M!MembersAssumption

LEMMA StartedType ==
    ASSUME M!TypeOK, tally.starts < MaxJobs,
           tally' = [tally EXCEPT !.starts = @ + 1]
    PROVE  tally' \in [changes : 0..MaxChanges, starts : 0..MaxJobs,
                       faults : 0..MaxFaults]
  BY MembersOK, SlotsType DEF M!MembersAssumption

LEMMA TaskToType ==
    ASSUME M!TypeOK, NEW w \in Slots, NEW s \in M!Steps, M!To(w, s)
    PROVE  task' \in [Slots -> TaskType]
<1>1. [task[w] EXCEPT !.step = s] \in TaskType
  BY SlotsType DEF TaskType
<1>2. task' = [task EXCEPT ![w] = [task[w] EXCEPT !.step = s]]
  BY DEF M!To
<1> QED
  BY <1>1, <1>2, SlotsType

LEMMA ReturnType ==
    ASSUME M!TypeOK, NEW w \in Slots,
           \/ M!Returned(w)
           \/ task' = [task EXCEPT ![w] = M!Free] /\ pages' = pages
    PROVE  task' \in [Slots -> TaskType] /\ pages' \in [M!Offsets -> Nat]
<1>1. task' = [task EXCEPT ![w] = M!Free]
  BY DEF M!Returned
<1>2. task' \in [Slots -> TaskType]
  BY <1>1, SlotsType, FreeTask
<1>3. \/ pages' = pages
      \/ pages' = [pages EXCEPT ![task[w].offset] = @ + 1]
  BY DEF M!Returned
<1>4. pages' \in [M!Offsets -> Nat]
  BY <1>3, SlotsType, TaskFacts
<1> QED
  BY <1>2, <1>4

LEMMA PublishedType ==
    ASSUME M!TypeOK, NEW o \in M!Offsets, M!Published(o)
    PROVE  pages' \in [M!Offsets -> Nat] /\ published' \subseteq M!Offsets
  BY SlotsType DEF M!Published

LEMMA ChangeType ==
    ASSUME M!TypeOK, NEW p \in People, M!Change(p)
    PROVE  M!TypeOK'
<1>0. UNCHANGED <<auto, visible, held, lapsed, pages, published>> /\ clean' = FALSE
  BY DEF M!Change
<1>1. tally' \in [changes : 0..MaxChanges, starts : 0..MaxJobs,
                  faults : 0..MaxFaults]
  <2>1. tally.changes < MaxChanges /\ tally' = [tally EXCEPT !.changes = @ + 1]
    BY DEF M!Change
  <2> QED
    BY <2>1, MembersOK, SlotsType DEF M!MembersAssumption
<1>2. \A st \in M!Starts : M!Disturbed(st, TRUE) \in M!Starts
  BY DEF M!Disturbed, M!Starts
<1>3. start' \in M!Starts
  BY <1>2, MemberFacts DEF M!Change
<1>4. task' \in [Slots -> TaskType]
  <2>1. task' = [v \in Slots |->
                   [task[v] EXCEPT !.start = M!Disturbed(@, TRUE)]]
    BY DEF M!Change
  <2>2. ASSUME NEW v \in Slots
        PROVE  [task[v] EXCEPT !.start = M!Disturbed(@, TRUE)] \in TaskType
    <3>1. PICK y \in M!Starts : y = M!Disturbed(task[v].start, TRUE)
      BY <1>2, TaskFacts
    <3>2. [task[v] EXCEPT !.start = y] \in TaskType
      BY TaskFacts DEF TaskType
    <3> QED
      BY <3>1, <3>2
  <2> QED
    BY <2>1, <2>2
<1>5. members' \in Seq(People) /\ Len(members') <= MaxMembers
  <2>0. /\ members \in Seq(People) /\ Len(members) \in Nat
        /\ DOMAIN members = 1..Len(members)
        /\ Len(members) <= MaxMembers /\ MaxMembers \in Nat
    BY MemberFacts
  <2>1. CASE \E i \in DOMAIN members :
                members' = SubSeq(members, 1, i - 1)
                           \o SubSeq(members, i + 1, Len(members))
    <3>1. PICK L \in Nat : L = Len(members)
      BY <2>0
    <3>2. PICK i \in 1..L :
              members' = SubSeq(members, 1, i - 1) \o SubSeq(members, i + 1, L)
      BY <2>0, <2>1, <3>1
    <3>3. \A k \in 1..L : members[k] \in People
      BY <2>0, <3>1
    <3>4. PICK a : a = SubSeq(members, 1, i - 1)
      OBVIOUS
    <3>5. PICK b : b = SubSeq(members, i + 1, L)
      OBVIOUS
    <3>6. a \in Seq(People) /\ Len(a) = i - 1
      <4>1. \A k \in 1..(i - 1) : members[k] \in People
        BY <3>3
      <4>2. /\ SubSeq(members, 1, i - 1) \in Seq(People)
            /\ Len(SubSeq(members, 1, i - 1))
                 = IF 1 <= i - 1 THEN (i - 1) - 1 + 1 ELSE 0
        BY <4>1, SubSeqProperties
      <4> QED
        BY <3>4, <4>2
    <3>7. b \in Seq(People) /\ Len(b) = L - i
      <4>1. \A k \in (i + 1)..L : members[k] \in People
        BY <3>3
      <4>2. /\ SubSeq(members, i + 1, L) \in Seq(People)
            /\ Len(SubSeq(members, i + 1, L))
                 = IF i + 1 <= L THEN L - (i + 1) + 1 ELSE 0
        BY <4>1, SubSeqProperties
      <4> QED
        BY <3>5, <4>2
    <3>8. a \o b \in Seq(People) /\ Len(a \o b) = Len(a) + Len(b)
      BY <3>6, <3>7, ConcatProperties
    <3>9. Len(a \o b) <= MaxMembers
      BY <2>0, <3>1, <3>6, <3>7, <3>8
    <3>10. members' = a \o b
      BY <3>2, <3>4, <3>5
    <3> QED
      BY <3>8, <3>9, <3>10
  <2>2. CASE Len(members) < MaxMembers /\ members' = <<p>> \o members
    <3>1. <<p>> \in Seq(People) /\ Len(<<p>>) = 1
      OBVIOUS
    <3>2. members' \in Seq(People) /\ Len(members') = Len(<<p>>) + Len(members)
      BY <2>0, <2>2, <3>1, ConcatProperties
    <3> QED
      BY <2>0, <2>2, <3>1, <3>2
  <2> QED
    BY <2>1, <2>2 DEF M!Change
<1> QED
  BY <1>0, <1>1, <1>3, <1>4, <1>5, TypeStep, SlotsType

LEMMA StampType ==
    ASSUME M!TypeOK
    PROVE  /\ \A st \in M!Starts, ps \in SUBSET People :
                 M!Stamped(st, ps) \in M!Starts
           /\ \A st \in M!Starts, b \in BOOLEAN : M!Disturbed(st, b) \in M!Starts
  BY DEF M!Stamped, M!Disturbed, M!Starts

\* A step of a worker or of a request.
LEMMA RunType ==
    ASSUME M!TypeOK, NEW w \in Slots, M!Run(w)
    PROVE  M!TypeOK'
<1>0. /\ members \in Seq(People) /\ Len(members) <= MaxMembers /\ start \in M!Starts
      /\ task[w].page \subseteq People /\ task[w].next \in M!Offsets
      /\ auto \in BOOLEAN
  BY MemberFacts, TaskFacts
<1>1. CASE M!Ensure(w)
  <2>1. PICK b \in BOOLEAN : b = M!Overlaps(w)
    BY DEF M!Overlaps
  <2>2. M!StartOf(task[w].offset) \in M!Starts
    BY MemberFacts, FreeTask DEF M!StartOf
  <2>3. ASSUME NEW v \in Slots
        PROVE  [task[v] EXCEPT
                  !.step = IF v = w THEN "acquire" ELSE @,
                  !.start = M!Disturbed(IF v = w THEN M!StartOf(task[w].offset)
                                        ELSE @, M!Overlaps(w))] \in TaskType
    <3>1. PICK x \in M!Steps : x = IF v = w THEN "acquire" ELSE task[v].step
      BY TaskFacts DEF M!Steps
    <3>2. PICK y \in M!Starts : y = IF v = w THEN M!StartOf(task[w].offset)
                                    ELSE task[v].start
      BY <2>2, TaskFacts
    <3>3. PICK z \in M!Starts : z = M!Disturbed(y, b)
      BY StampType
    <3>4. [task[v] EXCEPT !.step = x, !.start = z] \in TaskType
      BY TaskFacts DEF TaskType
    <3> QED
      BY <2>1, <3>1, <3>2, <3>3, <3>4
  <2>4. task' \in [Slots -> TaskType]
    BY <1>1, <2>3 DEF M!Ensure
  <2>5. start' \in M!Starts
    BY <1>0, <1>1, <2>1, StampType DEF M!Ensure
  <2>6. UNCHANGED <<auto, members, visible, held, lapsed, pages, published,
                    clean, tally>>
    BY <1>1 DEF M!Ensure
  <2> QED
    BY <1>0, <2>4, <2>5, <2>6, TypeStep, SlotsType
<1>2. CASE M!Acquire(w)
  <2>1. /\ task' \in [Slots -> TaskType] /\ pages' \in [M!Offsets -> Nat]
        /\ held' \in Slots \cup {None} /\ lapsed' \in BOOLEAN
        /\ held' = None => ~lapsed'
    <3>1. CASE held' = w /\ lapsed' = FALSE /\ M!To(w, "fetch") /\ UNCHANGED pages
      BY <3>1, TaskToType, SlotsType DEF M!Steps
    <3>2. CASE M!Returned(w) /\ UNCHANGED <<held, lapsed>>
      BY <3>2, ReturnType, SlotsType
    <3> QED
      BY <1>2, <3>1, <3>2 DEF M!Acquire
  <2>2. UNCHANGED <<auto, members, visible, start, published, clean, tally>>
    BY <1>2 DEF M!Acquire
  <2> QED
    BY <1>0, <2>1, <2>2, TypeStep, SlotsType
<1>3. CASE M!Fetch(w)
  <2>1. task' \in [Slots -> TaskType]
    BY <1>3, FetchFacts
  <2>2. UNCHANGED <<auto, members, visible, start, held, lapsed, pages,
                    published,
                    clean, tally>>
    BY <1>3 DEF M!Fetch
  <2> QED
    BY <1>0, <2>1, <2>2, TypeStep, SlotsType
<1>4. CASE M!Upsert(w)
  <2>1. ASSUME NEW v \in Slots PROVE task'[v] \in TaskType
    <3>1. PICK a \in M!Starts : a = M!Stamped(task[v].start, task[w].page)
      BY <1>0, TaskFacts, StampType
    <3>2. PICK b : b = CASE v # w -> task[v].step
                         [] v = w /\ auto -> "progress"
                         [] v = w /\ ~auto /\ task[w].next # 0 -> "fetch"
                         [] OTHER -> "mark"
      OBVIOUS
    <3>3. b \in M!Steps
      <4>1. CASE v # w
        BY <3>2, <4>1, TaskFacts
      <4>2. CASE v = w /\ auto
        BY <3>2, <4>2 DEF M!Steps
      <4>3. CASE v = w /\ ~auto /\ task[w].next # 0
        BY <3>2, <4>3 DEF M!Steps
      <4>4. CASE v = w /\ ~auto /\ task[w].next = 0
        BY <3>2, <4>4 DEF M!Steps
      <4> QED
        BY <4>1, <4>2, <4>3, <4>4
    <3>4. PICK c \in M!Offsets : c = IF v = w /\ ~auto THEN task[w].next
                                     ELSE task[v].offset
      BY <1>0, TaskFacts
    <3>5. [task[v] EXCEPT !.start = a, !.step = b, !.offset = c] \in TaskType
      BY <3>3, TaskFacts DEF TaskType
    <3> QED
      BY <1>4, <3>1, <3>2, <3>4, <3>5 DEF M!Upsert
  <2>2. task' \in [Slots -> TaskType]
    <3>1. task' = [v \in Slots |-> task'[v]]
      BY <1>4 DEF M!Upsert
    <3> QED
      BY <2>1, <3>1
  <2>3. start' \in M!Starts /\ visible' \subseteq People
    BY <1>0, <1>4, StampType, SlotsType DEF M!Upsert
  <2>4. UNCHANGED <<auto, members, held, lapsed, pages, published, clean,
                    tally>>
    BY <1>4 DEF M!Upsert
  <2> QED
    BY <1>0, <2>2, <2>3, <2>4, TypeStep, SlotsType
<1>5. CASE M!Progress(w)
  <2>1. task' \in [Slots -> TaskType] /\ start' \in M!Starts
    <3>1. CASE /\ start' = task[w].start
               /\ M!To(w, IF task[w].next = 0 THEN "mark" ELSE "publish")
      <4>1. PICK s \in M!Steps : s = IF task[w].next = 0 THEN "mark" ELSE "publish"
        BY DEF M!Steps
      <4> QED
        BY <3>1, <4>1, TaskToType, TaskFacts
    <3>2. CASE M!To(w, "fail") /\ UNCHANGED start
      BY <1>0, <3>2, TaskToType DEF M!Steps
    <3> QED
      BY <1>5, <3>1, <3>2 DEF M!Progress
  <2>2. UNCHANGED <<auto, members, visible, held, lapsed, pages, published,
                    clean, tally>>
    BY <1>5 DEF M!Progress
  <2> QED
    BY <1>0, <2>1, <2>2, TypeStep, SlotsType
<1>6. CASE M!Publish(w)
  <2>1. task' \in [Slots -> TaskType]
    BY <1>6, TaskToType DEF M!Publish, M!Steps
  <2>2. pages' \in [M!Offsets -> Nat] /\ published' \subseteq M!Offsets
    BY <1>0, <1>6, PublishedType DEF M!Publish
  <2>3. UNCHANGED <<auto, members, visible, start, held, lapsed, clean, tally>>
    BY <1>6 DEF M!Publish
  <2> QED
    BY <1>0, <2>1, <2>2, <2>3, TypeStep, SlotsType
<1>7. CASE M!Mark(w)
  <2>1. task' \in [Slots -> TaskType]
    <3>1. CASE M!To(w, "complete")
      BY <3>1, TaskToType DEF M!Steps
    <3>2. CASE task' = [task EXCEPT ![w] = M!Free]
      BY <3>2, SlotsType, FreeTask
    <3> QED
      BY <1>7, <3>1, <3>2 DEF M!Mark
  <2>2. visible' \subseteq People /\ clean' \in BOOLEAN
    BY <1>7, SlotsType DEF M!Mark
  <2>3. UNCHANGED <<auto, members, start, held, lapsed, pages, published,
                    tally>>
    BY <1>7 DEF M!Mark
  <2> QED
    BY <1>0, <2>1, <2>2, <2>3, TypeStep, SlotsType
<1>8. CASE M!Complete(w) \/ M!Fail(w)
  <2>1. /\ task' \in [Slots -> TaskType] /\ pages' \in [M!Offsets -> Nat]
        /\ UNCHANGED <<auto, members, visible, start, published, clean, tally>>
    BY <1>8, ReturnType DEF M!Complete, M!Fail
  <2>2. /\ held' \in Slots \cup {None} /\ lapsed' \in BOOLEAN
        /\ held' = None => ~lapsed'
    BY <1>8, SlotsType DEF M!Complete, M!Fail, M!Released
  <2> QED
    BY <1>0, <2>1, <2>2, TypeStep, SlotsType
<1> QED
  BY <1>1, <1>2, <1>3, <1>4, <1>5, <1>6, <1>7, <1>8 DEF M!Run

LEMMA MembersType ==
    ASSUME M!TypeOK, [M!Next]_(M!vars)
    PROVE  M!TypeOK'
<1>0. /\ members \in Seq(People) /\ Len(members) <= MaxMembers /\ start \in M!Starts
  BY MemberFacts
<1>1. CASE UNCHANGED M!vars
  BY <1>1 DEF M!vars, M!TypeOK
<1>2. CASE \E p \in People : M!Change(p)
  BY <1>2, ChangeType
<1>3. CASE M!Expire
  <2>1. tally' \in [changes : 0..MaxChanges, starts : 0..MaxJobs,
                    faults : 0..MaxFaults]
    BY <1>3, FaultType, SlotsType DEF M!Expire
  <2>2. UNCHANGED <<auto, members, visible, start, held, pages, published,
                    task, clean>>
        /\ lapsed' = TRUE /\ held # None
    BY <1>3 DEF M!Expire
  <2> QED
    BY <1>0, <2>1, <2>2, TypeStep, SlotsType
<1>4. CASE M!Enqueue
  <2>1. tally' \in [changes : 0..MaxChanges, starts : 0..MaxJobs,
                    faults : 0..MaxFaults]
    BY <1>4, StartedType DEF M!Enqueue
  <2>2. pages' \in [M!Offsets -> Nat] /\ published' \subseteq M!Offsets
    BY <1>4, MemberFacts, PublishedType DEF M!Enqueue
  <2>3. UNCHANGED <<auto, members, visible, start, held, lapsed, task, clean>>
    BY <1>4 DEF M!Enqueue
  <2> QED
    BY <1>0, <2>1, <2>2, <2>3, TypeStep, SlotsType
<1>5. ASSUME NEW o \in M!Offsets, M!Forget(o) PROVE M!TypeOK'
  <2>1. UNCHANGED <<auto, members, visible, start, held, lapsed, pages, task,
                    clean,
                    tally>> /\ published' = published \ {o}
    BY <1>5 DEF M!Forget
  <2> QED
    BY <1>0, <2>1, TypeStep, SlotsType
<1>6. ASSUME NEW w \in Slots, NEW o \in M!Offsets, M!Take(w, o) PROVE M!TypeOK'
  <2>1. [M!Free EXCEPT !.step = "ensure", !.owned = TRUE, !.offset = o] \in TaskType
    BY FreeTask DEF TaskType, M!Steps
  <2>2. task' \in [Slots -> TaskType]
    BY <1>6, <2>1, SlotsType DEF M!Take
  <2>3. pages' \in [M!Offsets -> Nat]
    BY <1>6, SlotsType DEF M!Take
  <2>4. UNCHANGED <<auto, members, visible, start, held, lapsed, published,
                    clean, tally>>
    BY <1>6 DEF M!Take
  <2> QED
    BY <1>0, <2>2, <2>3, <2>4, TypeStep, SlotsType
<1>7. ASSUME NEW w \in Slots, M!Request(w) PROVE M!TypeOK'
  <2>1. [M!Free EXCEPT !.step = "fetch"] \in TaskType
    BY FreeTask DEF TaskType, M!Steps
  <2>2. task' \in [Slots -> TaskType]
    BY <1>7, <2>1, SlotsType DEF M!Request
  <2>3. tally' \in [changes : 0..MaxChanges, starts : 0..MaxJobs,
                    faults : 0..MaxFaults]
    BY <1>7, StartedType DEF M!Request
  <2>4. UNCHANGED <<auto, members, visible, start, held, lapsed, pages,
                    published, clean>>
    BY <1>7 DEF M!Request
  <2> QED
    BY <1>0, <2>2, <2>3, <2>4, TypeStep, SlotsType
<1>8. ASSUME NEW w \in Slots, M!Redeliver(w) PROVE M!TypeOK'
  <2>1. [task[w] EXCEPT !.owned = FALSE] \in TaskType
    BY TaskFacts DEF TaskType
  <2>2. task' = [task EXCEPT ![w] = [task[w] EXCEPT !.owned = FALSE]]
    BY <1>8 DEF M!Redeliver
  <2>3. task' \in [Slots -> TaskType]
    BY <2>1, <2>2, SlotsType
  <2>4. pages' \in [M!Offsets -> Nat]
    BY <1>8, SlotsType, TaskFacts DEF M!Redeliver
  <2>5. tally' \in [changes : 0..MaxChanges, starts : 0..MaxJobs,
                    faults : 0..MaxFaults]
    BY <1>8, FaultType DEF M!Redeliver
  <2>6. UNCHANGED <<auto, members, visible, start, held, lapsed, published,
                    clean>>
    BY <1>8 DEF M!Redeliver
  <2> QED
    BY <1>0, <2>3, <2>4, <2>5, <2>6, TypeStep, SlotsType
<1>9. ASSUME NEW w \in Slots, M!Crash(w) PROVE M!TypeOK'
  <2>1. task' \in [Slots -> TaskType] /\ pages' \in [M!Offsets -> Nat]
    BY <1>9, ReturnType DEF M!Crash
  <2>2. tally' \in [changes : 0..MaxChanges, starts : 0..MaxJobs,
                    faults : 0..MaxFaults]
    BY <1>9, FaultType DEF M!Crash
  <2>3. UNCHANGED <<auto, members, visible, start, held, lapsed, published,
                    clean>>
    BY <1>9 DEF M!Crash
  <2> QED
    BY <1>0, <2>1, <2>2, <2>3, TypeStep, SlotsType
<1>10. ASSUME NEW w \in Slots, M!Fails(w) PROVE M!TypeOK'
  <2>1. PICK ps \in SUBSET task[w].page :
            /\ visible' = visible \cup ps
            /\ start' = M!Stamped(start, ps)
            /\ task' = [v \in Slots |->
                          [task[v] EXCEPT !.start = M!Stamped(@, ps),
                                          !.step = IF v = w THEN "fail" ELSE @]]
    BY <1>10 DEF M!Fails
  <2>2. ps \in SUBSET People
    BY TaskFacts
  <2>3. ASSUME NEW v \in Slots
        PROVE  [task[v] EXCEPT !.start = M!Stamped(@, ps),
                               !.step = IF v = w THEN "fail" ELSE @] \in TaskType
    <3>1. PICK y \in M!Starts : y = M!Stamped(task[v].start, ps)
      BY <2>2, StampType, TaskFacts
    <3>2. PICK x \in M!Steps : x = IF v = w THEN "fail" ELSE task[v].step
      BY TaskFacts DEF M!Steps
    <3>3. [task[v] EXCEPT !.start = y, !.step = x] \in TaskType
      BY TaskFacts DEF TaskType
    <3> QED
      BY <3>1, <3>2, <3>3
  <2>4. task' \in [Slots -> TaskType]
    BY <2>1, <2>3
  <2>5. start' \in M!Starts /\ visible' \subseteq People
    BY <1>0, <2>1, <2>2, StampType, SlotsType
  <2>6. tally' \in [changes : 0..MaxChanges, starts : 0..MaxJobs,
                    faults : 0..MaxFaults]
    BY <1>10, FaultType DEF M!Fails
  <2>7. UNCHANGED <<auto, members, held, lapsed, pages, published, clean>>
    BY <1>10 DEF M!Fails
  <2> QED
    BY <1>0, <2>4, <2>5, <2>6, <2>7, TypeStep, SlotsType
<1>11. ASSUME NEW w \in Slots, M!Rejected(w) PROVE M!TypeOK'
  <2>1. task' \in [Slots -> TaskType]
    BY <1>11, TaskToType DEF M!Rejected, M!Steps
  <2>2. tally' \in [changes : 0..MaxChanges, starts : 0..MaxJobs,
                    faults : 0..MaxFaults]
    BY <1>11, FaultType DEF M!Rejected
  <2>3. UNCHANGED <<auto, members, visible, start, held, lapsed, pages,
                    published, clean>>
    BY <1>11 DEF M!Rejected
  <2> QED
    BY <1>0, <2>1, <2>2, <2>3, TypeStep, SlotsType
<1> QED
  BY <1>1, <1>2, <1>3, <1>4, <1>5, <1>6, <1>7, <1>8, <1>9, <1>10, <1>11, RunType
     DEF M!Next

-----------------------------------------------------------------------------
LEMMA MembersStep ==
    ASSUME MembersInv, [M!Next]_(M!vars)
    PROVE  MembersInv'
<1> USE DEF MembersInv
<1> SUFFICES MembersRest'
  BY MembersType
<1>1. CASE UNCHANGED M!vars
  BY <1>1, OutsideStep DEF M!vars, M!TypeOK
<1>2. CASE \E p \in People : M!Change(p)
  BY <1>2, ChangeStep
<1>3. CASE M!Expire
  BY <1>3, OutsideStep DEF M!Expire
<1>4. CASE M!Enqueue
  BY <1>4, EnqueueStep
<1>5. ASSUME NEW o \in M!Offsets, M!Forget(o) PROVE MembersRest'
  BY <1>5, OutsideStep DEF M!Forget
<1>6. ASSUME NEW w \in Slots, M!Crash(w) PROVE MembersRest'
  BY <1>6, ReturnStep DEF M!Crash
<1>7. ASSUME NEW w \in Slots, M!Rejected(w) PROVE MembersRest'
  <2>1. AtWork(w)
    BY <1>7 DEF M!Rejected, AtWork
  <2> QED
    BY <1>7, <2>1, MoveStep DEF M!Rejected
<1>8. ASSUME NEW w \in Slots, M!Run(w) PROVE MembersRest'
  <2>1. CASE M!Complete(w)
    BY <2>1, ReturnStep DEF M!Complete
  <2>2. CASE M!Fail(w)
    BY <2>2, ReturnStep DEF M!Fail
  <2> QED
    BY <1>8, <2>1, <2>2, EnsureStep, AcquireStep, FetchStep, UpsertStep,
       ProgressStep, PublishStep, MarkStep DEF M!Run
<1> QED
  BY <1>1, <1>2, <1>3, <1>4, <1>5, <1>6, <1>7, <1>8, TakeStep, RequestStep,
     RedeliverStep, FailsStep DEF M!Next

LEMMA MembersInitially ==
    ASSUME M!Init
    PROVE  MembersInv
<1>0. /\ MaxMembers \in Nat /\ 0 \in M!Offsets /\ None \notin Slots
      /\ MaxChanges \in Nat /\ MaxJobs \in Nat /\ MaxFaults \in Nat
  BY MembersOK DEF M!MembersAssumption, M!Offsets
<1>1. M!Now \in M!Starts /\ M!Now.seen = {} /\ M!Now.disturbed = FALSE
  BY DEF M!Now, M!Starts
<1>2. /\ M!Free.step = "idle" /\ M!Free.owned = FALSE /\ M!Free.start = M!Now
      /\ M!Free \in TaskType
  BY <1>0, <1>1 DEF M!Free, TaskType, M!Steps
<1>3. \A w \in Slots : task[w] = M!Free
  BY DEF M!Init
<1>4. M!TypeOK
  <2>1. members \in Seq(People) /\ Len(members) <= MaxMembers
    <3>1. PICK n \in M!Offsets : members \in [1..n -> People]
      BY DEF M!Init
    <3>2. n \in Nat /\ n <= MaxMembers
      BY <1>0 DEF M!Offsets
    <3> QED
      BY <3>1, <3>2
  <2>2. task \in [Slots -> TaskType]
    BY <1>2 DEF M!Init
  <2>3. tally \in [changes : 0..MaxChanges, starts : 0..MaxJobs,
                   faults : 0..MaxFaults]
    BY <1>0 DEF M!Init
  <2>4. pages \in [M!Offsets -> Nat]
    BY DEF M!Init
  <2> QED
    BY <1>1, <2>1, <2>2, <2>3, <2>4 DEF M!Init, M!TypeOK, TaskType
<1>5. \A w \in Slots : ~AtWork(w) /\ ~Stored(w)
  BY <1>2, <1>3 DEF AtWork, Stored
<1>6. \A o \in M!Offsets : ~Outstanding(o)
  BY <1>2, <1>3 DEF Outstanding, M!Init
<1>7. Trusted(start)
  BY <1>1, <1>5, <1>6 DEF M!Init, Trusted, Reaches
<1>8. StartsTrusted /\ SameFate /\ CursorFate
  BY <1>5, <1>7 DEF StartsTrusted, SameFate, CursorFate
<1>9. PageFetched /\ OwnersWork
  BY <1>2, <1>3 DEF PageFetched, FetchedOK, OwnersWork
<1>10. OnDemand
  BY <1>2, <1>3, <1>5 DEF M!Init, OnDemand
<1>11. M!MembersSound
  BY DEF M!Init, M!MembersSound, M!MembersShown, M!MembersAgree
<1> QED
  BY <1>4, <1>8, <1>9, <1>10, <1>11 DEF MembersInv, MembersRest

\* Every start that nothing disturbed is trusted: it has the members as far as
\* the snapshot's pages have come (worker/members.go, members/reconcile.go).
THEOREM MembersInvariant == M!Spec => []MembersInv
  BY MembersInitially, MembersStep, PTL DEF M!Spec

\* The snapshot of a chat's members hides none of them, whatever the number of
\* members, pages, slots and faults.
THEOREM MembersHold == M!Spec => []MembersSound
<1>1. MembersInv => MembersSound
  BY DEF MembersInv, MembersRest, MembersSound
<1> QED
  BY <1>1, MembersInvariant, PTL
=============================================================================
