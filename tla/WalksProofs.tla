----------------------------- MODULE WalksProofs -----------------------------
(***************************************************************************)
(* Two walks with a cursor over what changes meanwhile.  First a client's  *)
(* through the history of a chat (HistoryWalk), for chats, pages and       *)
(* requests of any size: a cursor stands for "everything from here up was  *)
(* received", and Telegram's answers have no holes, however short they     *)
(* are.  Then the owner's through the chats (ChatWalk), for any chats and  *)
(* any page size: a place behind the cursor holds a chat that was met or   *)
(* that has moved, because a move takes the others down at most.           *)
(***************************************************************************)
EXTENDS MCWalks, FiniteSetTheorems, WellFoundedInduction, TLAPS

\* What the client has received is what was there from its cursor up.
CursorFacts ==
    walk.step = "page" =>
        /\ \A m \in walk.got : ~Below(walk.cursor, m)
        /\ \A m \in walk.due \ gone : ~Below(walk.cursor, m) => m \in walk.got

\* The handler's position is the client's cursor or below it, and what it has
\* collected is what there was between the two.
PageFacts ==
    page.step # "idle" =>
        /\ walk.step = "page"
        /\ \/ page.before = walk.cursor
           \/ page.before # 0 /\ Below(walk.cursor, page.before)
        /\ \A m \in page.ids : Below(walk.cursor, m) /\ ~Below(page.before, m)
        /\ \A m \in walk.due \ gone :
              Below(walk.cursor, m) /\ ~Below(page.before, m) => m \in page.ids

\* A page that was not filled has met the beginning of the chat.
PageEnds ==
    /\ page.step = "fetch" => Cardinality(page.ids) <= Limit
    /\ page.step = "list" /\ Cardinality(page.ids) <= Limit =>
          \A m \in walk.due \ gone : Below(walk.cursor, m) => m \in page.ids

WalkInv == TypeOK /\ CursorFacts /\ PageFacts /\ PageEnds /\ WalkExact

\* A set of numbers has a least one; a bounded set has a greatest one.
LEMMA HasLeast ==
    ASSUME NEW T, T \subseteq Nat, T # {}
    PROVE  \E x \in T : \A y \in T : x <= y
<1>1. IsWellFoundedOn(OpToRel(<, Nat), Nat)
  BY NatLessThanWellFounded
<1>2. PICK x \in T : \A y \in T : ~(<<y, x>> \in OpToRel(<, Nat))
  BY <1>1, WFMin
<1>3. \A y \in T : ~(y < x)
  BY <1>2 DEF OpToRel
<1> QED
  BY <1>3

LEMMA HasGreatest ==
    ASSUME NEW N \in Nat, NEW T, T \subseteq 1..N, T # {}
    PROVE  \E x \in T : \A y \in T : y <= x
<1> DEFINE D == {N - m : m \in T}
<1>0. \A m \in T : m \in Nat /\ m <= N /\ N - m \in Nat
  OBVIOUS
<1>1. D \subseteq Nat /\ D # {}
  BY <1>0
<1>2. PICK d \in D : \A e \in D : d <= e
  BY <1>1, HasLeast
<1>3. PICK x \in T : d = N - x
  BY <1>2
<1>4. \A y \in T : N - x <= N - y
  BY <1>2, <1>3
<1> QED
  BY <1>0, <1>4

LEMMA LeastIs ==
    ASSUME NEW S, S \subseteq Nat, S # {}
    PROVE  Least(S) \in S /\ \A k \in S : Least(S) <= k
  BY HasLeast DEF Least

\* Newest(n, S): the messages of S that are among the n newest of S.
LEMMA NewestIs ==
    ASSUME NEW N \in Nat, NEW S \in SUBSET (1..N), NEW n \in Nat
    PROVE  /\ Newest(n, S) \subseteq S
           /\ IsFiniteSet(S) /\ IsFiniteSet(Newest(n, S))
           /\ \A m \in S : LET A == {k \in S : k >= m}
                           IN  IsFiniteSet(A) /\ Cardinality(A) \in Nat
                               /\ Cardinality(A) <= Cardinality(S)
<1>1. IsFiniteSet(1..N)
  BY FS_Interval
<1>2. IsFiniteSet(S)
  BY <1>1, FS_Subset
<1>3. Newest(n, S) \in SUBSET S
  BY DEF Newest
<1>4. ASSUME NEW m \in S
      PROVE  LET A == {k \in S : k >= m}
             IN  IsFiniteSet(A) /\ Cardinality(A) \in Nat
                 /\ Cardinality(A) <= Cardinality(S)
  <2> DEFINE A == {k \in S : k >= m}
  <2>1. A \in SUBSET S
    OBVIOUS
  <2> HIDE DEF A
  <2>2. IsFiniteSet(A) /\ Cardinality(A) <= Cardinality(S)
    BY <1>2, <2>1, FS_Subset
  <2> QED BY <2>2, FS_CardinalityType DEF A
<1> QED
  BY <1>2, <1>3, <1>4, FS_Subset

\* Whatever is newer than one of them is one of them.
LEMMA NewestUp ==
    ASSUME NEW N \in Nat, NEW S \in SUBSET (1..N), NEW n \in Nat,
           NEW x \in Newest(n, S), NEW y \in S, y >= x
    PROVE  y \in Newest(n, S)
<1> DEFINE A == {k \in S : k >= x}
           B == {k \in S : k >= y}
<1>1. x \in S /\ Cardinality(A) <= n
  BY DEF Newest
<1>2. IsFiniteSet(A) /\ Cardinality(A) \in Nat
  BY <1>1, NewestIs
<1>3. B \in SUBSET A
  <2>1. \A k \in S : k \in Nat
    OBVIOUS
  <2>2. \A k \in S : k >= y => k >= x
    BY <1>1, <2>1
  <2> QED BY <2>2
<1> HIDE DEF A, B
<1>4. IsFiniteSet(B) /\ Cardinality(B) <= Cardinality(A)
  BY <1>2, <1>3, FS_Subset
<1>5. Cardinality(B) \in Nat
  BY <1>4, FS_CardinalityType
<1>6. Cardinality(B) <= n
  BY <1>1, <1>2, <1>4, <1>5
<1> QED
  BY <1>6 DEF Newest, B

\* They are n at most: the oldest of them counts them.
LEMMA NewestCount ==
    ASSUME NEW N \in Nat, NEW S \in SUBSET (1..N), NEW n \in Nat
    PROVE  Cardinality(Newest(n, S)) <= n
<1> DEFINE T == Newest(n, S)
<1>1. T \subseteq S /\ IsFiniteSet(T) /\ IsFiniteSet(S)
  BY NewestIs
<1>2. CASE T = {}
  BY <1>2, FS_EmptySet
<1>3. CASE T # {}
  <2>1. PICK m \in T : \A k \in T : m <= k
    <3>1. T \subseteq Nat
      <4>1. \A k \in S : k \in Nat
        OBVIOUS
      <4> HIDE DEF T
      <4> QED BY <1>1, <4>1
    <3> HIDE DEF T
    <3> QED BY <1>3, <3>1, HasLeast
  <2> DEFINE A == {k \in S : k >= m}
  <2>2. m \in S /\ Cardinality(A) <= n
    BY <2>1 DEF Newest
  <2>3. IsFiniteSet(A) /\ Cardinality(A) \in Nat
    BY <2>2, NewestIs
  <2>4. T \in SUBSET A
    BY <1>1, <2>1
  <2> HIDE DEF A, T
  <2>5. Cardinality(T) <= Cardinality(A) /\ Cardinality(T) \in Nat
    BY <1>1, <2>3, <2>4, FS_Subset, FS_CardinalityType
  <2>6. Cardinality(T) <= n
    BY <2>2, <2>3, <2>5
  <2> QED BY <2>6 DEF T
<1> QED
  BY <1>2, <1>3

LEMMA NewestAll ==
    ASSUME NEW N \in Nat, NEW S \in SUBSET (1..N), NEW n \in Nat,
           Cardinality(S) <= n
    PROVE  Newest(n, S) = S
<1>1. IsFiniteSet(S) /\ Cardinality(S) \in Nat
  BY NewestIs, FS_CardinalityType
<1>2. ASSUME NEW m \in S PROVE m \in Newest(n, S)
  <2> DEFINE A == {k \in S : k >= m}
  <2>1. Cardinality(A) \in Nat /\ Cardinality(A) <= Cardinality(S)
    BY NewestIs
  <2> HIDE DEF A
  <2>2. Cardinality(A) <= n
    BY <1>1, <2>1
  <2> QED BY <2>2 DEF Newest, A
<1> QED
  BY <1>2, NewestIs

\* The newest one is among them, and the second if there is room for two.
LEMMA NewestSome ==
    ASSUME NEW N \in Nat, NEW S \in SUBSET (1..N), NEW n \in Nat, n >= 1,
           S # {}
    PROVE  Newest(n, S) # {}
<1>1. PICK x \in S : \A y \in S : y <= x
  BY HasGreatest
<1>0. \A k \in S : k \in Nat
  OBVIOUS
<1>2. {k \in S : k >= x} = {x}
  <2>1. \A k \in S : k >= x <=> k = x
    BY <1>0, <1>1
  <2> QED BY <2>1, Zenon
<1>3. Cardinality({k \in S : k >= x}) = 1
  BY <1>2, FS_Singleton
<1> QED
  BY <1>3 DEF Newest

LEMMA NewestTwo ==
    ASSUME NEW N \in Nat, NEW S \in SUBSET (1..N), NEW n \in Nat, n >= 2,
           NEW b \in S, \A k \in S : k <= b, NEW m \in S, m < b
    PROVE  \E k \in Newest(n, S) : k < b
<1> DEFINE T == S \ {b}
<1>1. T \subseteq 1..N /\ m \in T
  OBVIOUS
<1>2. PICK x \in T : \A y \in T : y <= x
  BY <1>1, HasGreatest
<1>3. x \in S /\ x < b
  BY <1>2
<1>4. {k \in S : k >= x} = {b} \cup {x}
  <2>1. \A k \in S : k \in Nat
    OBVIOUS
  <2>2. \A k \in S : k = b \/ k <= x
    BY <1>2
  <2> HIDE DEF T
  <2>3. \A k \in S : k >= x <=> k = b \/ k = x
    BY <1>3, <2>1, <2>2
  <2> QED BY <1>3, <2>3, Zenon
<1>5. Cardinality({b} \cup {x}) = 2
  <2>1. IsFiniteSet({b}) /\ Cardinality({b}) = 1
    BY FS_Singleton
  <2>2. x \notin {b}
    BY <1>3
  <2>3. Cardinality({b} \cup {x}) =
           IF x \in {b} THEN Cardinality({b}) ELSE Cardinality({b}) + 1
    BY <2>1, FS_AddElement
  <2> QED BY <2>1, <2>2, <2>3
<1>6. x \in Newest(n, S)
  BY <1>3, <1>4, <1>5 DEF Newest
<1> QED
  BY <1>3, <1>6

\* A request asks for one message at least, and for two if it starts from one.
LEMMA CountIs ==
    ASSUME NEW before \in Nat, NEW n \in Nat, n <= Limit
    PROVE  /\ Count(before, n) \in Nat /\ Count(before, n) >= 1
           /\ before # 0 => Count(before, n) >= 2
  BY WalksOK DEF WalkAssumption, Count, Min2

\* What getChatHistory answers: messages that exist, from the request's start
\* down, without a hole, and one below the start if there is any.
LEMMA ReplyIs ==
    ASSUME TypeOK, NEW before \in 0..top, NEW count \in Nat, count >= 1,
           before # 0 => count >= 2, NEW reply \in Replies(before, count)
    PROVE  /\ reply \subseteq (1..top) \ gone
           /\ \A x \in reply : \A y \in (1..top) \ gone :
                 y >= x /\ Below(before, y) => y \in reply
           /\ \A m \in (1..top) \ gone :
                 Below(before, m) => \E k \in reply : Below(before, k)
<1> DEFINE those == {m \in (1..top) \ gone : before = 0 \/ m <= before}
           some == IF before \in those THEN 2 ELSE 1
<1>1. top \in Nat
  BY WalksOK DEF TypeOK, WalkAssumption
<1>2. those \in SUBSET (1..top)
  OBVIOUS
<1>3. PICK n \in Min2(some, count)..count : reply = Newest(n, those)
  BY DEF Replies
<1>4. n \in Nat /\ n >= 1 /\ (before \in those => before # 0 /\ n >= 2)
  BY <1>1, <1>3 DEF Min2
<1>5. reply \subseteq those
  BY <1>1, <1>2, <1>3, <1>4, NewestIs
<1>6. ASSUME NEW x \in reply, NEW y \in (1..top) \ gone, y >= x, Below(before, y)
      PROVE  y \in reply
  <2>1. y \in those
    BY <1>1, <1>6 DEF Below
  <2> HIDE DEF those
  <2> QED BY <1>1, <1>2, <1>3, <1>4, <1>6, <2>1, NewestUp
<1>7. ASSUME NEW m \in (1..top) \ gone, Below(before, m)
      PROVE  \E k \in reply : Below(before, k)
  <2>1. m \in those
    BY <1>1, <1>7 DEF Below
  <2>2. CASE before \in those
    <3>1. before # 0 /\ n >= 2 /\ m < before
      BY <1>4, <1>7, <2>2 DEF Below
    <3>2. \A k \in those : k <= before
      BY <3>1
    <3> HIDE DEF those
    <3>3. \E k \in reply : k < before
      BY <1>1, <1>2, <1>3, <1>4, <2>1, <2>2, <3>1, <3>2, NewestTwo
    <3> QED BY <3>3 DEF Below
  <2>3. CASE before \notin those
    <3>1. reply # {}
      <4> HIDE DEF those
      <4> QED BY <1>1, <1>2, <1>3, <1>4, <2>1, NewestSome
    <3>2. ASSUME NEW k \in those PROVE Below(before, k)
      <4>1. k # before
        BY <2>3
      <4>2. k \in Nat /\ before \in Nat /\ (before = 0 \/ k <= before)
        BY <1>1
      <4> HIDE DEF those
      <4> QED BY <4>1, <4>2 DEF Below
    <3> HIDE DEF those
    <3> QED BY <1>5, <3>1, <3>2
  <2> QED BY <2>2, <2>3
<1> QED
  BY <1>5, <1>6, <1>7

\* The types, for later steps.
LEMMA WalkTypes ==
    ASSUME TypeOK
    PROVE  /\ top \in Nat /\ Limit \in Nat \ {0}
           /\ walk.cursor \in 0..top /\ walk.got \subseteq 1..top
           /\ walk.due \subseteq 1..top
           /\ page.before \in 0..top /\ page.ids \in SUBSET (1..top)
           /\ IsFiniteSet(page.ids) /\ Cardinality(page.ids) \in Nat
           /\ Cardinality(page.ids) <= Limit + 1
<1>1. top \in Nat /\ Limit \in Nat \ {0}
  BY WalksOK DEF TypeOK, WalkAssumption
<1>2. /\ walk.cursor \in 0..top /\ walk.got \subseteq 1..top
      /\ walk.due \subseteq 1..top
      /\ page.before \in 0..top /\ page.ids \in SUBSET (1..top)
      /\ Cardinality(page.ids) <= Limit + 1
  BY DEF TypeOK
<1>3. IsFiniteSet(page.ids)
  <2>1. IsFiniteSet(1..top)
    BY <1>1, FS_Interval
  <2> QED BY <1>2, <2>1, FS_Subset
<1> QED
  BY <1>1, <1>2, <1>3, FS_CardinalityType

-----------------------------------------------------------------------------
LEMMA WalkInitially == Init => WalkInv
<1> SUFFICES ASSUME Init PROVE WalkInv
  OBVIOUS
<1>1. TypeOK
  BY FS_EmptySet, WalksOK DEF Init, TypeOK, Idle, WalkAssumption
<1> QED
  BY <1>1 DEF Init, WalkInv, CursorFacts, PageFacts, PageEnds, WalkExact,
              WalkComplete, NoRepeat, Idle

\* Telegram: a message is sent, or deleted.
LEMMA WalkSend == ASSUME WalkInv, TgSend PROVE WalkInv'
<1>1. TypeOK /\ top \in Nat /\ top' = top + 1 /\ top' \in 0..MaxMsg
  BY WalkTypes, WalksOK DEF WalkInv, TgSend, TypeOK, WalkAssumption
<1>2. 1..top \subseteq 1..top' /\ 0..top \subseteq 0..top'
  BY <1>1
<1>3. UNCHANGED <<gone, walk, page, faults>>
  BY DEF TgSend
<1>4. TypeOK'
  BY <1>1, <1>2, <1>3 DEF TypeOK
<1> QED
  BY <1>3, <1>4 DEF WalkInv, CursorFacts, PageFacts, PageEnds, WalkExact,
              WalkComplete, NoRepeat

LEMMA WalkDelete == ASSUME WalkInv, NEW m \in Ids, TgDelete(m) PROVE WalkInv'
<1>1. TypeOK /\ m \in 1..top /\ gone' = gone \cup {m}
      /\ UNCHANGED <<top, walk, page, faults>>
  BY DEF WalkInv, TgDelete
<1>2. TypeOK'
  BY <1>1 DEF TypeOK
<1> QED
  BY <1>1, <1>2 DEF WalkInv, CursorFacts, PageFacts, PageEnds, WalkExact,
              WalkComplete, NoRepeat

\* The client begins, or asks for a page.
LEMMA WalkBegin == ASSUME WalkInv, Begin PROVE WalkInv'
<1>1. /\ TypeOK /\ page = Idle /\ UNCHANGED <<top, gone, page, faults>>
      /\ walk' = [step |-> "page", cursor |-> 0, due |-> (1..top) \ gone,
                  got |-> {}, twice |-> FALSE]
  BY DEF WalkInv, Begin
<1>2. TypeOK'
  BY <1>1, WalkTypes DEF TypeOK
<1>3. page'.step = "idle"
  BY <1>1 DEF Idle
<1> QED
  BY <1>1, <1>2, <1>3 DEF WalkInv, CursorFacts, PageFacts, PageEnds,
              WalkExact, WalkComplete, NoRepeat, Below

LEMMA WalkAsk == ASSUME WalkInv, Ask PROVE WalkInv'
<1>1. /\ TypeOK /\ walk.step = "page" /\ UNCHANGED <<top, gone, walk, faults>>
      /\ page' = [step |-> "fetch", before |-> walk.cursor, ids |-> {}]
  BY DEF WalkInv, Ask
<1>2. TypeOK'
  BY <1>1, WalkTypes, FS_EmptySet DEF TypeOK
<1>3. PageEnds'
  BY <1>1, WalkTypes, FS_EmptySet DEF PageEnds
<1>4. PageFacts'
  BY <1>1 DEF PageFacts
<1> QED
  BY <1>1, <1>2, <1>3, <1>4 DEF WalkInv, CursorFacts, WalkExact,
              WalkComplete, NoRepeat

\* A page that failed is forgotten.
LEMMA WalkFails == ASSUME WalkInv, Fails PROVE WalkInv'
<1>1. /\ TypeOK /\ page' = Idle /\ faults' = faults + 1
      /\ faults < MaxFaults /\ UNCHANGED <<top, gone, walk>>
  BY DEF WalkInv, Fails
<1>2. TypeOK'
  BY <1>1, WalkTypes, FS_EmptySet, WalksOK DEF TypeOK, Idle, WalkAssumption
<1>3. page'.step = "idle"
  BY <1>1 DEF Idle
<1> QED
  BY <1>1, <1>2, <1>3 DEF WalkInv, CursorFacts, PageFacts, PageEnds,
              WalkExact, WalkComplete, NoRepeat

\* One request to Telegram: what it brings is below the handler's position and
\* leaves no hole, so that the position moves down to the oldest message kept.
LEMMA WalkFetch == ASSUME WalkInv, Fetch PROVE WalkInv'
<1> DEFINE n == Cardinality(page.ids)
           room == Limit + 1 - n
<1>1. /\ TypeOK /\ CursorFacts /\ PageFacts /\ PageEnds /\ WalkExact
      /\ page.step = "fetch" /\ UNCHANGED <<top, gone, walk, faults>>
  BY DEF WalkInv, Fetch
<1>2. PICK reply \in Replies(page.before, Count(page.before, n)) :
         LET items == {m \in reply : Below(page.before, m)}
             ids == page.ids \cup Taken(items)
         IN  page' = [step |-> IF Done(items, ids) THEN "list" ELSE "fetch",
                      before |-> IF items = {} THEN page.before ELSE Least(ids),
                      ids |-> ids]
  BY DEF Fetch
<1> DEFINE items == {m \in reply : Below(page.before, m)}
           new == Newest(room, items)
           ids == page.ids \cup new
<1>3. /\ page'.step = (IF Done(items, ids) THEN "list" ELSE "fetch")
      /\ page'.before = (IF items = {} THEN page.before ELSE Least(ids))
      /\ page'.ids = ids
      /\ page' = [step |-> page'.step, before |-> page'.before, ids |-> ids]
  BY <1>2 DEF Taken
<1>4. /\ top \in Nat /\ Limit \in Nat \ {0} /\ n \in Nat /\ n <= Limit
      /\ page.before \in 0..top /\ page.ids \in SUBSET (1..top)
      /\ room \in Nat /\ room >= 1 /\ IsFiniteSet(page.ids)
  BY <1>1, WalkTypes DEF PageEnds
<1>5. /\ reply \subseteq (1..top) \ gone
      /\ \A x \in reply : \A y \in (1..top) \ gone :
            y >= x /\ Below(page.before, y) => y \in reply
      /\ \A m \in (1..top) \ gone :
            Below(page.before, m) => \E k \in reply : Below(page.before, k)
  <2> DEFINE count == Count(page.before, n)
  <2>1. count \in Nat /\ count >= 1 /\ (page.before # 0 => count >= 2)
    BY <1>4, CountIs
  <2> HIDE DEF count
  <2>2. reply \in Replies(page.before, count)
    BY <1>2 DEF count
  <2> QED BY <1>1, <1>4, <2>1, <2>2, ReplyIs
<1>6. items \in SUBSET (1..top) /\ items \subseteq (1..top) \ gone
  BY <1>5
<1> HIDE DEF n
<1>7. new \subseteq items /\ IsFiniteSet(new) /\ Cardinality(new) \in Nat
      /\ Cardinality(new) <= room
  <2> HIDE DEF items, room
  <2> QED BY <1>4, <1>6, NewestIs, NewestCount, FS_CardinalityType
<1>8. ids \in SUBSET (1..top) /\ IsFiniteSet(ids)
      /\ Cardinality(ids) \in Nat /\ Cardinality(ids) <= Limit + 1
  <2> DEFINE both == page.ids \cap new
  <2> HIDE DEF items, room, new
  <2>1. /\ IsFiniteSet(ids)
        /\ Cardinality(ids) = n + Cardinality(new) - Cardinality(both)
    BY <1>4, <1>7, FS_Union DEF n
  <2>2. both \in SUBSET new
    OBVIOUS
  <2>3. Cardinality(both) \in Nat
    BY <1>7, <2>2, FS_Subset, FS_CardinalityType
  <2>4. Cardinality(ids) \in Nat
    BY <2>1, FS_CardinalityType
  <2>5. Cardinality(ids) <= Limit + 1
    <3> HIDE DEF both, ids
    <3> QED BY <1>4, <1>7, <2>1, <2>3, <2>4 DEF room
  <2>6. ids \in SUBSET (1..top)
    BY <1>4, <1>6, <1>7
  <2> QED BY <2>1, <2>4, <2>5, <2>6
\* Something was brought, and its oldest message is the new position.
<1>9. ASSUME items # {}
      PROVE  /\ page'.before \in ids /\ page'.before \in 1..top
             /\ \A k \in ids : page'.before <= k
             /\ new # {} /\ page'.before \in new
  <2>1. new # {}
    <3> HIDE DEF items, room
    <3> QED BY <1>4, <1>6, <1>9, NewestSome
  <2>2. ids \subseteq Nat /\ ids # {}
    <3> HIDE DEF new
    <3> QED BY <1>8, <2>1
  <2>3. page'.before \in ids /\ \A k \in ids : page'.before <= k
    <3> HIDE DEF ids, items
    <3> QED BY <1>3, <1>9, <2>2, LeastIs
  <2>4. page'.before \in 1..top
    <3> HIDE DEF ids
    <3> QED BY <1>8, <2>3
  <2>5. page'.before \in new
    <3>1. PICK x \in new : x \in items
      BY <1>7, <2>1
    <3>2. ASSUME page'.before \in page.ids PROVE FALSE
      <4>1. page.before # 0 /\ page.before <= page'.before
        BY <1>1, <1>4, <2>4, <3>2 DEF PageFacts, Below
      <4>2. x < page.before /\ x \in Nat /\ page'.before <= x
        BY <1>6, <2>3, <3>1, <4>1 DEF Below
      <4> QED BY <1>4, <2>4, <4>1, <4>2
    <3> QED BY <2>3, <3>2
  <2> QED BY <2>1, <2>3, <2>4, <2>5
<1>10. TypeOK'
  <2>1. page'.before \in 0..top
    BY <1>3, <1>4, <1>9
  <2>2. page'.step \in {"fetch", "list"}
    BY <1>3
  <2>3. page' \in [step : {"idle", "fetch", "list"}, before : 0..top,
                   ids : SUBSET (1..top)]
    <3> HIDE DEF ids
    <3> QED BY <1>3, <1>8, <2>1, <2>2
  <2>4. Cardinality(page'.ids) <= Limit + 1
    <3> HIDE DEF ids
    <3> QED BY <1>3, <1>8
  <2> QED BY <1>1, <2>3, <2>4 DEF TypeOK
<1>11. \A m \in items : Below(walk.cursor, m)
  <2> SUFFICES ASSUME NEW m \in items PROVE Below(walk.cursor, m)
    OBVIOUS
  <2>1. m \in Nat /\ Below(page.before, m) /\ walk.cursor \in Nat
    BY <1>1, <1>6, WalkTypes
  <2>2. \/ page.before = walk.cursor
        \/ page.before # 0 /\ Below(walk.cursor, page.before)
    BY <1>1 DEF PageFacts
  <2> HIDE DEF items
  <2> QED BY <1>4, <2>1, <2>2 DEF Below
<1>12. PageFacts'
  <2>1. walk'.step = "page"
    BY <1>1 DEF PageFacts
  <2>2. \A m \in ids : Below(walk.cursor, m)
    BY <1>1, <1>7, <1>11 DEF PageFacts
  <2>3. CASE items = {}
    <3>1. page'.before = page.before /\ page'.ids = page.ids
      BY <1>3, <1>7, <2>3
    <3> QED BY <1>1, <3>1 DEF PageFacts
  <2>4. CASE items # {}
    <3> HIDE DEF items, new, ids
    <3>1. page'.before # 0 /\ Below(walk.cursor, page'.before)
      BY <1>4, <1>9, <2>2, <2>4
    <3>2. \A m \in ids : ~Below(page'.before, m)
      <4>1. \A m \in ids : m \in Nat /\ page'.before <= m
        BY <1>8, <1>9, <2>4
      <4>2. page'.before \in Nat
        BY <1>9, <2>4
      <4> QED BY <3>1, <4>1, <4>2 DEF Below
    <3>3. ASSUME NEW m \in walk.due \ gone, Below(walk.cursor, m),
                 ~Below(page'.before, m)
          PROVE  m \in ids
      <4>1. m \in (1..top) \ gone /\ m \in Nat
        BY <1>1, WalkTypes
      <4>2. CASE Below(page.before, m)
        <5>1. page'.before \in items /\ page'.before \in reply /\ m >= page'.before
          BY <1>4, <1>7, <1>9, <2>4, <3>3, <4>1 DEF Below, items
        <5>2. m \in items
          BY <1>5, <4>1, <4>2, <5>1 DEF items
        <5>3. m \in new
          <6> HIDE DEF room
          <6> QED BY <1>4, <1>6, <1>9, <2>4, <5>1, <5>2, NewestUp DEF new
        <5> QED BY <5>3 DEF ids
      <4>3. CASE ~Below(page.before, m)
        BY <1>1, <3>3, <4>3 DEF PageFacts, ids
      <4> QED BY <4>2, <4>3
    <3> QED BY <1>1, <1>3, <2>1, <2>2, <3>1, <3>2, <3>3 DEF PageFacts
  <2> QED BY <2>3, <2>4
<1>13. PageEnds'
  <2>1. ASSUME page'.step = "fetch" PROVE Cardinality(page'.ids) <= Limit
    <3> HIDE DEF ids, items
    <3>1. Cardinality(ids) # Limit + 1
      BY <1>3, <2>1 DEF Done
    <3> QED BY <1>3, <1>4, <1>8, <3>1
  <2>2. ASSUME page'.step = "list", Cardinality(page'.ids) <= Limit,
               NEW m \in walk'.due \ gone', Below(walk'.cursor, m)
        PROVE  m \in page'.ids
    <3>1. items = {}
      <4> HIDE DEF ids, items
      <4> QED BY <1>3, <1>4, <1>8, <2>2 DEF Done
    <3>2. m \in (1..top) \ gone
      BY <1>1, <2>2, WalkTypes
    <3>3. ~Below(page.before, m)
      BY <1>5, <3>1, <3>2
    <3>4. m \in page.ids
      BY <1>1, <2>2, <3>3 DEF PageFacts
    <3> QED BY <1>3, <3>4
  <2> QED BY <2>1, <2>2 DEF PageEnds
<1>14. CursorFacts' /\ WalkExact'
  BY <1>1 DEF CursorFacts, WalkExact, WalkComplete, NoRepeat
<1> QED
  BY <1>10, <1>12, <1>13, <1>14 DEF WalkInv

\* The answer: the newest Limit of what was collected.  Nothing between the old
\* cursor and the new one is missing, and nothing at or above the old cursor is
\* sent again.
LEMMA WalkAnswer == ASSUME WalkInv, Answer PROVE WalkInv'
<1> DEFINE items == Newest(Limit, page.ids)
           more == Cardinality(page.ids) > Limit
<1>1. /\ TypeOK /\ CursorFacts /\ PageFacts /\ PageEnds /\ WalkExact
      /\ page.step = "list" /\ page' = Idle /\ UNCHANGED <<top, gone, faults>>
  BY DEF WalkInv, Answer
<1>2. walk' = [walk EXCEPT
                 !.step = IF more THEN "page" ELSE "end",
                 !.cursor = IF more THEN Least(items) ELSE 0,
                 !.got = @ \cup items,
                 !.twice = walk.twice \/ items \cap walk.got # {}]
  BY DEF Answer
<1>3. /\ walk \in [step : {"idle", "page", "end"}, cursor : 0..top,
                   due : SUBSET (1..top), got : SUBSET (1..top), twice : BOOLEAN]
      /\ walk.step = "page"
  BY <1>1 DEF TypeOK, PageFacts
<1> HIDE DEF items, more
<1>4. /\ walk'.step = (IF more THEN "page" ELSE "end")
      /\ walk'.cursor = (IF more THEN Least(items) ELSE 0)
      /\ walk'.got = walk.got \cup items /\ walk'.due = walk.due
  BY <1>2, <1>3
<1>5. walk'.twice = (walk.twice \/ items \cap walk.got # {})
  BY <1>2, <1>3
<1>6. /\ top \in Nat /\ Limit \in Nat \ {0} /\ page.ids \in SUBSET (1..top)
      /\ Cardinality(page.ids) \in Nat /\ IsFiniteSet(page.ids)
  BY <1>1, WalkTypes
<1>7. items \subseteq page.ids /\ items \subseteq 1..top
  BY <1>6, NewestIs DEF items
<1>8. items \cap walk.got = {}
  BY <1>1, <1>3, <1>7 DEF CursorFacts, PageFacts
<1>9. ~walk'.twice
  BY <1>1, <1>5, <1>8 DEF WalkExact, NoRepeat
<1>10. ASSUME more
       PROVE  /\ walk'.cursor \in items /\ walk'.cursor \in 1..top
              /\ \A k \in items : walk'.cursor <= k
  <2>1. page.ids # {}
    BY <1>6, <1>10, FS_EmptySet DEF more
  <2>2. items # {}
    <3>1. Limit \in Nat /\ Limit >= 1
      BY <1>6
    <3> QED BY <1>6, <2>1, <3>1, NewestSome DEF items
  <2>3. items \subseteq Nat
    BY <1>7
  <2>4. walk'.cursor = Least(items)
    BY <1>4, <1>10
  <2>5. walk'.cursor \in items /\ \A k \in items : walk'.cursor <= k
    BY <2>2, <2>3, <2>4, LeastIs
  <2> QED BY <1>7, <2>5
<1>11. TypeOK'
  <2>1. walk'.cursor \in 0..top
    BY <1>4, <1>6, <1>10
  <2>2. walk' \in [step : {"idle", "page", "end"}, cursor : 0..top,
                   due : SUBSET (1..top), got : SUBSET (1..top), twice : BOOLEAN]
    <3>1. walk'.step \in {"idle", "page", "end"} /\ walk'.due \in SUBSET (1..top)
          /\ walk'.got \in SUBSET (1..top)
      BY <1>3, <1>4, <1>7
    <3>2. walk'.twice \in BOOLEAN
      BY <1>5
    <3>3. walk' = [step |-> walk'.step, cursor |-> walk'.cursor, due |-> walk'.due,
                   got |-> walk'.got, twice |-> walk'.twice]
      BY <1>2, <1>3
    <3> QED BY <2>1, <3>1, <3>2, <3>3
  <2> QED BY <1>1, <1>6, <2>2, FS_EmptySet DEF TypeOK, Idle
<1>12. page'.step = "idle"
  BY <1>1 DEF Idle
<1>13. PageFacts' /\ PageEnds'
  BY <1>12 DEF PageFacts, PageEnds
<1>14. CursorFacts'
  <2> SUFFICES ASSUME more
               PROVE  /\ \A m \in walk'.got : ~Below(walk'.cursor, m)
                      /\ \A m \in walk'.due \ gone' :
                            ~Below(walk'.cursor, m) => m \in walk'.got
    BY <1>4 DEF CursorFacts
  <2>1. walk'.cursor \in page.ids /\ Below(walk.cursor, walk'.cursor)
        /\ ~Below(page.before, walk'.cursor)
    BY <1>1, <1>7, <1>10 DEF PageFacts
  <2>2. ASSUME NEW m \in walk'.got PROVE ~Below(walk'.cursor, m)
    <3>0. m \in 1..top /\ walk.cursor \in 0..top /\ walk'.cursor \in 1..top
      BY <1>1, <1>4, <1>7, <1>10, <2>2, WalkTypes
    <3>1. /\ m \in Nat /\ walk.cursor \in Nat /\ walk'.cursor \in Nat
          /\ walk'.cursor # 0
      BY <3>0
    <3>2. CASE m \in items
      BY <1>10, <3>1, <3>2 DEF Below
    <3>3. CASE m \in walk.got
      <4>1. walk.cursor # 0 /\ walk.cursor <= m
        BY <1>1, <1>3, <3>1, <3>3 DEF CursorFacts, Below
      <4> QED BY <2>1, <3>1, <4>1 DEF Below
    <3> QED BY <1>4, <2>2, <3>2, <3>3
  <2>3. ASSUME NEW m \in walk'.due \ gone', ~Below(walk'.cursor, m)
        PROVE  m \in walk'.got
    <3>1. /\ m \in walk.due \ gone /\ m \in Nat /\ walk.cursor \in Nat
          /\ page.before \in Nat /\ walk'.cursor \in Nat
      BY <1>1, <1>4, <1>6, <1>10, <2>3, WalkTypes
    <3>2. walk'.cursor <= m
      BY <2>3, <3>1 DEF Below
    <3>3. CASE ~Below(walk.cursor, m)
      BY <1>1, <1>3, <1>4, <3>1, <3>3 DEF CursorFacts
    <3>4. CASE Below(walk.cursor, m)
      <4>1. ~Below(page.before, m)
        BY <2>1, <3>1, <3>2 DEF Below
      <4>2. m \in page.ids
        BY <1>1, <3>1, <3>4, <4>1 DEF PageFacts
      <4>3. m \in items
        BY <1>6, <1>10, <3>2, <4>2, NewestUp DEF items
      <4> QED BY <1>4, <4>3
    <3> QED BY <3>3, <3>4
  <2> QED BY <2>2, <2>3
<1>15. WalkComplete'
  <2> SUFFICES ASSUME ~more, NEW m \in walk'.due \ gone'
               PROVE  m \in walk'.got
    BY <1>4 DEF WalkComplete
  <2>1. items = page.ids /\ Cardinality(page.ids) <= Limit
    <3>1. Cardinality(page.ids) <= Limit
      BY <1>6 DEF more
    <3> QED BY <1>6, <3>1, NewestAll DEF items
  <2>2. m \in walk.due \ gone
    BY <1>1, <1>4
  <2>3. CASE Below(walk.cursor, m)
    BY <1>1, <1>4, <2>1, <2>2, <2>3 DEF PageEnds
  <2>4. CASE ~Below(walk.cursor, m)
    BY <1>1, <1>3, <1>4, <2>2, <2>4 DEF CursorFacts
  <2> QED BY <2>3, <2>4
<1> QED
  BY <1>9, <1>11, <1>13, <1>14, <1>15 DEF WalkInv, WalkExact, NoRepeat

LEMMA WalkNext == WalkInv /\ [Next]_vars => WalkInv'
<1> SUFFICES ASSUME WalkInv, [Next]_vars PROVE WalkInv'
  OBVIOUS
<1>1. ASSUME UNCHANGED vars PROVE WalkInv'
  BY <1>1 DEF vars, WalkInv, TypeOK, CursorFacts, PageFacts, PageEnds,
              WalkExact, WalkComplete, NoRepeat
<1> QED
  BY <1>1, WalkSend, WalkDelete, WalkBegin, WalkAsk, WalkFetch, WalkAnswer,
     WalkFails DEF Next

\* A cursor names what the client has received: everything from it up.
THEOREM WalkInvariant == Spec => []WalkInv
  BY WalkInitially, WalkNext, PTL DEF Spec

\* For chats, pages and requests of any size, whatever is sent, deleted or fails
\* on the way: a client that follows next_cursor to its end has received every
\* message that was there all the time, and none twice.
THEOREM WalkBringsEach == Spec => []WalkExact
<1>1. WalkInv => WalkExact
  BY DEF WalkInv
<1> QED
  BY <1>1, WalkInvariant, PTL

-----------------------------------------------------------------------------
\* A request is in progress only while the owner waits for a page, and
\* loadChats' 404 still holds when getChats is called.
CallFacts ==
    /\ call # C!Idle => tour.step = "page"
    /\ call.exhausted =>
          call.step = "get" /\ loaded[tour.list] = Len(lists[tour.list])

\* Every chat is somewhere in the lists.
AllListed ==
    \A c \in Chats : \E l \in 0..1 : \E i \in 1..Len(lists[l]) : lists[l][i] = c

\* The owner has passed place i of list l.
Passed(l, i) == l < tour.list \/ (l = tour.list /\ i <= tour.offset)

\* What is behind the cursor was met, or moved there.
BehindIsMet ==
    tour.step = "page" =>
        \A l \in 0..1 : \A i \in 1..Len(lists[l]) :
            Passed(l, i) => lists[l][i] \in Secret \cup tour.moved \cup tour.got

ChatInv == C!TypeOK /\ CallFacts /\ AllListed /\ BehindIsMet /\ ChatsMet

\* The types, for later steps.
Tours == [step : {"idle", "page", "end"}, list : 0..1, offset : Nat,
          got : SUBSET Chats, moved : SUBSET Chats]

LEMMA ChatTypes ==
    ASSUME C!TypeOK
    PROVE  /\ tour \in Tours /\ tour.list \in 0..1 /\ tour.offset \in Nat
           /\ tour.offset <= Len(lists[tour.list])
           /\ \A l \in 0..1 : /\ lists[l] \in Seq(Chats) /\ Len(lists[l]) \in Nat
                              /\ loaded[l] \in Nat /\ loaded[l] <= Len(lists[l])
           /\ lists \in [0..1 -> Seq(Chats)] /\ loaded \in [0..1 -> Nat]
           /\ call \in [step : {"idle", "load", "get"}, exhausted : BOOLEAN]
           /\ Limit \in Nat \ {0}
<1>1. lists \in [0..1 -> Seq(Chats)] /\ loaded \in [0..1 -> Nat] /\ tour \in Tours
  BY DEF C!TypeOK, Tours
<1>2. \A l \in 0..1 : lists[l] \in Seq(Chats) /\ Len(lists[l]) \in Nat
                      /\ loaded[l] \in Nat /\ loaded[l] <= Len(lists[l])
  BY <1>1 DEF C!TypeOK
<1>3. /\ tour.list \in 0..1 /\ tour.offset \in Nat
      /\ tour.offset <= Len(lists[tour.list])
      /\ call \in [step : {"idle", "load", "get"}, exhausted : BOOLEAN]
  BY <1>1 DEF C!TypeOK, Tours
<1> QED
  BY <1>1, <1>2, <1>3, WalksOK DEF WalkAssumption

\* The rest of the types, when the lists and the walk keep theirs.
LEMMA ChatTypesNext ==
    ASSUME C!TypeOK, lists' \in [0..1 -> Seq(Chats)], loaded' \in [0..1 -> Nat],
           \A l \in 0..1 : loaded'[l] <= Len(lists'[l]),
           tour' \in Tours, tour'.offset <= Len(lists'[tour'.list]),
           call' \in [step : {"idle", "load", "get"}, exhausted : BOOLEAN],
           kept' \in SUBSET (Chats \ Secret),
           moves' \in 0..MaxMoves, upsets' \in 0..MaxFaults
    PROVE  C!TypeOK'
  BY DEF C!TypeOK, Tours

\* A sequence that names a finite set without repetition names all of it.
LEMMA OrderNamesAll ==
    ASSUME NEW S, IsFiniteSet(S), NEW s \in C!SetToSeqs(S)
    PROVE  /\ s \in Seq(S)
           /\ \A c \in S : \E i \in 1..Len(s) : s[i] = c
<1> DEFINE D == 1..Cardinality(S)
<1>1. Cardinality(S) \in Nat /\ C!Cardinality(S) = Cardinality(S)
  BY FS_CardinalityType DEF C!Cardinality, Cardinality
<1>2. s \in [D -> S] /\ \A i, j \in D : i # j => s[i] # s[j]
  BY <1>1 DEF C!SetToSeqs
<1>3. s \in Seq(S) /\ Len(s) = Cardinality(S)
  BY <1>1, <1>2
<1>4. IsFiniteSet(D) /\ Cardinality(D) = Cardinality(S)
  BY <1>1, FS_Interval
<1>5. s \in Injection(D, S)
  BY <1>2 DEF Injection, IsInjective
<1> HIDE DEF D
<1>6. s \in Surjection(D, S)
  BY <1>4, <1>5, FS_Injection
<1>7. \A c \in S : \E i \in D : s[i] = c
  BY <1>6 DEF Surjection
<1> QED
  BY <1>3, <1>7 DEF D

LEMMA ChatInitially == C!Init => ChatInv
<1> SUFFICES ASSUME C!Init PROVE ChatInv
  OBVIOUS
<1>1. PICK main \in SUBSET Chats :
        \E m \in C!SetToSeqs(main), a \in C!SetToSeqs(Chats \ main) :
            lists = [l \in 0..1 |-> IF l = 0 THEN m ELSE a]
  BY DEF C!Init
<1>2. PICK m \in C!SetToSeqs(main), a \in C!SetToSeqs(Chats \ main) :
        lists = [l \in 0..1 |-> IF l = 0 THEN m ELSE a]
  BY <1>1
<1>3. IsFiniteSet(Chats)
  BY WalksOK DEF C!ChatsAssumption, C!IsFiniteSet, IsFiniteSet
<1>4. IsFiniteSet(main) /\ IsFiniteSet(Chats \ main)
  BY <1>3, FS_Subset
<1>5. m \in Seq(main) /\ \A c \in main : \E i \in 1..Len(m) : m[i] = c
  BY <1>4, OrderNamesAll
<1>6. a \in Seq(Chats \ main)
      /\ \A c \in Chats \ main : \E i \in 1..Len(a) : a[i] = c
  BY <1>4, OrderNamesAll
<1>7. lists[0] = m /\ lists[1] = a /\ lists \in [0..1 -> Seq(Chats)]
  <2>1. m \in Seq(Chats) /\ a \in Seq(Chats)
    BY <1>5, <1>6
  <2> QED BY <1>2, <2>1
<1>8. AllListed
  <2> SUFFICES ASSUME NEW c \in Chats
               PROVE  \E l \in 0..1 : \E i \in 1..Len(lists[l]) : lists[l][i] = c
    BY DEF AllListed
  <2>1. CASE c \in main
    BY <1>5, <1>7, <2>1
  <2>2. CASE c \notin main
    BY <1>6, <1>7, <2>2
  <2> QED BY <2>1, <2>2
<1>9. /\ loaded = [l \in 0..1 |-> 0] /\ call = C!Idle /\ kept = {} /\ moves = 0
      /\ tour = [step |-> "idle", list |-> 0, offset |-> 0, got |-> {},
                 moved |-> {}]
      /\ upsets = 0
  BY DEF C!Init
<1>10. C!TypeOK
  <2>1. \A l \in 0..1 : Len(lists[l]) \in Nat
    BY <1>7
  <2> QED BY <1>7, <1>9, <2>1, WalksOK DEF C!TypeOK, C!Idle, C!ChatsAssumption
<1> QED
  BY <1>8, <1>9, <1>10 DEF ChatInv, CallFacts, BehindIsMet, ChatsMet, C!ChatsMet,
                           C!Idle

\* A list with the chat at a place raised to its top.
LEMMA RaisedIs ==
    ASSUME NEW s \in Seq(Chats), NEW at \in 1..Len(s)
    PROVE  /\ C!Raised(s, at) \in Seq(Chats)
           /\ Len(C!Raised(s, at)) = Len(s)
           /\ C!Raised(s, at)[1] = s[at]
           /\ \A i \in 2..at : C!Raised(s, at)[i] = s[i - 1]
           /\ \A i \in (at + 1)..Len(s) : C!Raised(s, at)[i] = s[i]
<1> DEFINE n == Len(s)
           t == C!Raised(s, at)
<1>1. n \in Nat /\ at \in 1..n /\ \A i \in 1..n : s[i] \in Chats
  OBVIOUS
<1>2. t = [i \in 1..n |-> IF i = 1 THEN s[at]
                          ELSE IF i <= at THEN s[i - 1] ELSE s[i]]
  BY DEF C!Raised
<1> HIDE DEF n, t
<1>3. \A i \in 1..n : t[i] = IF i = 1 THEN s[at]
                             ELSE IF i <= at THEN s[i - 1] ELSE s[i]
  BY <1>2
<1>4. \A i \in 1..n : t[i] \in Chats
  BY <1>1, <1>3
<1>5. t \in [1..n -> Chats]
  BY <1>2, <1>4
<1>6. t \in Seq(Chats) /\ Len(t) = n
  BY <1>1, <1>5
<1>7. t[1] = s[at]
  BY <1>1, <1>3
<1>8. \A i \in 2..at : t[i] = s[i - 1]
  BY <1>1, <1>3
<1>9. \A i \in (at + 1)..n : t[i] = s[i]
  BY <1>1, <1>3
<1> QED
  BY <1>6, <1>7, <1>8, <1>9 DEF n, t

\* A chat moves to the top: the others go down at most, so that what comes to a
\* place behind the cursor was behind it, or is the chat that moved.
LEMMA ChatMove ==
    ASSUME ChatInv, NEW c \in Chats, NEW l \in 0..1, C!Move(c, l)
    PROVE  ChatInv'
<1>1. /\ C!TypeOK /\ CallFacts /\ AllListed /\ BehindIsMet /\ ChatsMet
      /\ UNCHANGED <<call, kept, upsets>>
      /\ moves' = moves + 1 /\ moves < MaxMoves
      /\ tour' = [tour EXCEPT !.moved = @ \cup {c}]
  BY DEF ChatInv, C!Move
<1>2. PICK at \in DOMAIN lists[l] :
        /\ lists[l][at] = c
        /\ loaded' = IF at > loaded[l] THEN [loaded EXCEPT ![l] = @ + 1] ELSE loaded
        /\ lists' = [lists EXCEPT ![l] = C!Raised(@, at)]
  BY DEF C!Move
<1>3. lists[l] \in Seq(Chats) /\ Len(lists[l]) \in Nat /\ at \in 1..Len(lists[l])
  BY <1>1, <1>2, ChatTypes
<1>4. lists'[l] = C!Raised(lists[l], at) /\ \A k \in 0..1 : k # l => lists'[k] = lists[k]
  BY <1>1, <1>2, ChatTypes
<1>5. /\ lists'[l] \in Seq(Chats) /\ Len(lists'[l]) = Len(lists[l])
      /\ lists'[l][1] = c
      /\ \A i \in 2..at : lists'[l][i] = lists[l][i - 1]
      /\ \A i \in (at + 1)..Len(lists[l]) : lists'[l][i] = lists[l][i]
  BY <1>2, <1>3, <1>4, RaisedIs
<1>6. \A k \in 0..1 : lists'[k] \in Seq(Chats) /\ Len(lists'[k]) = Len(lists[k])
  BY <1>1, <1>4, <1>5, ChatTypes
<1>7. lists' \in [0..1 -> Seq(Chats)]
  BY <1>1, <1>2, <1>4, <1>6, ChatTypes
<1>8. /\ loaded' \in [0..1 -> Nat]
      /\ \A k \in 0..1 : k # l => loaded'[k] = loaded[k]
      /\ loaded'[l] = (IF at > loaded[l] THEN loaded[l] + 1 ELSE loaded[l])
  BY <1>1, <1>2, ChatTypes
<1>9. \A k \in 0..1 : loaded'[k] <= Len(lists'[k])
  BY <1>1, <1>3, <1>6, <1>8, ChatTypes
<1>10. /\ tour' \in Tours /\ tour'.step = tour.step /\ tour'.list = tour.list
       /\ tour'.offset = tour.offset /\ tour'.got = tour.got
       /\ tour'.moved = tour.moved \cup {c}
  BY <1>1, ChatTypes DEF Tours
<1>11. C!TypeOK'
  <2>1. tour'.offset <= Len(lists'[tour'.list])
    BY <1>1, <1>6, <1>10, ChatTypes
  <2>2. moves' \in 0..MaxMoves
    BY <1>1, WalksOK DEF C!TypeOK, C!ChatsAssumption
  <2>3. /\ call' \in [step : {"idle", "load", "get"}, exhausted : BOOLEAN]
        /\ kept' \in SUBSET (Chats \ Secret) /\ upsets' \in 0..MaxFaults
    BY <1>1 DEF C!TypeOK
  <2> QED BY <1>1, <1>7, <1>8, <1>9, <1>10, <2>1, <2>2, <2>3, ChatTypesNext
<1>12. CallFacts'
  <2>1. call' # C!Idle => tour'.step = "page"
    BY <1>1, <1>10 DEF CallFacts
  <2>2. ASSUME call'.exhausted
        PROVE  call'.step = "get" /\ loaded'[tour'.list] = Len(lists'[tour'.list])
    <3>1. call.step = "get" /\ loaded[tour.list] = Len(lists[tour.list])
      BY <1>1, <2>2 DEF CallFacts
    <3>2. loaded'[tour.list] = loaded[tour.list]
      BY <1>1, <1>3, <1>8, <3>1, ChatTypes
    <3> QED BY <1>1, <1>6, <1>10, <3>1, <3>2, ChatTypes
  <2> QED BY <2>1, <2>2 DEF CallFacts
<1>13. AllListed'
  <2> SUFFICES ASSUME NEW d \in Chats
               PROVE  \E k \in 0..1 : \E i \in 1..Len(lists'[k]) : lists'[k][i] = d
    BY DEF AllListed
  <2>0. PICK k \in 0..1 : \E i \in 1..Len(lists[k]) : lists[k][i] = d
    BY <1>1 DEF AllListed
  <2>1. PICK i \in 1..Len(lists[k]) : lists[k][i] = d
    BY <2>0
  <2>2. CASE k # l
    BY <1>4, <2>1, <2>2
  <2>3. CASE k = l /\ i < at
    <3>1. i + 1 \in 2..at /\ i + 1 \in 1..Len(lists'[l]) /\ (i + 1) - 1 = i
      BY <1>3, <1>5, <2>1, <2>3
    <3>2. lists'[l][i + 1] = lists[l][i]
      BY <1>5, <3>1
    <3> QED BY <2>1, <2>3, <3>1, <3>2
  <2>4. CASE k = l /\ i = at
    <3>1. 1 \in 1..Len(lists'[l]) /\ d = c
      BY <1>2, <1>3, <1>5, <2>1, <2>4
    <3> QED BY <1>5, <3>1
  <2>5. CASE k = l /\ i > at
    <3>1. i \in (at + 1)..Len(lists[l]) /\ i \in 1..Len(lists'[l])
      BY <1>3, <1>5, <2>1, <2>5
    <3> QED BY <1>5, <2>1, <2>5, <3>1
  <2>6. i < at \/ i = at \/ i > at
    BY <1>3, <2>1
  <2> QED BY <2>2, <2>3, <2>4, <2>5, <2>6
<1>14. BehindIsMet'
  <2> SUFFICES ASSUME tour.step = "page", NEW k \in 0..1,
                      NEW i \in 1..Len(lists'[k]), Passed(k, i)
               PROVE  lists'[k][i] \in Secret \cup tour'.moved \cup tour'.got
    BY <1>10 DEF BehindIsMet, Passed
  <2>0. \A j \in 1..Len(lists[k]) : Passed(k, j) =>
           lists[k][j] \in Secret \cup tour'.moved \cup tour'.got
    BY <1>1, <1>10 DEF BehindIsMet
  <2>1. /\ i \in 1..Len(lists[k]) /\ i \in Nat /\ tour.offset \in Nat
        /\ tour.list \in 0..1
    BY <1>1, <1>6, ChatTypes
  <2>2. CASE k # l
    BY <1>4, <2>0, <2>1, <2>2
  <2>3. CASE k = l /\ i = 1
    BY <1>5, <1>10, <2>3
  <2>4. CASE k = l /\ i \in 2..at
    <3>1. i - 1 \in 1..Len(lists[k]) /\ Passed(k, i - 1)
      BY <1>3, <2>1, <2>4 DEF Passed
    <3>2. lists'[k][i] = lists[k][i - 1]
      BY <1>5, <2>4
    <3> QED BY <2>0, <3>1, <3>2
  <2>5. CASE k = l /\ i \in (at + 1)..Len(lists[l])
    BY <1>5, <2>0, <2>1, <2>5
  <2>6. k = l => i = 1 \/ i \in 2..at \/ i \in (at + 1)..Len(lists[l])
    BY <1>3, <2>1
  <2> QED BY <2>2, <2>3, <2>4, <2>5, <2>6
<1>15. ChatsMet'
  BY <1>1, <1>10 DEF ChatsMet, C!ChatsMet
<1> QED
  BY <1>11, <1>12, <1>13, <1>14, <1>15 DEF ChatInv

\* No request is left: the session was opened again, or a page failed.
LEMMA ChatDrops ==
    ASSUME ChatInv, call' = C!Idle, upsets < MaxFaults, upsets' = upsets + 1,
           UNCHANGED <<lists, tour, kept, moves>>,
           loaded' \in {loaded, [l \in 0..1 |-> 0]}
    PROVE  ChatInv'
<1>1. C!TypeOK /\ CallFacts /\ AllListed /\ BehindIsMet /\ ChatsMet
  BY DEF ChatInv
<1>2. C!TypeOK'
  <2>1. \A l \in 0..1 : loaded'[l] <= Len(lists'[l])
    BY <1>1, ChatTypes
  <2>2. loaded' \in [0..1 -> Nat]
    BY <1>1, ChatTypes
  <2>3. upsets' \in 0..MaxFaults
    BY <1>1, WalksOK DEF C!TypeOK, C!ChatsAssumption
  <2>4. call' \in [step : {"idle", "load", "get"}, exhausted : BOOLEAN]
    BY DEF C!Idle
  <2> QED BY <1>1, <2>1, <2>2, <2>3, <2>4 DEF C!TypeOK
<1>3. CallFacts'
  BY DEF CallFacts, C!Idle
<1> QED
  BY <1>1, <1>2, <1>3 DEF ChatInv, AllListed, BehindIsMet, Passed, ChatsMet,
                          C!ChatsMet

LEMMA ChatBegin == ASSUME ChatInv, C!Begin PROVE ChatInv'
<1>1. /\ C!TypeOK /\ CallFacts /\ AllListed /\ tour.step # "page"
      /\ tour' = [step |-> "page", list |-> 0, offset |-> 0, got |-> {},
                  moved |-> {}]
      /\ UNCHANGED <<lists, loaded, call, kept, moves, upsets>>
  BY DEF ChatInv, C!Begin
<1>2. call = C!Idle
  BY <1>1 DEF CallFacts
<1>3. C!TypeOK'
  <2>1. tour' \in Tours /\ tour'.list = 0 /\ tour'.offset = 0
    BY <1>1 DEF Tours
  <2>2. tour'.offset <= Len(lists'[tour'.list])
    BY <1>1, <2>1, ChatTypes
  <2> QED BY <1>1, <2>1, <2>2 DEF C!TypeOK, Tours
<1>4. CallFacts'
  BY <1>1, <1>2 DEF CallFacts, C!Idle
<1>5. BehindIsMet'
  <2>1. \A l \in 0..1 : Len(lists[l]) \in Nat
    BY <1>1, ChatTypes
  <2> QED BY <1>1, <2>1 DEF BehindIsMet, Passed
<1> QED
  BY <1>1, <1>3, <1>4, <1>5 DEF ChatInv, AllListed, ChatsMet, C!ChatsMet

LEMMA ChatAsk == ASSUME ChatInv, C!Ask PROVE ChatInv'
<1>1. /\ C!TypeOK /\ CallFacts /\ AllListed /\ tour.step = "page"
      /\ call' = [step |-> "load", exhausted |-> FALSE]
      /\ UNCHANGED <<lists, loaded, tour, kept, moves, upsets>>
  BY DEF ChatInv, C!Ask
<1>2. C!TypeOK'
  BY <1>1 DEF C!TypeOK
<1>3. CallFacts'
  BY <1>1 DEF CallFacts
<1> QED
  BY <1>1, <1>2, <1>3 DEF ChatInv, AllListed, BehindIsMet, Passed, ChatsMet,
                          C!ChatsMet

\* loadChats: 404 says that all is loaded, and nothing less is said.
LEMMA ChatLoad == ASSUME ChatInv, C!Load PROVE ChatInv'
<1> DEFINE l == tour.list
<1>1. /\ C!TypeOK /\ CallFacts /\ AllListed /\ call.step = "load"
      /\ UNCHANGED <<lists, tour, kept, moves, upsets>>
  BY DEF ChatInv, C!Load
<1>2. /\ l \in 0..1 /\ lists \in [0..1 -> Seq(Chats)] /\ loaded \in [0..1 -> Nat]
      /\ \A k \in 0..1 : Len(lists[k]) \in Nat /\ loaded[k] \in Nat
                         /\ loaded[k] <= Len(lists[k])
      /\ Limit \in Nat
  BY <1>1, ChatTypes
<1>3. tour.step = "page"
  BY <1>1 DEF CallFacts, C!Idle
<1> HIDE DEF l
<1>4. \/ /\ loaded[l] = Len(lists[l]) /\ UNCHANGED loaded
         /\ call' = [step |-> "get", exhausted |-> TRUE]
      \/ /\ call' = [step |-> "get", exhausted |-> FALSE]
         /\ \E n \in 1..Limit :
              loaded' = [loaded EXCEPT ![l] = C!Smaller(@ + n, Len(lists[l]))]
  BY DEF C!Load, l
<1>5. /\ loaded' \in [0..1 -> Nat]
      /\ \A k \in 0..1 : loaded'[k] <= Len(lists[k])
      /\ call' \in [step : {"idle", "load", "get"}, exhausted : BOOLEAN]
      /\ call'.exhausted => call'.step = "get" /\ loaded'[l] = Len(lists[l])
  <2>1. CASE /\ loaded[l] = Len(lists[l]) /\ UNCHANGED loaded
             /\ call' = [step |-> "get", exhausted |-> TRUE]
    BY <1>2, <2>1
  <2>2. CASE /\ call' = [step |-> "get", exhausted |-> FALSE]
             /\ \E n \in 1..Limit :
                  loaded' = [loaded EXCEPT ![l] = C!Smaller(@ + n, Len(lists[l]))]
    <3>1. PICK n \in 1..Limit :
            loaded' = [loaded EXCEPT ![l] = C!Smaller(loaded[l] + n, Len(lists[l]))]
      BY <2>2
    <3> DEFINE v == C!Smaller(loaded[l] + n, Len(lists[l]))
    <3>2. v \in Nat /\ v <= Len(lists[l])
      BY <1>2, <3>1 DEF C!Smaller
    <3> HIDE DEF v
    <3>3. loaded' = [loaded EXCEPT ![l] = v]
      BY <3>1 DEF v
    <3>4. loaded' \in [0..1 -> Nat] /\ \A k \in 0..1 : loaded'[k] <= Len(lists[k])
      BY <1>2, <3>2, <3>3
    <3> QED BY <2>2, <3>4
  <2> QED BY <1>4, <2>1, <2>2
<1>6. C!TypeOK'
  BY <1>1, <1>5 DEF C!TypeOK
<1>7. CallFacts'
  BY <1>1, <1>3, <1>5 DEF CallFacts, l
<1> QED
  BY <1>1, <1>6, <1>7 DEF ChatInv, AllListed, BehindIsMet, Passed, ChatsMet,
                          C!ChatsMet

\* Where a page leaves the owner: at the same place, further in the list (or, if
\* fewer chats are loaded than before, less far), at the beginning of the archive
\* or at the end; the last two only when the page ends with the list.
LEMMA PageGoesOn ==
    ASSUME C!TypeOK, CallFacts, C!Get, NEW end, end = C!End(tour.list, tour.offset),
           NEW items,
           items = {lists[tour.list][i] : i \in (tour.offset + 1)..end} \ Secret
    PROVE  /\ end \in Nat /\ end <= Len(lists[tour.list])
           /\ \/ UNCHANGED <<tour, kept>> /\ call' = [step |-> "load", exhausted |-> FALSE]
              \/ UNCHANGED tour /\ call' = C!Idle /\ kept' = kept \cup items
              \/ /\ tour' = [tour EXCEPT !.offset = end, !.got = @ \cup items]
                 /\ call' = C!Idle /\ kept' = kept \cup items
              \/ /\ tour' = [tour EXCEPT !.list = 1, !.offset = 0, !.got = @ \cup items]
                 /\ tour.list = 0 /\ end = Len(lists[0])
                 /\ call' = C!Idle /\ kept' = kept \cup items
              \/ /\ tour' = [tour EXCEPT !.step = "end", !.offset = 0,
                                         !.got = @ \cup items]
                 /\ tour.list = 1 /\ end = Len(lists[1])
                 /\ call' = C!Idle /\ kept' = kept \cup items
<1> DEFINE l == tour.list
           next == C!NextOf(l, tour.offset, end, call.exhausted)
<1>1. /\ tour \in Tours /\ l \in 0..1 /\ tour.offset \in Nat /\ Limit \in Nat \ {0}
      /\ Len(lists[l]) \in Nat /\ loaded[l] \in Nat /\ loaded[l] <= Len(lists[l])
  BY ChatTypes
<1>2. /\ end \in Nat /\ end <= Len(lists[l])
      /\ end # tour.offset + Limit => end = loaded[l]
  BY <1>1 DEF C!End, C!Smaller
<1>3. \/ /\ call' = [step |-> "load", exhausted |-> FALSE]
         /\ UNCHANGED <<tour, kept>>
      \/ /\ kept' = kept \cup items /\ call' = C!Idle
         /\ tour' = CASE next = <<>> ->
                           [tour EXCEPT !.step = "end", !.offset = 0,
                                        !.got = @ \cup items]
                     [] next = <<l, tour.offset>> -> tour
                     [] OTHER ->
                           [tour EXCEPT !.list = next[1], !.offset = next[2],
                                        !.got = @ \cup items]
  BY DEF C!Get, C!Upserted
<1>4. CASE /\ kept' = kept \cup items /\ call' = C!Idle
           /\ tour' = CASE next = <<>> ->
                             [tour EXCEPT !.step = "end", !.offset = 0,
                                          !.got = @ \cup items]
                       [] next = <<l, tour.offset>> -> tour
                       [] OTHER ->
                             [tour EXCEPT !.list = next[1], !.offset = next[2],
                                          !.got = @ \cup items]
  <2>1. CASE ~call.exhausted \/ end = tour.offset + Limit
    <3>1. next = <<l, end>>
      BY <2>1 DEF C!NextOf
    <3>2. CASE end = tour.offset
      <4>1. next = <<l, tour.offset>> /\ next # <<>>
        BY <3>1, <3>2
      <4> HIDE DEF next, l
      <4>2. tour' = tour
        BY <1>4, <4>1
      <4> QED BY <1>2, <1>4, <4>2 DEF l
    <3>3. CASE end # tour.offset
      <4>1. next # <<l, tour.offset>> /\ next # <<>> /\ next[1] = l /\ next[2] = end
        BY <3>1, <3>3
      <4> HIDE DEF next
      <4>2. tour' = [tour EXCEPT !.list = l, !.offset = end, !.got = @ \cup items]
        BY <1>4, <4>1
      <4>3. tour' = [tour EXCEPT !.offset = end, !.got = @ \cup items]
        BY <1>1, <4>2 DEF Tours
      <4> QED BY <1>2, <1>4, <4>3
    <3> QED BY <3>2, <3>3
  <2>2. CASE call.exhausted /\ end # tour.offset + Limit
    <3>1. end = Len(lists[l])
      BY <1>2, <2>2 DEF CallFacts
    <3>2. CASE l = 0
      <4>1. next = <<1, 0>>
        BY <2>2, <3>2 DEF C!NextOf
      <4>2. next # <<l, tour.offset>> /\ next # <<>> /\ next[1] = 1 /\ next[2] = 0
        BY <3>2, <4>1
      <4> HIDE DEF next
      <4>3. tour' = [tour EXCEPT !.list = 1, !.offset = 0, !.got = @ \cup items]
        BY <1>4, <4>2
      <4> QED BY <1>2, <1>4, <3>1, <3>2, <4>3
    <3>3. CASE l = 1
      <4>1. next = <<>>
        BY <2>2, <3>3 DEF C!NextOf
      <4>2. next # <<l, tour.offset>>
        BY <4>1
      <4> HIDE DEF next
      <4>3. tour' = [tour EXCEPT !.step = "end", !.offset = 0, !.got = @ \cup items]
        BY <1>4, <4>1, <4>2
      <4> QED BY <1>2, <1>4, <3>1, <3>3, <4>3
    <3> QED BY <1>1, <3>2, <3>3
  <2> QED BY <2>1, <2>2
<1> QED
  BY <1>2, <1>3, <1>4

LEMMA ChatGet == ASSUME ChatInv, C!Get PROVE ChatInv'
<1>1. /\ C!TypeOK /\ CallFacts /\ AllListed /\ BehindIsMet /\ ChatsMet
      /\ call.step = "get" /\ UNCHANGED <<lists, loaded, moves, upsets>>
  BY DEF ChatInv, C!Get
<1>2. tour.step = "page"
  BY <1>1 DEF CallFacts, C!Idle
<1>3. PICK end : end = C!End(tour.list, tour.offset)
  OBVIOUS
<1>4. PICK items :
         items = {lists[tour.list][i] : i \in (tour.offset + 1)..end} \ Secret
  OBVIOUS
<1>5. /\ end \in Nat /\ end <= Len(lists[tour.list])
      /\ \/ UNCHANGED <<tour, kept>> /\ call' = [step |-> "load", exhausted |-> FALSE]
         \/ UNCHANGED tour /\ call' = C!Idle /\ kept' = kept \cup items
         \/ /\ tour' = [tour EXCEPT !.offset = end, !.got = @ \cup items]
            /\ call' = C!Idle /\ kept' = kept \cup items
         \/ /\ tour' = [tour EXCEPT !.list = 1, !.offset = 0, !.got = @ \cup items]
            /\ tour.list = 0 /\ end = Len(lists[0])
            /\ call' = C!Idle /\ kept' = kept \cup items
         \/ /\ tour' = [tour EXCEPT !.step = "end", !.offset = 0, !.got = @ \cup items]
            /\ tour.list = 1 /\ end = Len(lists[1])
            /\ call' = C!Idle /\ kept' = kept \cup items
  BY <1>1, <1>3, <1>4, PageGoesOn
<1>6. /\ tour \in Tours /\ tour.list \in 0..1 /\ tour.offset \in Nat
      /\ \A l \in 0..1 : lists[l] \in Seq(Chats) /\ Len(lists[l]) \in Nat
  BY <1>1, ChatTypes
<1>7. items \subseteq Chats \ Secret
  <2>1. \A i \in (tour.offset + 1)..end : lists[tour.list][i] \in Chats
    BY <1>5, <1>6
  <2> QED BY <1>4, <2>1
<1>8. \A i \in 1..end :
         lists[tour.list][i] \in Secret \cup tour.moved \cup tour.got \cup items
  <2> SUFFICES ASSUME NEW i \in 1..end
               PROVE  lists[tour.list][i] \in
                         Secret \cup tour.moved \cup tour.got \cup items
    OBVIOUS
  <2>1. CASE i <= tour.offset
    <3>1. i \in 1..Len(lists[tour.list]) /\ Passed(tour.list, i)
      BY <1>5, <1>6, <2>1 DEF Passed
    <3> QED BY <1>1, <1>2, <1>6, <3>1 DEF BehindIsMet
  <2>2. CASE ~(i <= tour.offset)
    <3>1. i \in (tour.offset + 1)..end
      BY <1>5, <1>6, <2>2
    <3> QED BY <1>4, <3>1
  <2> QED BY <2>1, <2>2
<1>9. tour.list = 1 =>
        \A i \in 1..Len(lists[0]) : lists[0][i] \in Secret \cup tour.moved \cup tour.got
  BY <1>1, <1>2 DEF BehindIsMet, Passed
<1>10. /\ call' \in [step : {"idle", "load", "get"}, exhausted : BOOLEAN]
       /\ ~call'.exhausted /\ kept' \in SUBSET (Chats \ Secret)
  <2>1. kept \in SUBSET (Chats \ Secret)
    BY <1>1 DEF C!TypeOK
  <2>2. kept' = kept \/ kept' = kept \cup items
    BY <1>5
  <2>3. call' = C!Idle \/ call' = [step |-> "load", exhausted |-> FALSE]
    BY <1>5
  <2>4. kept' \in SUBSET (Chats \ Secret)
    BY <1>7, <2>1, <2>2
  <2>5. call'.step \in {"idle", "load"} /\ call'.exhausted = FALSE
        /\ call' \in [step : {"idle", "load", "get"}, exhausted : BOOLEAN]
    <3>1. CASE call' = C!Idle
      BY <3>1 DEF C!Idle
    <3>2. CASE call' = [step |-> "load", exhausted |-> FALSE]
      BY <3>2
    <3> QED BY <2>3, <3>1, <3>2
  <2> QED BY <2>4, <2>5
<1>11. AllListed'
  BY <1>1 DEF AllListed
<1>12. ASSUME tour' \in Tours, tour'.offset <= Len(lists[tour'.list])
       PROVE  C!TypeOK'
  BY <1>1, <1>10, <1>12 DEF C!TypeOK, Tours
<1> USE DEF ChatInv
<1>13. CASE UNCHANGED tour
  <2>1. C!TypeOK'
    BY <1>1, <1>12, <1>13, ChatTypes
  <2>2. CallFacts'
    BY <1>2, <1>10, <1>13 DEF CallFacts
  <2> QED BY <1>1, <1>11, <1>13, <2>1, <2>2 DEF BehindIsMet, Passed, ChatsMet,
                                                C!ChatsMet
<1>14. CASE tour' = [tour EXCEPT !.offset = end, !.got = @ \cup items]
  <2>1. /\ tour'.step = "page" /\ tour'.list = tour.list /\ tour'.offset = end
        /\ tour'.got = tour.got \cup items /\ tour'.moved = tour.moved
        /\ tour' \in Tours
    BY <1>2, <1>5, <1>6, <1>7, <1>14 DEF Tours
  <2>2. C!TypeOK'
    BY <1>5, <1>12, <2>1
  <2>3. CallFacts'
    BY <1>10, <2>1 DEF CallFacts
  <2>4. BehindIsMet'
    <3> SUFFICES ASSUME NEW l \in 0..1, NEW i \in 1..Len(lists[l]),
                        l < tour.list \/ (l = tour.list /\ i <= end)
                 PROVE  lists[l][i] \in Secret \cup tour'.moved \cup tour'.got
      BY <1>1, <2>1 DEF BehindIsMet, Passed
    <3>1. CASE l < tour.list
      <4>1. Passed(l, i)
        BY <3>1 DEF Passed
      <4> QED BY <1>1, <1>2, <2>1, <4>1 DEF BehindIsMet
    <3>2. CASE l = tour.list /\ i <= end
      <4>1. i \in 1..end
        BY <1>5, <1>6, <3>2
      <4> QED BY <1>8, <2>1, <3>2, <4>1
    <3> QED BY <3>1, <3>2
  <2>5. ChatsMet'
    BY <2>1 DEF ChatsMet, C!ChatsMet
  <2> QED BY <1>11, <2>2, <2>3, <2>4, <2>5
<1>15. CASE /\ tour' = [tour EXCEPT !.list = 1, !.offset = 0, !.got = @ \cup items]
            /\ tour.list = 0 /\ end = Len(lists[0])
  <2>1. /\ tour'.step = "page" /\ tour'.list = 1 /\ tour'.offset = 0
        /\ tour'.got = tour.got \cup items /\ tour'.moved = tour.moved
        /\ tour' \in Tours
    <3>1. tour.got \cup items \in SUBSET Chats
      BY <1>6, <1>7 DEF Tours
    <3>2. /\ tour'.step = tour.step /\ tour'.list = 1 /\ tour'.offset = 0
          /\ tour'.got = tour.got \cup items /\ tour'.moved = tour.moved
      BY <1>6, <1>15 DEF Tours
    <3>3. tour' = [step |-> tour.step, list |-> 1, offset |-> 0,
                   got |-> tour.got \cup items, moved |-> tour.moved]
      BY <1>6, <1>15 DEF Tours
    <3>4. tour' \in Tours
      BY <1>6, <3>1, <3>3 DEF Tours
    <3> QED BY <1>2, <3>2, <3>4
  <2>2. C!TypeOK'
    BY <1>6, <1>12, <2>1
  <2>3. CallFacts'
    BY <1>10, <2>1 DEF CallFacts
  <2>4. BehindIsMet'
    <3> SUFFICES ASSUME NEW l \in 0..1, NEW i \in 1..Len(lists[l]),
                        l < 1 \/ (l = 1 /\ i <= 0)
                 PROVE  lists[l][i] \in Secret \cup tour'.moved \cup tour'.got
      BY <1>1, <2>1 DEF BehindIsMet, Passed
    <3>1. l = 0 /\ i \in 1..end
      BY <1>6, <1>15
    <3> QED BY <1>8, <1>15, <2>1, <3>1
  <2>5. ChatsMet'
    BY <2>1 DEF ChatsMet, C!ChatsMet
  <2> QED BY <1>11, <2>2, <2>3, <2>4, <2>5
<1>16. CASE /\ tour' = [tour EXCEPT !.step = "end", !.offset = 0, !.got = @ \cup items]
            /\ tour.list = 1 /\ end = Len(lists[1]) /\ call' = C!Idle
  <2>1. /\ tour'.step = "end" /\ tour'.list = 1 /\ tour'.offset = 0
        /\ tour'.got = tour.got \cup items /\ tour'.moved = tour.moved
        /\ tour' \in Tours
    BY <1>6, <1>7, <1>16 DEF Tours
  <2>2. C!TypeOK'
    BY <1>6, <1>12, <2>1
  <2>3. CallFacts'
    BY <1>10, <1>16 DEF CallFacts
  <2>4. BehindIsMet'
    BY <2>1 DEF BehindIsMet
  <2>5. ChatsMet'
    <3> SUFFICES ASSUME NEW c \in Chats \ (Secret \cup tour.moved)
                 PROVE  c \in tour.got \cup items
      BY <2>1 DEF ChatsMet, C!ChatsMet
    <3>1. PICK l \in 0..1 : \E i \in 1..Len(lists[l]) : lists[l][i] = c
      BY <1>1 DEF AllListed
    <3>2. PICK i \in 1..Len(lists[l]) : lists[l][i] = c
      BY <3>1
    <3>3. CASE l = 0
      BY <1>9, <1>16, <3>2, <3>3
    <3>4. CASE l = 1
      BY <1>8, <1>16, <3>2, <3>4
    <3> QED BY <3>3, <3>4
  <2> QED BY <1>11, <2>2, <2>3, <2>4, <2>5
<1> QED
  BY <1>5, <1>13, <1>14, <1>15, <1>16

LEMMA ChatNext == ChatInv /\ [C!Next]_(C!vars) => ChatInv'
<1> SUFFICES ASSUME ChatInv, [C!Next]_(C!vars) PROVE ChatInv'
  OBVIOUS
<1>1. ASSUME UNCHANGED C!vars PROVE ChatInv'
  BY <1>1 DEF C!vars, ChatInv, C!TypeOK, CallFacts, AllListed, BehindIsMet,
              Passed, ChatsMet, C!ChatsMet
<1>2. ASSUME C!Reopen PROVE ChatInv'
  BY <1>2, ChatDrops DEF C!Reopen
<1>3. ASSUME C!Fails PROVE ChatInv'
  BY <1>3, ChatDrops DEF C!Fails
<1> QED
  BY <1>1, <1>2, <1>3, ChatMove, ChatBegin, ChatAsk, ChatLoad, ChatGet DEF C!Next

\* What is behind the owner's cursor was met or has moved there.
THEOREM ChatInvariant == C!Spec => []ChatInv
  BY ChatInitially, ChatNext, PTL DEF C!Spec

\* For any chats, page size, order of loading, moves and reopened sessions: an
\* owner who follows the cursor to its end has met every chat that is not secret
\* and did not move.
THEOREM ChatsAreMet == C!Spec => []ChatsMet
<1>1. ChatInv => ChatsMet
  BY DEF ChatInv
<1> QED
  BY <1>1, ChatInvariant, PTL

=============================================================================
