------------------------------- MODULE ChatWalk -------------------------------
(***************************************************************************)
(* The owner pages through the account's chats to give permissions:        *)
(* accountChats (httpserver/chat_permissions.go) follows the cursor        *)
(* list:offset through Telegram's main and archive lists (worker/ondemand  *)
(* .go kind "chats", Session.ListChats, telegram/chat_cursor.go) and keeps *)
(* the chats met (chats/repository.go).  Meanwhile messages move chats to  *)
(* the top of their list, and the session may be opened again with fewer   *)
(* chats loaded.  TDLib is external: loadChats loads some more chats of a  *)
(* list, or answers 404 when all are loaded, and getChats returns the      *)
(* first of the loaded ones.                                               *)
(***************************************************************************)
EXTENDS Naturals, SequencesExt

CONSTANTS
    Chats,          \* Telegram chats
    Secret,         \* secret chats, which are left out
    Limit,          \* chats in a page
    MaxMoves,       \* bound on the chats that move
    MaxFaults       \* bound on failed pages and reopened sessions

ChatsAssumption ==
    /\ IsFiniteSet(Chats) /\ Secret \subseteq Chats
    /\ Limit \in Nat \ {0} /\ MaxMoves \in Nat /\ MaxFaults \in Nat

VARIABLES
    lists,      \* Telegram's main (0) and archive (1) list
    loaded,     \* how many chats of each TDLib has loaded
    walk,       \* the page: step, list, offset, chats met, chats that moved
    call,       \* the request: step, and whether loadChats answered 404
    stored,     \* rows of chats
    moves,      \* moves so far
    faults      \* faults so far

vars == <<lists, loaded, walk, call, stored, moves, faults>>

-----------------------------------------------------------------------------
Smaller(a, b) == IF a < b THEN a ELSE b
Idle == [step |-> "idle", exhausted |-> FALSE]

TypeOK ==
    /\ lists \in [0..1 -> Seq(Chats)]
    /\ loaded \in [0..1 -> Nat]
    /\ \A l \in 0..1 : loaded[l] <= Len(lists[l])
    /\ walk \in [step : {"idle", "page", "end"}, list : 0..1, offset : Nat,
                 got : SUBSET Chats, moved : SUBSET Chats]
    /\ walk.offset <= Len(lists[walk.list])
    /\ call \in [step : {"idle", "load", "get"}, exhausted : BOOLEAN]
    /\ stored \in SUBSET (Chats \ Secret)
    /\ moves \in 0..MaxMoves
    /\ faults \in 0..MaxFaults

\* Each chat is in one of the lists.
Init ==
    /\ \E main \in SUBSET Chats :
          \E m \in SetToSeqs(main), a \in SetToSeqs(Chats \ main) :
              lists = [l \in 0..1 |-> IF l = 0 THEN m ELSE a]
    /\ loaded = [l \in 0..1 |-> 0]
    /\ walk = [step |-> "idle", list |-> 0, offset |-> 0, got |-> {},
               moved |-> {}]
    /\ call = Idle
    /\ stored = {}
    /\ moves = 0 /\ faults = 0

-----------------------------------------------------------------------------
\* A new message moves a chat to the top of its list, which loads it.
Raised(list, at) ==
    [i \in 1..Len(list) |-> IF i = 1 THEN list[at]
                            ELSE IF i <= at THEN list[i - 1] ELSE list[i]]

Move(c, l) ==
    /\ moves < MaxMoves
    /\ \E at \in DOMAIN lists[l] :
          /\ lists[l][at] = c
          /\ loaded' = IF at > loaded[l] THEN [loaded EXCEPT ![l] = @ + 1]
                                         ELSE loaded
          /\ lists' = [lists EXCEPT ![l] = Raised(@, at)]
    /\ walk' = [walk EXCEPT !.moved = @ \cup {c}]
    /\ moves' = moves + 1
    /\ UNCHANGED <<call, stored, faults>>

\* The session is opened again: a request in progress fails, and TDLib has
\* fewer chats loaded.
Reopen ==
    /\ faults < MaxFaults
    /\ loaded' = [l \in 0..1 |-> 0]
    /\ call' = Idle
    /\ faults' = faults + 1
    /\ UNCHANGED <<lists, walk, stored, moves>>

\* The owner begins with an empty cursor, or asks for the next page.
Begin ==
    /\ walk.step # "page"
    /\ walk' = [step |-> "page", list |-> 0, offset |-> 0, got |-> {},
                moved |-> {}]
    /\ UNCHANGED <<lists, loaded, call, stored, moves, faults>>

Ask ==
    /\ walk.step = "page" /\ call = Idle
    /\ call' = [step |-> "load", exhausted |-> FALSE]
    /\ UNCHANGED <<lists, loaded, walk, stored, moves, faults>>

\* loadChats
Load ==
    /\ call.step = "load"
    /\ LET l == walk.list IN
       \/ /\ loaded[l] = Len(lists[l])
          /\ call' = [step |-> "get", exhausted |-> TRUE]
          /\ UNCHANGED loaded
       \/ /\ loaded[l] < Len(lists[l])
          /\ call' = [step |-> "get", exhausted |-> FALSE]
          /\ \E n \in 1..Limit :
                loaded' = [loaded EXCEPT ![l] = Smaller(@ + n, Len(lists[l]))]
    /\ UNCHANGED <<lists, walk, stored, moves, faults>>

\* Mutant: a list whose chats are all loaded is taken to be all listed.
NextExhausted(l, offset, end, exhausted) ==
    IF ~exhausted THEN <<l, end>>
    ELSE IF l = 0 THEN <<1, 0>> ELSE <<>>

\* NextCursor: on in this list unless all is loaded and the page is not full,
\* then to the archive, then none.
NextOf(l, offset, end, exhausted) ==
    IF ~exhausted \/ end = offset + Limit THEN <<l, end>>
    ELSE IF l = 0 THEN <<1, 0>> ELSE <<>>

\* The page ends at the limit, or where the loaded chats end.
End(l, offset) == Smaller(loaded[l], offset + Limit)

\* storeChat for each chat of the page: its row is inserted or brought up to date.
Upserted(items) == stored \cup items

\* getChats with offset + limit, the page, and its storage.  An empty page of a
\* list that is still loading is asked for again after 150 ms; a cursor that
\* did not advance is an error.
Get ==
    /\ call.step = "get"
    /\ LET l == walk.list
           end == End(l, walk.offset)
           items == {lists[l][i] : i \in (walk.offset + 1)..end} \ Secret
           next == NextOf(l, walk.offset, end, call.exhausted)
       IN
       \/ /\ end = walk.offset /\ ~call.exhausted
          /\ call' = [step |-> "load", exhausted |-> FALSE]
          /\ UNCHANGED <<walk, stored>>
       \/ /\ end # walk.offset \/ call.exhausted
          /\ stored' = Upserted(items)
          /\ call' = Idle
          /\ walk' = CASE next = <<>> ->
                            [walk EXCEPT !.step = "end", !.offset = 0,
                                         !.got = @ \cup items]
                      [] next = <<l, walk.offset>> -> walk
                      [] OTHER ->
                            [walk EXCEPT !.list = next[1], !.offset = next[2],
                                         !.got = @ \cup items]
    /\ UNCHANGED <<lists, loaded, moves, faults>>

\* 503 or a lost answer; the page is asked for again.
Fails ==
    /\ call # Idle /\ faults < MaxFaults
    /\ call' = Idle
    /\ faults' = faults + 1
    /\ UNCHANGED <<lists, loaded, walk, stored, moves>>

Next == (\E c \in Chats, l \in 0..1 : Move(c, l)) \/ Reopen \/ Begin \/ Ask
        \/ Load \/ Get \/ Fails

Spec == Init /\ [][Next]_vars

\* Requests return, and the owner goes on while there is a cursor.
Fairness == WF_vars(Ask) /\ WF_vars(Load) /\ WF_vars(Get)

FairSpec == Spec /\ Fairness

-----------------------------------------------------------------------------
\* An owner who followed the cursor to its end has met every chat, main and
\* archived, except secret ones and those that moved to the top on the way, even
\* if the session was opened again and its list is shorter than the cursor says.
ChatsMet == walk.step = "end" => Chats \ (Secret \cup walk.moved) \subseteq walk.got

\* The walk comes to its end ("Short/empty pages (e.g. the main/archive
\* boundary) can still have a cursor", ondemand.go:141).
ChatsEnd == walk.step = "page" ~> walk.step = "end"
=============================================================================
