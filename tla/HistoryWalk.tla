------------------------------ MODULE HistoryWalk ------------------------------
(***************************************************************************)
(* A client reads a chat page by page with next_cursor: listMessages       *)
(* (httpserver/api.go), the loop of Telegram requests behind one page      *)
(* (worker/ondemand.go, kind "messages"), GetChatHistory (tdlib/session.go)*)
(* and the answer cut to the limit (messages/fresh.go, pagination.go).     *)
(* Messages are sent and deleted meanwhile, and a page may fail and be     *)
(* asked for again.                                                        *)
(*                                                                         *)
(* Messages are numbered as they were sent and their dates follow their    *)
(* numbers.  TDLib is external: it answers with the message the request    *)
(* starts from, if it still exists, and with some of the older ones, as    *)
(* many as it likes up to the limit, but with one at least if there are    *)
(* any and the limit leaves room.                                          *)
(***************************************************************************)
EXTENDS Naturals, FiniteSets

CONSTANTS
    Limit,          \* messages in a page, at most Cap
    Cap,            \* messages in a Telegram request (100 in the code)
    MaxMsg,         \* bound on the messages of the chat
    MaxDeletes,     \* bound on the deletions
    MaxFaults       \* bound on failed pages

WalkAssumption ==
    /\ Limit \in Nat \ {0} /\ Cap \in Nat /\ Limit <= Cap /\ Cap > 1
    /\ MaxMsg \in Nat /\ MaxDeletes \in Nat /\ MaxFaults \in Nat

VARIABLES
    top,        \* the newest message
    gone,       \* messages deleted in Telegram
    walk,       \* the client: step, cursor, messages there at the start,
                \* messages received, and whether one came twice
    page,       \* the handler: step, before, and the ids it has collected
    faults      \* failed pages so far

vars == <<top, gone, walk, page, faults>>

-----------------------------------------------------------------------------
Ids == 1..MaxMsg
Idle == [step |-> "idle", before |-> 0, ids |-> {}]

TypeOK ==
    /\ top \in 0..MaxMsg
    /\ gone \in SUBSET (1..top)
    /\ walk \in [step : {"idle", "page", "end"}, cursor : 0..top,
                 due : SUBSET (1..top), got : SUBSET (1..top), twice : BOOLEAN]
    /\ page \in [step : {"idle", "fetch", "list"}, before : 0..top,
                 ids : SUBSET (1..top)]
    /\ Cardinality(page.ids) <= Limit + 1
    /\ faults \in 0..MaxFaults

Init ==
    /\ top \in 0..MaxMsg
    /\ gone = {}
    /\ walk = [step |-> "idle", cursor |-> 0, due |-> {}, got |-> {},
               twice |-> FALSE]
    /\ page = Idle
    /\ faults = 0

-----------------------------------------------------------------------------
TgSend ==
    /\ top < MaxMsg
    /\ top' = top + 1
    /\ UNCHANGED <<gone, walk, page, faults>>

TgDelete(m) ==
    /\ m \in (1..top) \ gone /\ Cardinality(gone) < MaxDeletes
    /\ gone' = gone \cup {m}
    /\ UNCHANGED <<top, walk, page, faults>>

\* The n newest of a set.
Newest(n, S) == {m \in S : Cardinality({k \in S : k >= m}) <= n}
Least(S) == CHOOSE m \in S : \A k \in S : m <= k
Min2(a, b) == IF a < b THEN a ELSE b

\* getChatHistory from a message, 0 for the newest, with a limit.
Replies(before, count) ==
    LET all == {m \in (1..top) \ gone : before = 0 \/ m <= before}
        some == IF before \in all THEN 2 ELSE 1
    IN  {Newest(n, all) : n \in Min2(some, count)..count}

\* GetChatHistory and refresh drop the message the request starts from.
Below(before, m) == before = 0 \/ m < before

\* Mutant: no room for the message the request starts from.
CountExact(before, n) == Min2(Cap, Limit + 1 - n)

\* What is still missing, and one more for the message TDLib starts with.
Count(before, n) ==
    LET count == Min2(Cap, Limit + 1 - n)
    IN  IF before # 0 THEN Min2(Cap, count + 1) ELSE count

\* The client begins to read, or asks for the page after its cursor.
Begin ==
    /\ walk.step \in {"idle", "end"} /\ page = Idle
    /\ walk' = [step |-> "page", cursor |-> 0, due |-> (1..top) \ gone,
                got |-> {}, twice |-> FALSE]
    /\ UNCHANGED <<top, gone, page, faults>>

Ask ==
    /\ walk.step = "page" /\ page = Idle
    /\ page' = [step |-> "fetch", before |-> walk.cursor, ids |-> {}]
    /\ UNCHANGED <<top, gone, walk, faults>>

\* Up to one more than the limit, the newest first.
Taken(items) == Newest(Limit + 1 - Cardinality(page.ids), items)

\* Mutant: only a full page ends the loop.
DoneFull(items, ids) == Cardinality(ids) = Limit + 1

Done(items, ids) == items = {} \/ Cardinality(ids) = Limit + 1

\* One request to Telegram; what it brings is stored.
Fetch ==
    /\ page.step = "fetch"
    /\ \E reply \in Replies(page.before, Count(page.before, Cardinality(page.ids))) :
         LET items == {m \in reply : Below(page.before, m)}
             ids == page.ids \cup Taken(items)
         IN  page' = [step |-> IF Done(items, ids) THEN "list" ELSE "fetch",
                      before |-> IF items = {} THEN page.before ELSE Least(ids),
                      ids |-> ids]
    /\ UNCHANGED <<top, gone, walk, faults>>

\* ListActiveByIDs in descending order, cut to the limit; next_cursor names the
\* last message, and is empty when nothing was cut.
Answer ==
    /\ page.step = "list"
    /\ LET items == Newest(Limit, page.ids)
           more == Cardinality(page.ids) > Limit
       IN  walk' = [walk EXCEPT
                      !.step = IF more THEN "page" ELSE "end",
                      !.cursor = IF more THEN Least(items) ELSE 0,
                      !.got = @ \cup items,
                      !.twice = walk.twice \/ items \cap walk.got # {}]
    /\ page' = Idle
    /\ UNCHANGED <<top, gone, faults>>

\* 503, a lost answer or a crash: the client asks for the same page again.
Fails ==
    /\ page # Idle /\ faults < MaxFaults
    /\ page' = Idle
    /\ faults' = faults + 1
    /\ UNCHANGED <<top, gone, walk>>

Next == TgSend \/ (\E m \in Ids : TgDelete(m)) \/ Begin \/ Ask \/ Fetch \/ Answer
        \/ Fails

Spec == Init /\ [][Next]_vars

\* The handler returns, and the client goes on until there is no next_cursor.
Fairness == WF_vars(Ask) /\ WF_vars(Fetch) /\ WF_vars(Answer)

FairSpec == Spec /\ Fairness

-----------------------------------------------------------------------------
\* A client that followed next_cursor to its end has received every message that
\* was there when it began and was not deleted since, however short Telegram's
\* answers were and whatever was sent or deleted at the page borders.
WalkComplete == walk.step = "end" => walk.due \ gone \subseteq walk.got

\* No message is received twice, although pages overlap by the message they
\* start from and a page may be asked for again.
NoRepeat == ~walk.twice

\* The walk comes to its end: an answer without progress does not keep the
\* account's lock, and cursors do not go round in circles.
WalkEnds == walk.step = "page" ~> walk.step = "end"

\* A walk brings every message once.
WalkExact == WalkComplete /\ NoRepeat
=============================================================================
