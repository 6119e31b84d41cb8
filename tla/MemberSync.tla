------------------------------ MODULE MemberSync ------------------------------
(***************************************************************************)
(* The snapshot of a chat's members, taken in pages.  With automatic sync  *)
(* each page is a queued job under a lease (worker/members.go): the time   *)
(* the snapshot started is carried from page to page in the cursor of      *)
(* sync_states, every member met is stamped last_seen_at = NOW(), and the  *)
(* last page hides the members last seen before the start                  *)
(* (members/reconcile.go).  JetStream drops a page that was published in   *)
(* the last ten minutes (syncjob/member_publisher.go).  Without automatic  *)
(* sync one request takes all the pages, under the account's lock          *)
(* (worker/ondemand.go).                                                   *)
(*                                                                         *)
(* A time is represented by what it is compared with: a start by the set   *)
(* of the members stamped since then.  The clocks of the process and of    *)
(* the database agree.  A start also records, as history, whether the list *)
(* changed since then or snapshots overlapped: they share one start.       *)
(***************************************************************************)
EXTENDS Naturals, Sequences

CONSTANTS
    People,         \* Telegram users
    Slots,          \* worker slots, or requests in flight
    None,           \* no slot
    PageSize,       \* members in a page (200 in the code)
    MaxMembers,     \* bound on the length of the list
    MaxChanges,     \* bound on the changes of Telegram's list
    MaxStarts,      \* bound on the snapshots asked for
    MaxFaults,      \* bound on failures, crashes, redeliveries and expiries
    Modes           \* values of TELEGRAM_AUTO_SYNC the process is run with

MembersAssumption ==
    /\ None \notin Slots
    /\ PageSize \in Nat \ {0} /\ MaxMembers \in Nat
    /\ MaxChanges \in Nat /\ MaxStarts \in Nat /\ MaxFaults \in Nat
    /\ Modes \subseteq BOOLEAN

VARIABLES
    auto,       \* TELEGRAM_AUTO_SYNC
    list,       \* Telegram's list, as getSupergroupMembers orders it
    shown,      \* rows of chat_members that are not deleted
    start,      \* snapshot_started_at in the cursor of sync_states
    lease,      \* the slot whose token is in that row
    expired,    \* whether its two minutes are over
    queue,      \* undelivered jobs of each page
    recent,     \* pages published in the last ten minutes
    slot,       \* what each slot does
    clean,      \* history: the last snapshot was not disturbed, nor the list
                \* changed since
    count       \* changes, snapshots and faults so far

vars == <<auto, list, shown, start, lease, expired, queue, recent, slot, clean,
          count>>

-----------------------------------------------------------------------------
Range(s) == {s[i] : i \in DOMAIN s}
Offsets == 0..MaxMembers
Starts == [seen : SUBSET People, disturbed : BOOLEAN]
Now == [seen |-> {}, disturbed |-> FALSE]
Steps == {"idle", "ensure", "acquire", "fetch", "upsert", "progress", "publish",
          "mark", "complete", "fail", "reject"}
Free == [step |-> "idle", owned |-> FALSE, offset |-> 0, page |-> {},
         next |-> 0, start |-> Now]

TypeOK ==
    /\ auto \in Modes
    /\ list \in Seq(People) /\ Len(list) <= MaxMembers
    /\ shown \in SUBSET People
    /\ start \in Starts
    /\ lease \in Slots \cup {None} /\ expired \in BOOLEAN
    /\ queue \in [Offsets -> Nat]
    /\ recent \in SUBSET Offsets
    /\ slot \in [Slots -> [step : Steps, owned : BOOLEAN, offset : Offsets,
                           page : SUBSET People, next : Offsets,
                           start : Starts]]
    /\ clean \in BOOLEAN
    /\ count \in [changes : 0..MaxChanges, starts : 0..MaxStarts,
                  faults : 0..MaxFaults]
    /\ lease = None => ~expired

Init ==
    /\ auto \in Modes
    /\ list \in {s \in UNION {[1..n -> People] : n \in Offsets} :
                    \A i, j \in DOMAIN s : s[i] = s[j] => i = j}
    /\ shown = {} /\ start = Now
    /\ lease = None /\ expired = FALSE
    /\ queue = [o \in Offsets |-> 0] /\ recent = {}
    /\ slot = [w \in Slots |-> Free]
    /\ clean = FALSE
    /\ count = [changes |-> 0, starts |-> 0, faults |-> 0]

-----------------------------------------------------------------------------
Fault == /\ count.faults < MaxFaults
         /\ count' = [count EXCEPT !.faults = @ + 1]

Disturbed(st, b) == [st EXCEPT !.disturbed = @ \/ b]

\* Someone joins, and comes first, or leaves.
Change(p) ==
    /\ count.changes < MaxChanges
    /\ count' = [count EXCEPT !.changes = @ + 1]
    /\ \/ \E i \in DOMAIN list :
             /\ list[i] = p
             /\ list' = SubSeq(list, 1, i - 1) \o SubSeq(list, i + 1, Len(list))
       \/ /\ p \notin Range(list) /\ Len(list) < MaxMembers
          /\ list' = <<p>> \o list
    /\ clean' = FALSE
    /\ start' = Disturbed(start, TRUE)
    /\ slot' = [w \in Slots |-> [slot[w] EXCEPT !.start = Disturbed(@, TRUE)]]
    /\ UNCHANGED <<auto, shown, lease, expired, queue, recent>>

InUse == lease # None
         /\ slot[lease].step \notin {"idle", "ensure", "acquire"}

Expire ==
    /\ lease # None /\ ~expired
    /\ IF InUse THEN Fault ELSE UNCHANGED count
    /\ expired' = TRUE
    /\ UNCHANGED <<auto, list, shown, start, lease, queue, recent, slot, clean>>

\* The duplicate window of a page closes.
Forget(o) ==
    /\ o \in recent
    /\ recent' = recent \ {o}
    /\ UNCHANGED <<auto, list, shown, start, lease, expired, queue, slot, clean,
                   count>>

\* Publish, with the chat, the cursor and the limit as the message's identity.
Published(o) ==
    /\ queue' = IF o \in recent THEN queue ELSE [queue EXCEPT ![o] = @ + 1]
    /\ recent' = recent \cup {o}

\* EnqueueChatMembers of a bootstrap: the first page.
Enqueue ==
    /\ auto /\ count.starts < MaxStarts
    /\ count' = [count EXCEPT !.starts = @ + 1]
    /\ Published(0)
    /\ UNCHANGED <<auto, list, shown, start, lease, expired, slot, clean>>

Take(w, o) ==
    /\ slot[w].step = "idle" /\ queue[o] > 0
    /\ queue' = [queue EXCEPT ![o] = @ - 1]
    /\ slot' = [slot EXCEPT ![w] = [Free EXCEPT !.step = "ensure",
                                        !.owned = TRUE, !.offset = o]]
    /\ UNCHANGED <<auto, list, shown, start, lease, expired, recent, clean,
                   count>>

\* Refresh: the account's lock.
Turn == \A v \in Slots : slot[v].step = "idle"

\* A request: started is now.
Request(w) ==
    /\ ~auto /\ count.starts < MaxStarts
    /\ slot[w].step = "idle" /\ Turn
    /\ count' = [count EXCEPT !.starts = @ + 1]
    /\ slot' = [slot EXCEPT ![w] = [Free EXCEPT !.step = "fetch"]]
    /\ UNCHANGED <<auto, list, shown, start, lease, expired, queue, recent,
                   clean>>

\* The job is delivered again while its slot goes on.
Redeliver(w) ==
    /\ slot[w].owned /\ Fault
    /\ slot' = [slot EXCEPT ![w].owned = FALSE]
    /\ queue' = [queue EXCEPT ![slot[w].offset] = @ + 1]
    /\ UNCHANGED <<auto, list, shown, start, lease, expired, recent, clean>>

Returned(w) ==
    /\ slot' = [slot EXCEPT ![w] = Free]
    /\ queue' = IF slot[w].owned THEN [queue EXCEPT ![slot[w].offset] = @ + 1]
                ELSE queue

\* The process ends, an Ack is lost, or a request fails.
Crash(w) ==
    /\ slot[w].step # "idle" /\ Fault
    /\ Returned(w)
    /\ UNCHANGED <<auto, list, shown, start, lease, expired, recent, clean>>

-----------------------------------------------------------------------------
(* handleChatMembers, and the loop of an on-demand read.                   *)

To(w, step) == slot' = [slot EXCEPT ![w].step = step]

\* Mutant: every page begins a snapshot of its own.
StartOfAlways(o) == Now

\* The first page starts now; the others read the start, before the lease.
StartOf(o) == IF o = 0 THEN Now ELSE start

\* A snapshot begins while pages of another one are queued or at work.
Overlaps(w) ==
    /\ slot[w].offset = 0
    /\ \/ \E o \in Offsets : queue[o] > 0
       \/ \E v \in Slots \ {w} : slot[v].step # "idle"

Ensure(w) ==
    /\ slot[w].step = "ensure"
    /\ start' = Disturbed(start, Overlaps(w))
    /\ slot' = [v \in Slots |->
                  [slot[v] EXCEPT
                     !.step = IF v = w THEN "acquire" ELSE @,
                     !.start = Disturbed(IF v = w THEN StartOf(slot[w].offset)
                                         ELSE @, Overlaps(w))]]
    /\ UNCHANGED <<auto, list, shown, lease, expired, queue, recent, clean,
                   count>>

Acquire(w) ==
    /\ slot[w].step = "acquire"
    /\ \/ /\ lease = None \/ expired
          /\ lease' = w /\ expired' = FALSE
          /\ To(w, "fetch") /\ UNCHANGED queue
       \/ /\ lease # None /\ ~expired
          /\ Returned(w) /\ UNCHANGED <<lease, expired>>
    /\ UNCHANGED <<auto, list, shown, start, recent, clean, count>>

\* ListMembers: a page, and the next offset unless total_count is reached.
Fetch(w) ==
    /\ slot[w].step = "fetch"
    /\ LET o == slot[w].offset
           page == SubSeq(list, o + 1,
                          IF o + PageSize < Len(list) THEN o + PageSize
                          ELSE Len(list))
           end == o + Len(page)
       IN  slot' = [slot EXCEPT ![w].step = "upsert",
                                ![w].page = Range(page),
                                ![w].next = IF page # <<>> /\ end < Len(list)
                                            THEN end ELSE 0]
    /\ UNCHANGED <<auto, list, shown, start, lease, expired, queue, recent,
                   clean, count>>

Stamped(st, ps) == [st EXCEPT !.seen = @ \cup ps]

\* Upsert: shown again, and stamped after every start so far.
Upsert(w) ==
    /\ slot[w].step = "upsert"
    /\ shown' = shown \cup slot[w].page
    /\ start' = Stamped(start, slot[w].page)
    /\ slot' = [v \in Slots |->
                  [slot[v] EXCEPT
                     !.start = Stamped(@, slot[w].page),
                     !.step = CASE v # w -> @
                                [] v = w /\ auto -> "progress"
                                [] v = w /\ ~auto /\ slot[w].next # 0 -> "fetch"
                                [] OTHER -> "mark",
                     !.offset = IF v = w /\ ~auto THEN slot[w].next ELSE @]]
    /\ UNCHANGED <<auto, list, lease, expired, queue, recent, clean, count>>

\* Progress, with the start and the next page in the cursor.
Progress(w) ==
    /\ slot[w].step = "progress"
    /\ \/ /\ lease = w /\ ~expired
          /\ start' = slot[w].start
          /\ To(w, IF slot[w].next = 0 THEN "mark" ELSE "publish")
       \/ /\ ~(lease = w /\ ~expired)
          /\ To(w, "fail") /\ UNCHANGED start
    /\ UNCHANGED <<auto, list, shown, lease, expired, queue, recent, clean,
                   count>>

\* EnqueueChatMembersPage
Publish(w) ==
    /\ slot[w].step = "publish"
    /\ Published(slot[w].next)
    /\ To(w, "complete")
    /\ UNCHANGED <<auto, list, shown, start, lease, expired, clean, count>>

\* MarkNotSeenSince: last_seen_at < started.
Mark(w) ==
    /\ slot[w].step = "mark"
    /\ shown' = shown \cap slot[w].start.seen
    /\ clean' = ~slot[w].start.disturbed
    /\ IF auto THEN To(w, "complete") ELSE slot' = [slot EXCEPT ![w] = Free]
    /\ UNCHANGED <<auto, list, start, lease, expired, queue, recent, count>>

Released == lease' = None /\ expired' = FALSE

\* Complete, the audit entry and Ack, or an error.
Complete(w) ==
    /\ slot[w].step = "complete"
    /\ \/ /\ lease = w
          /\ Released
          /\ slot' = [slot EXCEPT ![w] = Free] /\ UNCHANGED queue
       \/ /\ lease # w
          /\ Returned(w) /\ UNCHANGED <<lease, expired>>
    /\ UNCHANGED <<auto, list, shown, start, recent, clean, count>>

\* A call fails after some of the page was stored.
Fails(w) ==
    /\ auto /\ Fault
    /\ slot[w].step \in {"fetch", "upsert", "progress", "publish", "mark"}
    /\ \E some \in SUBSET slot[w].page :
          /\ slot[w].step # "upsert" => some = {}
          /\ shown' = shown \cup some
          /\ start' = Stamped(start, some)
          /\ slot' = [v \in Slots |->
                        [slot[v] EXCEPT !.start = Stamped(@, some),
                                        !.step = IF v = w THEN "fail" ELSE @]]
    /\ UNCHANGED <<auto, list, lease, expired, queue, recent, clean>>

\* 400, 403 or 404.
Rejected(w) ==
    /\ auto /\ slot[w].step = "fetch" /\ Fault
    /\ To(w, "reject")
    /\ UNCHANGED <<auto, list, shown, start, lease, expired, queue, recent,
                   clean>>

\* Fail, then Nak or Term.
Fail(w) ==
    /\ slot[w].step \in {"fail", "reject"}
    /\ IF lease = w THEN Released ELSE UNCHANGED <<lease, expired>>
    /\ IF slot[w].step = "fail" THEN Returned(w)
       ELSE slot' = [slot EXCEPT ![w] = Free] /\ UNCHANGED queue
    /\ UNCHANGED <<auto, list, shown, start, recent, clean, count>>

Run(w) == \/ Ensure(w) \/ Acquire(w) \/ Fetch(w) \/ Upsert(w) \/ Progress(w)
          \/ Publish(w) \/ Mark(w) \/ Complete(w) \/ Fail(w)

Next ==
    \/ \E p \in People : Change(p)
    \/ Expire \/ Enqueue
    \/ \E o \in Offsets : Forget(o)
    \/ \E w \in Slots :
          \/ \E o \in Offsets : Take(w, o)
          \/ Request(w) \/ Run(w)
          \/ Redeliver(w) \/ Crash(w) \/ Fails(w) \/ Rejected(w)

Spec == Init /\ [][Next]_vars

-----------------------------------------------------------------------------
\* A snapshot that was taken while the list did not change and no other one was
\* at work, and whatever follows it, leaves no member of the chat hidden, although
\* each page is a job of its own that may fail half way, be repeated or run twice
\* ("allowing large chats to sync across multiple pages without JetStream
\* suppressing later pages as duplicates", member_publisher.go:10-12).
MembersShown == clean => Range(list) \subseteq shown

\* On-demand snapshots show exactly the members: "Account serialization prevents
\* overlapping snapshots" (ondemand.go:19).
MembersAgree == clean /\ ~auto => shown = Range(list)

\* A snapshot shows the members it should, from the queue and on demand.
MembersSound == MembersShown /\ MembersAgree
=============================================================================
