------------------------------- MODULE SyncJobs -------------------------------
(***************************************************************************)
(* The history of one chat, synchronised by queued jobs: JetStream's work  *)
(* queue with its duplicate window (syncjob/publisher.go), the worker      *)
(* slots (worker/runner.go), the page a job stores and the next page it    *)
(* queues (worker/history.go), the lease and the cursor in sync_states     *)
(* (syncstate/repository.go, worker/synclease.go) and the bootstrap that   *)
(* resumes or starts a walk (worker/bootstrap.go).                         *)
(*                                                                         *)
(* A job <<before, stop>> walks down from before (0: from the newest       *)
(* message) to stop.  Messages are numbered as they were sent.  A slot has *)
(* at most one lease, so that the slot stands for its token.               *)
(***************************************************************************)
EXTENDS Naturals

CONSTANTS
    Slots,          \* worker slots
    None,           \* no slot, no job
    MaxMsg,         \* bound on the messages of the chat
    MaxPage,        \* most messages in a page (100 in the code)
    MaxBoots,       \* bound on the bootstraps
    MaxFaults       \* bound on failures, crashes and redeliveries

ASSUME JobsAssumption ==
    /\ None \notin Slots
    /\ MaxMsg \in Nat /\ MaxPage \in Nat \ {0}
    /\ MaxBoots \in Nat /\ MaxFaults \in Nat

VARIABLES
    top,        \* Telegram's newest message
    stored,     \* messages in the mirror
    state,      \* the row of sync_states: cursor, newest, lease, expired
    queue,      \* undelivered messages of each job
    recent,     \* jobs published in the last ten minutes
    slot,       \* what each slot does
    boot,       \* the bootstrap between its reading and its publishing
    boots,      \* bootstraps begun
    faults,     \* faults so far
    termed      \* history: jobs Telegram rejected, which are not repeated

vars == <<top, stored, state, queue, recent, slot, boot, boots, faults,
        termed>>

-----------------------------------------------------------------------------
Ids == 0..MaxMsg
Jobs == Ids \X Ids
NoJob == <<0, 0>>
Steps == {"idle", "acquire", "fetch", "store", "publish", "progress",
          "complete", "audit", "fail", "reject"}
Free == [step |-> "idle", job |-> NoJob, owned |-> FALSE, page |-> {},
         next |-> 0]

TypeOK ==
    /\ top \in Ids
    /\ stored \in SUBSET (1..top)
    /\ state \in [cursor : Ids, newest : 0..top, lease : Slots \cup {None},
                  expired : BOOLEAN]
    /\ queue \in [Jobs -> Nat]
    /\ recent \in SUBSET Jobs
    /\ slot \in [Slots -> [step : Steps, job : Jobs, owned : BOOLEAN,
                           page : SUBSET (1..top), next : Ids]]
    /\ boot \in {None} \cup Jobs
    /\ boots \in 0..MaxBoots
    /\ faults \in 0..MaxFaults
    /\ termed \in SUBSET Jobs
    /\ state.lease = None => ~state.expired

Init ==
    /\ top \in Ids
    /\ stored = {}
    /\ state = [cursor |-> 0, newest |-> 0, lease |-> None, expired |-> FALSE]
    /\ queue = [j \in Jobs |-> 0]
    /\ recent = {}
    /\ slot = [w \in Slots |-> Free]
    /\ boot = None /\ boots = 0
    /\ faults = 0 /\ termed = {}

-----------------------------------------------------------------------------
(* Telegram, time, and JetStream.                                          *)

NewMessage ==
    /\ top < MaxMsg
    /\ top' = top + 1
    /\ UNCHANGED <<stored, state, queue, recent, slot, boot, boots, faults,
                   termed>>

Fault == faults < MaxFaults /\ faults' = faults + 1

\* Two minutes pass since the lease was acquired: a fault while its slot is
\* still at work, certain once it is not.
InUse == state.lease # None /\ slot[state.lease].step \notin {"idle", "acquire"}

Expire ==
    /\ state.lease # None /\ ~state.expired
    /\ IF InUse THEN Fault ELSE UNCHANGED faults
    /\ state' = [state EXCEPT !.expired = TRUE]
    /\ UNCHANGED <<top, stored, queue, recent, slot, boot, boots, termed>>

\* The duplicate window of a job closes.
Forget(j) ==
    /\ j \in recent
    /\ recent' = recent \ {j}
    /\ UNCHANGED <<top, stored, state, queue, slot, boot, boots, faults,
                   termed>>

\* Publish: a job of the last ten minutes is dropped.
Published(j) ==
    /\ queue' = IF j \in recent THEN queue ELSE [queue EXCEPT ![j] = @ + 1]
    /\ recent' = recent \cup {j}

\* runSlot takes the next message.
Take(w, j) ==
    /\ slot[w].step = "idle" /\ queue[j] > 0
    /\ queue' = [queue EXCEPT ![j] = @ - 1]
    /\ slot' = [slot EXCEPT ![w] = [Free EXCEPT !.step = "acquire", !.job = j,
                                                !.owned = TRUE]]
    /\ UNCHANGED <<top, stored, state, recent, boot, boots, faults, termed>>

\* Two minutes without a heartbeat: the message is delivered again although its
\* slot goes on.
Redeliver(w) ==
    /\ slot[w].owned /\ Fault
    /\ slot' = [slot EXCEPT ![w].owned = FALSE]
    /\ queue' = [queue EXCEPT ![slot[w].job] = @ + 1]
    /\ UNCHANGED <<top, stored, state, recent, boot, boots, termed>>

\* The message goes back to the queue (a Nak, a crash, or a lost Ack), unless
\* it was delivered again already.
Returned(w) ==
    /\ slot' = [slot EXCEPT ![w] = Free]
    /\ queue' = IF slot[w].owned THEN [queue EXCEPT ![slot[w].job] = @ + 1]
                ELSE queue

\* The process ends; the slot's message is delivered again.
Crash(w) ==
    /\ slot[w].step # "idle" /\ Fault
    /\ Returned(w)
    /\ UNCHANGED <<top, stored, state, recent, boot, boots, termed>>

-----------------------------------------------------------------------------
(* handleChatHistory.                                                      *)

To(w, step) == slot' = [slot EXCEPT ![w].step = step]

\* Mutant: a lease never expires.
FreeLeaseNever == state.lease = None

FreeLease == state.lease = None \/ state.expired

\* Ensure and Acquire; otherwise RetryAfter two seconds.
Acquire(w) ==
    /\ slot[w].step = "acquire"
    /\ \/ /\ FreeLease
          /\ state' = [state EXCEPT !.lease = w, !.expired = FALSE]
          /\ To(w, "fetch") /\ UNCHANGED queue
       \/ /\ ~FreeLease
          /\ Returned(w) /\ UNCHANGED state
    /\ UNCHANGED <<top, stored, recent, boot, boots, faults, termed>>

\* GetChatHistory: the newest messages below before, some of them and one at
\* least if there is any.
Newest(before) == IF before = 0 THEN top ELSE before - 1

Pages(before) ==
    LET hi == Newest(before) IN
    IF hi = 0 THEN {{}}
    ELSE {lo..hi : lo \in {n \in 1..hi : n + MaxPage > hi}}

\* The messages of the page above the point known already.
Kept(j, page) == {m \in page : m > j[2]}

Oldest(ms) == CHOOSE m \in ms : \A n \in ms : m <= n

\* Mutant: a page shorter than requested ends the walk.
NextBeforeShort(j, page) ==
    IF Kept(j, page) # page \/ \A m \in page : m + MaxPage - 1 \notin page
    THEN 0 ELSE Oldest(page)

\* nextBefore: 0 when the page is empty or reaches the known messages.
NextBefore(j, page) ==
    IF Kept(j, page) # page \/ page = {} THEN 0 ELSE Oldest(page)

\* beforeTelegram, the session, and the request.
Fetch(w) ==
    /\ slot[w].step = "fetch"
    /\ \E page \in Pages(slot[w].job[1]) :
          slot' = [slot EXCEPT ![w].step = "store",
                               ![w].page = Kept(slot[w].job, page),
                               ![w].next = NextBefore(slot[w].job, page)]
    /\ UNCHANGED <<top, stored, state, queue, recent, boot, boots, faults,
                   termed>>

\* StoreMessage of each, newest first.
Store(w) ==
    /\ slot[w].step = "store"
    /\ stored' = stored \cup slot[w].page
    /\ To(w, IF slot[w].next = 0 THEN "progress" ELSE "publish")
    /\ UNCHANGED <<top, state, queue, recent, boot, boots, faults, termed>>

\* EnqueueChatHistory of the next page.
Publish(w) ==
    /\ slot[w].step = "publish"
    /\ Published(<<slot[w].next, slot[w].job[2]>>)
    /\ To(w, "progress")
    /\ UNCHANGED <<top, stored, state, boot, boots, faults, termed>>

\* lease_token and generation
Holds(w) == state.lease = w

GREATEST(a, b) == IF a > b THEN a ELSE b

\* Progress: the cursor, by the holder of an unexpired lease.
Progress(w) ==
    /\ slot[w].step = "progress"
    /\ \/ /\ Holds(w) /\ ~state.expired
          /\ state' = [state EXCEPT
                !.cursor = slot[w].next,
                !.newest = IF slot[w].page = {} THEN @
                           ELSE GREATEST(@, CHOOSE m \in slot[w].page :
                                          \A n \in slot[w].page : n <= m)]
          /\ To(w, "complete")
       \/ /\ ~(Holds(w) /\ ~state.expired)
          /\ To(w, "fail") /\ UNCHANGED state
    /\ UNCHANGED <<top, stored, queue, recent, boot, boots, faults, termed>>

Released == [state EXCEPT !.lease = None, !.expired = FALSE]

\* Complete, which does not look at the expiry; an error is not followed by Fail.
Complete(w) ==
    /\ slot[w].step = "complete"
    /\ \/ /\ Holds(w)
          /\ state' = Released
          /\ To(w, "audit") /\ UNCHANGED queue
       \/ /\ ~Holds(w)
          /\ Returned(w) /\ UNCHANGED state
    /\ UNCHANGED <<top, stored, recent, boot, boots, faults, termed>>

\* writeAudit, and Ack.
Ack(w) ==
    /\ slot[w].step = "audit"
    /\ slot' = [slot EXCEPT ![w] = Free]
    /\ UNCHANGED <<top, stored, state, queue, recent, boot, boots, faults,
                   termed>>

\* A call fails after some of the page was stored: failSync.
Fails(w) ==
    /\ slot[w].step \in {"fetch", "store", "publish", "progress"} /\ Fault
    /\ \E lo \in Ids :
          /\ slot[w].step # "store" => lo = 0
          /\ stored' = IF slot[w].step = "store"
                       THEN stored \cup {m \in slot[w].page : m > lo}
                       ELSE stored
    /\ To(w, "fail")
    /\ UNCHANGED <<top, state, queue, recent, boot, boots, termed>>

\* 400, 403 or 404.
Rejected(w) ==
    /\ slot[w].step = "fetch" /\ Fault
    /\ To(w, "reject")
    /\ UNCHANGED <<top, stored, state, queue, recent, boot, boots, termed>>

\* Complete or the audit entry fails, or the Ack is lost.
Lost(w) ==
    /\ slot[w].step \in {"complete", "audit"} /\ Fault
    /\ Returned(w)
    /\ UNCHANGED <<top, stored, state, recent, boot, boots, termed>>

\* Fail, whose own result does not change what becomes of the job: NakWithDelay,
\* or Term of a rejected one.
Fail(w) ==
    /\ slot[w].step \in {"fail", "reject"}
    /\ state' = IF Holds(w) THEN Released ELSE state
    /\ \/ slot[w].step = "fail" /\ Returned(w) /\ UNCHANGED termed
       \/ /\ slot[w].step = "reject"
          /\ slot' = [slot EXCEPT ![w] = Free]
          /\ termed' = termed \cup {slot[w].job} /\ UNCHANGED queue
    /\ UNCHANGED <<top, stored, recent, boot, boots, faults>>

-----------------------------------------------------------------------------
(* handleAccountBootstrap, for this chat.                                  *)

\* Where the cursor stands, or the new messages only.
Resume == IF state.cursor # 0 THEN <<state.cursor, 0>> ELSE <<0, state.newest>>

BootRead ==
    /\ boot = None /\ boots < MaxBoots
    /\ boot' = Resume
    /\ boots' = boots + 1
    /\ UNCHANGED <<top, stored, state, queue, recent, slot, faults, termed>>

BootPublish ==
    /\ boot # None
    /\ Published(boot)
    /\ boot' = None
    /\ UNCHANGED <<top, stored, state, slot, boots, faults, termed>>

-----------------------------------------------------------------------------
Run(w) == \/ Acquire(w) \/ Fetch(w) \/ Store(w) \/ Publish(w) \/ Progress(w)
          \/ Complete(w) \/ Ack(w) \/ Fail(w)

Next ==
    \/ NewMessage \/ Expire \/ BootRead \/ BootPublish
    \/ \E j \in Jobs : Forget(j)
    \/ \E w \in Slots :
          \/ \E j \in Jobs : Take(w, j)
          \/ Run(w)
          \/ Redeliver(w) \/ Crash(w) \/ Fails(w) \/ Rejected(w) \/ Lost(w)

Spec == Init /\ [][Next]_vars

\* Slots go on and take what is queued (MaxDeliver is -1), and the lease of a
\* slot that is gone expires.
Fairness ==
    /\ \A w \in Slots : WF_vars(Run(w)) /\ WF_vars(\E j \in Jobs : Take(w, j))
    /\ WF_vars(Expire /\ ~InUse)

FairSpec == Spec /\ Fairness

-----------------------------------------------------------------------------
Covers(j, m) == (j[1] = 0 \/ m < j[1]) /\ m > j[2]

\* The messages below the newest one known that are not stored yet are never
\* forgotten: the cursor, from which the next bootstrap resumes, or a job that
\* is queued or at work still leads to them, unless Telegram rejected the job that
\* did.  Jobs may be delivered twice, run at the same time, fail at any call and be
\* dropped as duplicates.
NoGap ==
    \A m \in 1..state.newest :
        \/ m \in stored
        \/ m < state.cursor
        \/ \E j \in Jobs : queue[j] > 0 /\ Covers(j, m)
        \/ \E w \in Slots : slot[w].step # "idle" /\ Covers(slot[w].job, m)
        \/ \E j \in termed : Covers(j, m)

\* Between Progress and Complete the cursor is the holder's, although its lease
\* may have expired and others wait to take it or write with an older one.
CursorIsHolders ==
    \A w \in Slots :
        slot[w].step = "complete" /\ state.lease = w
        => state.cursor = slot[w].next

\* Every job is settled in the end: the walk terminates, and no lease left behind
\* by a crash keeps a job from running.
QueueDrains ==
    <>[](\A j \in Jobs : queue[j] = 0)

\* The cursor can be trusted by the next walk: only its holder wrote it, and
\* nothing it has passed is missing.
CursorSound == NoGap /\ CursorIsHolders
=============================================================================
