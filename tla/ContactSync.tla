----------------------------- MODULE ContactSync -----------------------------
(***************************************************************************)
(* The snapshot of an account's contacts (worker/contacts.go): the whole   *)
(* list is fetched from Telegram, every contact on it is stored and shown, *)
(* the others are hidden (contacts/repository.go, contacts/snapshot.go).   *)
(* With automatic sync it is a queued job under a lease of sync_states,    *)
(* repeated until it succeeds; otherwise it runs inside a search request,  *)
(* one at a time per account (worker/ondemand.go), within 45 seconds.  The *)
(* statements of two snapshots interleave when a lease expires.            *)
(***************************************************************************)
EXTENDS Naturals

CONSTANTS
    People,         \* Telegram users
    Slots,          \* worker slots, or requests in flight
    None,           \* no slot
    MaxChanges,     \* bound on the changes of Telegram's list
    MaxJobs,        \* bound on the snapshots begun
    MaxFaults       \* bound on failures, crashes, redeliveries and expiries

ContactsAssumption ==
    /\ None \notin Slots
    /\ MaxChanges \in Nat /\ MaxJobs \in Nat /\ MaxFaults \in Nat

VARIABLES
    auto,       \* TELEGRAM_AUTO_SYNC
    list,       \* Telegram's contacts
    shown,      \* rows of active_contacts
    lease,      \* the slot whose token is in the "contacts" row of sync_states
    expired,    \* whether its two minutes are over
    queue,      \* undelivered jobs
    slot,       \* step and fetched list of each snapshot
    doubt,      \* history: who changed since the list of the last snapshot that
                \* succeeded was fetched
    count       \* changes, snapshots and faults so far

vars == <<auto, list, shown, lease, expired, queue, slot, doubt, count>>

-----------------------------------------------------------------------------
Steps == {"idle", "acquire", "fetch", "upsert", "mark", "progress", "complete",
          "fail", "reject"}
Free == [step |-> "idle", owned |-> FALSE, seen |-> {}, later |-> {}]

TypeOK ==
    /\ auto \in BOOLEAN
    /\ list \in SUBSET People /\ shown \in SUBSET People
    /\ lease \in Slots \cup {None}
    /\ expired \in BOOLEAN
    /\ queue \in Nat
    /\ slot \in [Slots -> [step : Steps, owned : BOOLEAN, seen : SUBSET People,
                           later : SUBSET People]]
    /\ doubt \in SUBSET People
    /\ count \in [changes : 0..MaxChanges, jobs : 0..MaxJobs,
                  faults : 0..MaxFaults]
    /\ ~auto => queue = 0
    /\ lease = None => ~expired

Init ==
    /\ auto \in BOOLEAN
    /\ list \in SUBSET People
    /\ shown = {}
    /\ lease = None /\ expired = FALSE
    /\ queue = 0
    /\ slot = [w \in Slots |-> Free]
    /\ doubt = People
    /\ count = [changes |-> 0, jobs |-> 0, faults |-> 0]

-----------------------------------------------------------------------------
Fault == /\ count.faults < MaxFaults
         /\ count' = [count EXCEPT !.faults = @ + 1]

\* Someone becomes, or ceases to be, a contact.
Change(p) ==
    /\ count.changes < MaxChanges
    /\ count' = [count EXCEPT !.changes = @ + 1]
    /\ list' = IF p \in list THEN list \ {p} ELSE list \cup {p}
    /\ doubt' = doubt \cup {p}
    /\ slot' = [w \in Slots |-> [slot[w] EXCEPT !.later = @ \cup {p}]]
    /\ UNCHANGED <<auto, shown, lease, expired, queue>>

InUse == lease # None /\ slot[lease].step \notin {"idle", "acquire"}

\* The lease ends, under a job still at work or after it; a request is over
\* before its lease.
Expire ==
    /\ lease # None /\ ~expired
    /\ IF InUse THEN auto /\ Fault ELSE UNCHANGED count
    /\ expired' = TRUE
    /\ UNCHANGED <<auto, list, shown, lease, queue, slot, doubt>>

\* EnqueueContactsSync of a bootstrap, not within ten minutes of the last.
Enqueue ==
    /\ auto /\ count.jobs < MaxJobs
    /\ count' = [count EXCEPT !.jobs = @ + 1]
    /\ queue' = queue + 1
    /\ UNCHANGED <<auto, list, shown, lease, expired, slot, doubt>>

Begun(w) == slot' = [slot EXCEPT ![w] = [Free EXCEPT !.step = "acquire",
                                                     !.owned = TRUE]]

Take(w) ==
    /\ slot[w].step = "idle" /\ queue > 0
    /\ queue' = queue - 1
    /\ Begun(w)
    /\ UNCHANGED <<auto, list, shown, lease, expired, doubt, count>>

\* A search request: Refresh waits for the account's lock.
Request(w) ==
    /\ ~auto /\ count.jobs < MaxJobs
    /\ \A v \in Slots : slot[v].step = "idle"
    /\ count' = [count EXCEPT !.jobs = @ + 1]
    /\ Begun(w)
    /\ UNCHANGED <<auto, list, shown, lease, expired, queue, doubt>>

\* The job is delivered again while its slot goes on.
Redeliver(w) ==
    /\ auto /\ slot[w].owned /\ Fault
    /\ slot' = [slot EXCEPT ![w].owned = FALSE]
    /\ queue' = queue + 1
    /\ UNCHANGED <<auto, list, shown, lease, expired, doubt>>

\* Mutant: a failed job is acknowledged.
RequeuedNever(w) ==
    /\ slot' = [slot EXCEPT ![w] = Free]
    /\ UNCHANGED queue

\* A job that did not succeed is delivered again; a request ends with 503.
Requeued(w) ==
    /\ slot' = [slot EXCEPT ![w] = Free]
    /\ queue' = IF auto /\ slot[w].owned THEN queue + 1 ELSE queue

\* A snapshot that is not repeated leaves undone what it wrote, now and for the
\* snapshots at work.
Abandoned(w) ==
    /\ slot' = [v \in Slots |-> IF v = w THEN Free
                               ELSE [slot[v] EXCEPT !.later = People]]
    /\ doubt' = People
    /\ UNCHANGED queue

\* The slot's work failed; its job may have been given to another one already.
Returned(w) ==
    \/ auto /\ ~slot[w].owned /\ Abandoned(w)
    \/ (~auto \/ slot[w].owned) /\ Requeued(w) /\ UNCHANGED doubt

Crash(w) ==
    /\ slot[w].step # "idle" /\ Fault
    /\ Returned(w)
    /\ UNCHANGED <<auto, list, shown, lease, expired>>

-----------------------------------------------------------------------------
(* handleContacts.                                                         *)

To(w, step) == slot' = [slot EXCEPT ![w].step = step]

\* acquireSyncLease
Acquire(w) ==
    /\ slot[w].step = "acquire"
    /\ \/ /\ lease = None \/ expired
          /\ lease' = w /\ expired' = FALSE
          /\ To(w, "fetch") /\ UNCHANGED <<queue, doubt>>
       \/ /\ lease # None /\ ~expired
          /\ Returned(w) /\ UNCHANGED <<lease, expired>>
    /\ UNCHANGED <<auto, list, shown, count>>

\* ListContacts
Fetch(w) ==
    /\ slot[w].step = "fetch"
    /\ slot' = [slot EXCEPT ![w].step = "upsert", ![w].seen = list,
                            ![w].later = {}]
    /\ UNCHANGED <<auto, list, shown, lease, expired, queue, doubt, count>>

\* Upsert of each: deleted = FALSE.
Upsert(w) ==
    /\ slot[w].step = "upsert"
    /\ shown' = shown \cup slot[w].seen
    /\ To(w, "mark")
    /\ UNCHANGED <<auto, list, lease, expired, queue, doubt, count>>

\* MarkMissingDeleted: NOT (telegram_user_id = ANY(seen)).
Hidden(seen) == shown \cap seen

Mark(w) ==
    /\ slot[w].step = "mark"
    /\ shown' = Hidden(slot[w].seen)
    /\ To(w, "progress")
    /\ UNCHANGED <<auto, list, lease, expired, queue, doubt, count>>

\* The WHERE of Progress.
Current(w) == lease = w /\ ~expired

Progress(w) ==
    /\ slot[w].step = "progress"
    /\ To(w, IF Current(w) THEN "complete" ELSE "fail")
    /\ UNCHANGED <<auto, list, shown, lease, expired, queue, doubt, count>>

Released == lease' = None /\ expired' = FALSE

\* Complete, the audit entry, and Ack.  Complete itself needs the token.
Complete(w) ==
    /\ slot[w].step = "complete"
    /\ \/ /\ lease = w
          /\ Released
          /\ slot' = [slot EXCEPT ![w] = Free]
          /\ doubt' = slot[w].later
          /\ UNCHANGED queue
       \/ /\ lease # w
          /\ Returned(w) /\ UNCHANGED <<lease, expired>>
    /\ UNCHANGED <<auto, list, shown, count>>

\* A call fails, with some of the contacts stored.
Fails(w) ==
    /\ slot[w].step \in {"fetch", "upsert", "mark", "progress"} /\ Fault
    /\ \E some \in SUBSET slot[w].seen :
          shown' = IF slot[w].step = "upsert" THEN shown \cup some ELSE shown
    /\ To(w, "fail")
    /\ UNCHANGED <<auto, list, lease, expired, queue, doubt>>

\* 400, 403 or 404: the job is terminated.
Rejected(w) ==
    /\ slot[w].step = "fetch" /\ Fault
    /\ To(w, "reject")
    /\ UNCHANGED <<auto, list, shown, lease, expired, queue, doubt>>

\* Fail, then Nak or Term.
Fail(w) ==
    /\ slot[w].step \in {"fail", "reject"}
    /\ IF lease = w THEN Released ELSE UNCHANGED <<lease, expired>>
    /\ IF slot[w].step = "fail" THEN Returned(w) ELSE Abandoned(w)
    /\ UNCHANGED <<auto, list, shown, count>>

\* Complete is done; the audit entry fails or the Ack is lost.
Lost(w) ==
    /\ slot[w].step = "complete" /\ lease = w /\ Fault
    /\ Released
    /\ Requeued(w)
    /\ doubt' = slot[w].later
    /\ UNCHANGED <<auto, list, shown>>

-----------------------------------------------------------------------------
Run(w) == \/ Acquire(w) \/ Fetch(w) \/ Upsert(w) \/ Mark(w) \/ Progress(w)
          \/ Complete(w) \/ Fail(w)

Next ==
    \/ \E p \in People : Change(p)
    \/ Expire \/ Enqueue
    \/ \E w \in Slots :
          \/ Take(w) \/ Request(w) \/ Run(w)
          \/ Redeliver(w) \/ Crash(w) \/ Fails(w) \/ Rejected(w) \/ Lost(w)

Spec == Init /\ [][Next]_vars

-----------------------------------------------------------------------------
Quiet == queue = 0 /\ \A w \in Slots : slot[w].step = "idle"

\* When no snapshot is queued or at work, everyone who did not change since the
\* last one that succeeded is shown exactly if on Telegram's list, although a
\* snapshot that lost its lease wrote an older list over a newer one (unless it
\* was rejected, or had lost its job too).
QuietAgrees == Quiet => shown \ doubt = list \ doubt
=============================================================================
