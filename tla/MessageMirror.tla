---------------------------- MODULE MessageMirror ----------------------------
(***************************************************************************)
(* The stored mirror of a chat's messages.  With automatic sync Telegram's *)
(* updates go through the durable journal telegram_updates, which          *)
(* RunUpdates drains one at a time (worker/updates.go), while history jobs *)
(* store the pages they fetched (worker/history.go).  Without it no update *)
(* is journalled: a read fetches messages from Telegram, stores them under *)
(* the account's lock and answers from the view active_messages            *)
(* (worker/ondemand.go, messages/fresh.go).  All store through Upsert of   *)
(* messages/repository.go; they race statement by statement, any statement *)
(* may fail, and a restart may change the mode.                            *)
(*                                                                         *)
(* Telegram counts time in seconds and the database in microseconds: the   *)
(* second n is the time 2 * n and a NOW() within it is 2 * n + 1.  A       *)
(* message's content is the number of its version.  Zero is a NULL time.   *)
(***************************************************************************)
EXTENDS Naturals, Sequences

CONSTANTS
    Messages,       \* messages of one chat
    Readers,        \* history jobs, or on-demand reads, in flight
    Modes,          \* values of TELEGRAM_AUTO_SYNC the process is run with
    None,           \* no message
    MaxEdits,       \* bound on the edits of a message
    MaxTime         \* bound on the clock, in seconds

MirrorAssumption ==
    /\ None \notin Messages
    /\ Modes \subseteq BOOLEAN
    /\ MaxEdits \in Nat /\ MaxTime \in Nat \ {0}

VARIABLES
    auto,       \* whether this process syncs automatically
    now,        \* the clock, in seconds
    tg,         \* Telegram's messages
    journal,    \* telegram_updates, in order of id
    rows,       \* messages
    tombs,      \* message_tombstones
    drain,      \* the step RunUpdates is at with the head of the journal
    read,       \* step and fetched message of each read
    heard,      \* history: what was journalled of each message
    unsure      \* history: messages edited within the second of the version
                \* before, or whose content change failed unnoticed

vars == <<auto, now, tg, journal, rows, tombs, drain, read, heard, unsure>>

-----------------------------------------------------------------------------
Times == 0..(2 * MaxTime + 1)
Versions == 0..MaxEdits
Originals == [state : {"none", "live", "deleted"}, ver : Versions,
              sent : Times, edit : Times]
Unsent == [state |-> "none", ver |-> 0, sent |-> 0, edit |-> 0]
\* A message from before the gateway's session, known to Telegram only.
Old == [state |-> "live", ver |-> 0, sent |-> 1, edit |-> 0]
Events == [kind : {"new", "content", "edited", "delete"}, msg : Messages,
           ver : Versions, at : Times]
Rows == [stored : BOOLEAN, ver : Versions, edit : Times, deleted : BOOLEAN]
NoRow == [stored |-> FALSE, ver |-> 0, edit |-> 0, deleted |-> FALSE]
Reads == [step : {"idle", "upsert", "apply", "list", "told"},
          msg : Messages \cup {None}, ver : Versions, edit : Times]
NoRead == [step |-> "idle", msg |-> None, ver |-> 0, edit |-> 0]
Heard == [new : BOOLEAN, ver : Versions, gone : BOOLEAN]
Nothing == [new |-> FALSE, ver |-> 0, gone |-> FALSE]

TypeOK ==
    /\ auto \in Modes
    /\ now \in 1..MaxTime
    /\ tg \in [Messages -> Originals]
    /\ journal \in Seq(Events)
    /\ rows \in [Messages -> Rows]
    /\ tombs \in SUBSET Messages
    /\ drain \in {"process", "apply", "ack"}
    /\ read \in [Readers -> Reads]
    /\ heard \in [Messages -> Heard]
    /\ unsure \in SUBSET Messages
    /\ drain # "process" => journal # <<>>

Init ==
    /\ auto \in Modes
    /\ now = 1
    /\ tg \in [Messages -> {Unsent, Old}]
    /\ journal = <<>>
    /\ rows = [m \in Messages |-> NoRow]
    /\ tombs = {}
    /\ drain = "process"
    /\ read = [r \in Readers |-> NoRead]
    /\ heard = [m \in Messages |-> Nothing]
    /\ unsure = {}

-----------------------------------------------------------------------------
(* Telegram, whose updates OnUpdate journals in the order they arrive, in  *)
(* automatic mode.                                                         *)

Journalled(m, events, news) ==
    /\ journal' = IF auto THEN journal \o events ELSE journal
    /\ heard' = IF auto THEN [heard EXCEPT ![m] = news] ELSE heard

Tick ==
    /\ now < MaxTime
    /\ now' = now + 1
    /\ UNCHANGED <<auto, tg, journal, rows, tombs, drain, read, heard, unsure>>

\* updateNewMessage
TgSend(m) ==
    /\ tg[m] = Unsent
    /\ tg' = [tg EXCEPT ![m] = [state |-> "live", ver |-> 0, sent |-> 2 * now,
                                edit |-> 0]]
    /\ Journalled(m, <<[kind |-> "new", msg |-> m, ver |-> 0, at |-> 0]>>,
                  [heard[m] EXCEPT !.new = TRUE])
    /\ UNCHANGED <<auto, now, rows, tombs, drain, read, unsure>>

\* updateMessageContent with the new content, then updateMessageEdited with
\* the edit date.
TgEdit(m) ==
    /\ tg[m].state = "live" /\ tg[m].ver < MaxEdits
    /\ tg' = [tg EXCEPT ![m].ver = @ + 1, ![m].edit = 2 * now]
    /\ Journalled(m, <<[kind |-> "content", msg |-> m, ver |-> tg[m].ver + 1,
                        at |-> 0],
                       [kind |-> "edited", msg |-> m, ver |-> 0,
                        at |-> 2 * now]>>,
                  [heard[m] EXCEPT !.ver = tg[m].ver + 1])
    /\ unsure' = IF 2 * now \in {tg[m].sent, tg[m].edit} THEN unsure \cup {m}
                 ELSE unsure
    /\ UNCHANGED <<auto, now, rows, tombs, drain, read>>

\* updateDeleteMessages, permanent and not from the cache; others store nothing.
TgDelete(m) ==
    /\ tg[m].state = "live"
    /\ tg' = [tg EXCEPT ![m].state = "deleted"]
    /\ Journalled(m, <<[kind |-> "delete", msg |-> m, ver |-> 0, at |-> 0]>>,
                  [heard[m] EXCEPT !.gone = TRUE])
    /\ UNCHANGED <<auto, now, rows, tombs, drain, read, unsure>>

-----------------------------------------------------------------------------
\* COALESCE(edited_at, sent_at)
Age(m, edit) == IF edit = 0 THEN tg[m].sent ELSE edit

\* Mutant: the newest write wins, whatever its age.
UpsertedAlways(m, ver, edit) ==
    [rows EXCEPT ![m] = [stored |-> TRUE, ver |-> ver, edit |-> edit,
                         deleted |-> @.deleted]]

\* Repository.Upsert: the content follows the age, the deleted flag stays.
Upserted(m, ver, edit) ==
    LET old == rows[m] IN
    [rows EXCEPT ![m] =
        [stored |-> TRUE,
         ver |-> IF ~old.stored \/ Age(m, edit) >= Age(m, old.edit)
                 THEN ver ELSE old.ver,
         edit |-> IF edit > old.edit THEN edit ELSE old.edit,
         deleted |-> old.deleted]]

\* ApplyTombstones
Applied ==
    [m \in Messages |->
        IF m \in tombs THEN [rows[m] EXCEPT !.deleted = rows[m].stored]
        ELSE rows[m]]

\* Mutant: the view of migration 1, without the tombstones.
VisibleUndeleted(m) == rows[m].stored /\ ~rows[m].deleted

\* The view active_messages (migration 12).
Visible(m) == rows[m].stored /\ ~rows[m].deleted /\ m \notin tombs

-----------------------------------------------------------------------------
Current == Head(journal)

\* INSERT INTO message_tombstones ... ON CONFLICT DO NOTHING
Tombstoned(m) == tombs \cup {m}

\* The first statement of ProcessUpdate that writes, for each kind of update.
\* A content change finds no row, or fails and is not looked at: both fall
\* through to the end of the switch.
Process ==
    /\ auto /\ journal # <<>> /\ drain = "process"
    /\ LET e == Current  m == Current.msg IN
       \/ /\ e.kind = "new"
          /\ rows' = Upserted(m, e.ver, e.at)
          /\ drain' = "apply"
          /\ UNCHANGED <<tombs, unsure>>
       \/ /\ e.kind = "content"
          /\ \/ /\ rows' = IF rows[m].stored
                           THEN [rows EXCEPT ![m].ver = e.ver,
                                             ![m].edit = 2 * now + 1]
                           ELSE rows
                /\ UNCHANGED unsure
             \/ unsure' = unsure \cup {m} /\ UNCHANGED rows
          /\ drain' = "ack"
          /\ UNCHANGED tombs
       \/ /\ e.kind = "edited"
          /\ rows' = IF rows[m].stored
                     THEN [rows EXCEPT ![m].edit = e.at] ELSE rows
          /\ drain' = "ack"
          /\ UNCHANGED <<tombs, unsure>>
       \/ /\ e.kind = "delete"
          /\ tombs' = Tombstoned(m)
          /\ drain' = "apply"
          /\ UNCHANGED <<rows, unsure>>
    /\ UNCHANGED <<auto, now, tg, journal, read, heard>>

\* ApplyTombstones, the last statement of StoreMessage and of a deletion.
Apply ==
    /\ drain = "apply"
    /\ rows' = Applied
    /\ drain' = "ack"
    /\ UNCHANGED <<auto, now, tg, journal, tombs, read, heard, unsure>>

\* DELETE FROM telegram_updates, once ProcessUpdate returned no error.
Ack ==
    /\ drain = "ack"
    /\ journal' = Tail(journal)
    /\ drain' = "process"
    /\ UNCHANGED <<auto, now, tg, rows, tombs, read, heard, unsure>>

\* A statement fails: the journal is drained again from its head.
Retry ==
    /\ drain # "process"
    /\ drain' = "process"
    /\ UNCHANGED <<auto, now, tg, journal, rows, tombs, read, heard, unsure>>

-----------------------------------------------------------------------------
\* The process ends with what it had in flight, and starts again.
Restart ==
    /\ auto' \in Modes
    /\ drain' = "process"
    /\ read' = [r \in Readers |-> NoRead]
    /\ UNCHANGED <<now, tg, journal, rows, tombs, heard, unsure>>

-----------------------------------------------------------------------------
\* Mutant: no lock.
TurnAlways == TRUE

\* Refresh: one on-demand read of the account at a time fetches and stores.
\* History jobs do not exclude each other for good: their lease may expire.
Turn == auto \/ \A r \in Readers : read[r].step \notin {"upsert", "apply"}

\* A job or read takes what Telegram has of a live message at this moment.
Fetch(r, m) ==
    /\ read[r].step \in {"idle", "told"} /\ tg[m].state = "live" /\ Turn
    /\ read' = [read EXCEPT ![r] = [step |-> "upsert", msg |-> m,
                                    ver |-> tg[m].ver, edit |-> tg[m].edit]]
    /\ UNCHANGED <<auto, now, tg, journal, rows, tombs, drain, heard, unsure>>

\* StoreMessage: Upsert, then ApplyTombstones.
ReadUpsert(r) ==
    /\ read[r].step = "upsert"
    /\ rows' = Upserted(read[r].msg, read[r].ver, read[r].edit)
    /\ read' = [read EXCEPT ![r].step = "apply"]
    /\ UNCHANGED <<auto, now, tg, journal, tombs, drain, heard, unsure>>

\* A job ends here; a read releases the lock and answers.
ReadApply(r) ==
    /\ read[r].step = "apply"
    /\ rows' = Applied
    /\ read' = [read EXCEPT ![r] = IF auto THEN NoRead
                                   ELSE [@ EXCEPT !.step = "list"]]
    /\ UNCHANGED <<auto, now, tg, journal, tombs, drain, heard, unsure>>

\* ListActiveByIDs: the answer, when the message is visible.
ReadList(r) ==
    /\ read[r].step = "list"
    /\ read' = [read EXCEPT ![r].step =
                    IF Visible(read[r].msg) THEN "told" ELSE "idle"]
    /\ UNCHANGED <<auto, now, tg, journal, rows, tombs, drain, heard, unsure>>

\* An error, or a client that went away.
ReadFails(r) ==
    /\ read[r].step # "idle"
    /\ read' = [read EXCEPT ![r] = NoRead]
    /\ UNCHANGED <<auto, now, tg, journal, rows, tombs, drain, heard, unsure>>

Next ==
    \/ Tick
    \/ \E m \in Messages : TgSend(m) \/ TgEdit(m) \/ TgDelete(m)
    \/ Process \/ Apply \/ Ack \/ Retry \/ Restart
    \/ \E r \in Readers : \/ \E m \in Messages : Fetch(r, m)
                          \/ ReadUpsert(r) \/ ReadApply(r) \/ ReadList(r)
                          \/ ReadFails(r)

Spec == Init /\ [][Next]_vars

-----------------------------------------------------------------------------
Awaited(m, kinds) ==
    \E i \in DOMAIN journal : journal[i].msg = m /\ journal[i].kind \in kinds

\* A message whose deletion was journalled stays hidden once the deletion was
\* acknowledged, however late a page that still holds it is stored and wherever
\* that store was interrupted (repository.go:332: "makes a late history page obey
\* deletions received earlier").
DeletedIsHidden ==
    \A m \in Messages :
        heard[m].gone /\ ~Awaited(m, {"delete"}) => ~Visible(m)

\* "data is acknowledged only after it is persisted" (updates.go:107), for new
\* messages: one that left the journal is in the mirror.
NewIsStored ==
    \A m \in Messages :
        heard[m].new /\ ~Awaited(m, {"new"}) => rows[m].stored

\* The same of edits: once its edits left the journal, a message the journal
\* brought holds them, whatever older page was stored meanwhile, if its versions
\* are seconds apart and no content change of it failed (updates.go:87 drops the
\* error).
EditsArrive ==
    \A m \in Messages \ unsure :
        heard[m].new /\ ~Awaited(m, {"new", "content", "edited"})
        => rows[m].ver >= heard[m].ver

\* "only returns messages refreshed by the current request ... stale cache hits
\* cannot leak in" (fresh.go:5-6): what ReadList answers is not older than what
\* the same read got from Telegram, although others store and answer meanwhile,
\* of messages no content change was journalled for in an earlier automatic run.
FreshRead ==
    [][\A r \in Readers :
        read'[r].step = "told" /\ read[r].step = "list" =>
            \/ rows[read[r].msg].ver >= read[r].ver
            \/ heard[read[r].msg].ver > 0]_vars

\* What the journal acknowledged has been persisted: messages and their edits.
UpdatesArrive == NewIsStored /\ EditsArrive
=============================================================================
