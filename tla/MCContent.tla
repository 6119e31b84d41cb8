------------------------------- MODULE MCContent -------------------------------
(***************************************************************************)
(* What the gateway stores of a chat, for TLC: the mirror of its messages  *)
(* and the files attached to them.  A behaviour is about one of them and   *)
(* the other stays in an initial state: what MediaDownload needs to know   *)
(* of the mirror is whether the message is visible.  Handlers and reads    *)
(* are interchangeable.                                                    *)
(***************************************************************************)
EXTENDS MediaDownload, TLC

CONSTANTS Messages, Readers, None, MaxEdits, MaxTime

VARIABLES
    part,       \* what the behaviour is about
    now, tg, journal, rows, tombs, drain, read, heard, unsure

M == INSTANCE MessageMirror WITH Modes <- BOOLEAN

ASSUME MirrorOK == M!MirrorAssumption

mirrorVars == <<now, tg, journal, rows, tombs, drain, read, heard, unsure>>
mediaVars == <<status, attempts, stale, object, facts, link, work, get, since>>

MCInit ==
    /\ part \in {"media", "mirror"}
    /\ Init /\ M!Init
    /\ part = "media" => tg = [m \in Messages |-> M!Unsent]

MCNext ==
    /\ UNCHANGED part
    /\ \/ part = "media" /\ Next /\ UNCHANGED mirrorVars
       \/ part = "mirror" /\ M!Next /\ UNCHANGED mediaVars

MCSpec == MCInit /\ [][MCNext]_<<part, auto, mirrorVars, mediaVars>>

Symmetry == Permutations(Workers) \cup Permutations(Readers)

-----------------------------------------------------------------------------
\* MessageMirror's: a deleted message stays hidden.
DeletedIsHidden == M!DeletedIsHidden

\* MessageMirror's: messages and edits leave the journal for the mirror.
UpdatesArrive == M!UpdatesArrive

\* MessageMirror's: an on-demand read answers with what it fetched.
FreshRead == M!FreshRead
=============================================================================
