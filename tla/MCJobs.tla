-------------------------------- MODULE MCJobs --------------------------------
(***************************************************************************)
(* The leased jobs of the worker for TLC: the walk down a chat's history,  *)
(* the snapshot of the contacts and that of a chat's members.  Each has a  *)
(* queue and a row of sync_states of its own, so that a behaviour is about *)
(* one of them and the others stay in their initial state.  Slots and      *)
(* people are interchangeable.                                             *)
(***************************************************************************)
EXTENDS SyncJobs, TLC

CONSTANTS People, MaxChanges, MaxJobs, PageSize, MaxMembers, MaxSnapFaults

VARIABLES
    part,       \* the job the behaviour is about
    auto, list, shown, lease, expired, doubt, count, jobs, work,    \* contacts
    members, visible, start, clean, tally, pages, published, task,  \* members
    held, lapsed

C == INSTANCE ContactSync WITH queue <- jobs, slot <- work,
                               MaxFaults <- MaxSnapFaults

M == INSTANCE MemberSync WITH list <- members, shown <- visible, lease <- held,
                              expired <- lapsed, queue <- pages,
                              recent <- published, slot <- task, count <- tally,
                              MaxStarts <- MaxJobs, Modes <- BOOLEAN

ASSUME ContactsOK == C!ContactsAssumption

ASSUME MembersOK == M!MembersAssumption

contactVars == <<list, shown, lease, expired, doubt, count, jobs, work>>
memberVars == <<members, visible, start, clean, tally, pages, published, task,
                held, lapsed>>
all == <<part, vars, auto, contactVars, memberVars>>

\* Telegram's lists are those of the initial state of the job at hand.
MCInit ==
    /\ part \in {"history", "contacts", "members"}
    /\ Init /\ C!Init /\ M!Init
    /\ part # "history" => top = 0
    /\ part # "contacts" => list = {}
    /\ part # "members" => members = <<>>
    /\ part = "history" => auto

MCNext ==
    /\ UNCHANGED part
    /\ \/ part = "history" /\ Next /\ UNCHANGED <<auto, contactVars, memberVars>>
       \/ part = "contacts" /\ C!Next /\ UNCHANGED <<vars, memberVars>>
       \/ part = "members" /\ M!Next /\ UNCHANGED <<vars, contactVars>>

MCSpec == MCInit /\ [][MCNext]_all

Symmetry == Permutations(Slots) \cup Permutations(People)

-----------------------------------------------------------------------------
\* ContactSync's: settled contacts are those of Telegram.
QuietAgrees == C!QuietAgrees

\* MemberSync's: an undisturbed snapshot hides no member, and one on demand shows
\* exactly the members.
MembersSound == M!MembersSound
=============================================================================
