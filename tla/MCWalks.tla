-------------------------------- MODULE MCWalks --------------------------------
(***************************************************************************)
(* Three walks page by page, each while what it walks over changes, for    *)
(* TLC: a client's through the history of a chat (HistoryWalk), the        *)
(* owner's through the chats (ChatWalk) and the worker's, by queued jobs   *)
(* (SyncJobs).  They share no state, so that a behaviour is about one of   *)
(* them and the others stay in an initial state.                           *)
(***************************************************************************)
EXTENDS HistoryWalk, SequencesExt

CONSTANTS
    Chats, Secret, MaxMoves,                            \* ChatWalk's
    Slots, None, MaxQueued, MaxPage, MaxBoots           \* SyncJobs'

VARIABLES
    part,       \* the walk the behaviour is about
    lists, loaded, tour, call, kept, moves, upsets,             \* ChatWalk's
    newest, stored, state, queue, recent, slot, boot, boots,    \* SyncJobs'
    troubles, termed

C == INSTANCE ChatWalk WITH walk <- tour, stored <- kept, faults <- upsets

J == INSTANCE SyncJobs WITH top <- newest, faults <- troubles,
                            MaxMsg <- MaxQueued

ASSUME WalksOK == WalkAssumption /\ C!ChatsAssumption

chatVars == <<lists, loaded, tour, call, kept, moves, upsets>>
jobVars == <<newest, stored, state, queue, recent, slot, boot, boots, troubles,
             termed>>
all == <<part, vars, chatVars, jobVars>>

\* The lists are those of the walk at hand; the others have one initial state.
Rest == [l \in 0..1 |-> IF l = 0 THEN SetToSeq(Chats) ELSE <<>>]

MCInit ==
    /\ part \in {"history", "chats", "jobs"}
    /\ Init /\ C!Init /\ J!Init
    /\ part # "history" => top = 0
    /\ part # "chats" => lists = Rest
    /\ part # "jobs" => newest = 0

MCNext ==
    /\ UNCHANGED part
    /\ \/ part = "history" /\ Next /\ UNCHANGED <<chatVars, jobVars>>
       \/ part = "chats" /\ C!Next /\ UNCHANGED <<vars, jobVars>>
       \/ part = "jobs" /\ J!Next /\ UNCHANGED <<vars, chatVars>>

MCSpec ==
    /\ MCInit /\ [][MCNext]_all
    /\ \/ part = "history" /\ Fairness
       \/ part = "chats" /\ C!Fairness
       \/ part = "jobs" /\ J!Fairness

-----------------------------------------------------------------------------
\* ChatWalk's: the owner meets every chat.
ChatsMet == C!ChatsMet

\* The client's walk and the owner's come to their end, whatever is sent,
\* deleted or moved meanwhile.
WalksEnd == WalkEnds /\ C!ChatsEnd

\* SyncJobs': every queued job is settled.
QueueDrains == J!QueueDrains
=============================================================================
