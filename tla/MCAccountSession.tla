-------------------------- MODULE MCAccountSession --------------------------
(***************************************************************************)
(* AccountSession for TLC.  In a behaviour either all processes run, as    *)
(* they do while one replaces another, or one of them runs alone, as the   *)
(* README deploys it; what the code promises to a single process is        *)
(* checked of the second kind.  Processes and directories are              *)
(* interchangeable.                                                        *)
(***************************************************************************)
EXTENDS AccountSession, TLC

VARIABLE alone      \* the process that runs alone, or None

\* What a process, its logins, TDLib and the clock do while no other process runs.
AloneNext(p) ==
    \/ RunnerStep(p) \/ Tdlib(p) \/ Crash(p)
    \/ \E d \in Dirs : LoginStart(p, d) \/ LoginStep(d)
    \/ LeaseExpires

MCInit == alone \in Processes \cup {None} /\ Init

MCNext ==
    /\ UNCHANGED alone
    /\ \/ alone = None /\ Next
       \/ \E p \in Processes : alone = p /\ AloneNext(p)

MCSpec == MCInit /\ [][MCNext]_<<alone, vars>>

Symmetry == Permutations(Processes) \cup Permutations(Dirs)

-----------------------------------------------------------------------------
\* A process that runs alone serves nothing from a replaced directory, and never
\* deletes the directory of the account or of an open session.
AloneHandsOver == alone # None => ServedIsCurrent /\ DirectoryKept

\* Its old runner never disconnects the account a login has just connected.
AloneKeepsLogin == [][alone # None => DisconnectsOwn]_vars
=============================================================================
