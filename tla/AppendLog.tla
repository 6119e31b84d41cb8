------------------------------ MODULE AppendLog ------------------------------
(***************************************************************************)
(* What the audit trail promises: per chain a list of entries to which     *)
(* entries are appended one at a time and from which nothing is taken.     *)
(***************************************************************************)
EXTENDS Sequences

CONSTANTS Chains, Entries

VARIABLE log    \* the entries of each chain, oldest first

Init == log = [c \in Chains |-> <<>>]

Extend(c, e) == log' = [log EXCEPT ![c] = Append(@, e)]

Next == \E c \in Chains, e \in Entries : Extend(c, e)

Spec == Init /\ [][Next]_log
=============================================================================
