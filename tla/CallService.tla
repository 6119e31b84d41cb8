----------------------------- MODULE CallService -----------------------------
(***************************************************************************)
(* What the TDLib client of internal/tdlib promises its callers, apart     *)
(* from goroutines, channels and locks: a call is accepted only while the  *)
(* native client exists, is answered only with the answer to its own       *)
(* request, and always ends.                                               *)
(***************************************************************************)
CONSTANT Calls

VARIABLES
    phase,      \* what became of each call
    served,     \* requests that Telegram has answered
    up          \* whether the native client exists

vars == <<phase, served, up>>

Phases == {"new", "asked", "answered", "failed"}

Init ==
    /\ phase = [c \in Calls |-> "new"]
    /\ served = {}
    /\ up = TRUE

Ask(c) ==
    /\ up /\ phase[c] = "new"
    /\ phase' = [phase EXCEPT ![c] = "asked"]
    /\ UNCHANGED <<served, up>>

\* Telegram may answer a request whose caller has given up.
Serve(c) ==
    /\ up /\ phase[c] \in {"asked", "failed"}
    /\ served' = served \cup {c}
    /\ UNCHANGED <<phase, up>>

Answer(c) ==
    /\ phase[c] = "asked" /\ c \in served
    /\ phase' = [phase EXCEPT ![c] = "answered"]
    /\ UNCHANGED <<served, up>>

Fail(c) ==
    /\ phase[c] \in {"new", "asked"}
    /\ phase' = [phase EXCEPT ![c] = "failed"]
    /\ UNCHANGED <<served, up>>

Destroy == up /\ up' = FALSE /\ UNCHANGED <<phase, served>>

Next ==
    \/ \E c \in Calls : Ask(c) \/ Serve(c) \/ Answer(c) \/ Fail(c)
    \/ Destroy

\* A call that was asked ends; a call not begun owes nothing.
Ends(c) == phase[c] = "asked" /\ (Answer(c) \/ Fail(c))

Spec == Init /\ [][Next]_vars /\ \A c \in Calls : WF_vars(Ends(c))
=============================================================================
