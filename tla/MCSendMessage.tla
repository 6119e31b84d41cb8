--------------------------- MODULE MCSendMessage ---------------------------
(***************************************************************************)
(* SendMessage for TLC: concurrent requests that share request ids, with   *)
(* bodies addressed to two chats.                                          *)
(***************************************************************************)
EXTENDS SendMessage, TLC

CONSTANTS b1, b2, c1, c2

MCChatOf == [b \in {b1, b2} |-> IF b = b1 THEN c1 ELSE c2]

Symmetry == Permutations(Handlers) \cup Permutations(Keys)
=============================================================================
