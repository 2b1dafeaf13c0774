--------------------------- MODULE ChatHistoryMC ----------------------------
(***************************************************************************)
(* Instances of ChatHistory for TLC: two handlers, and a cap of two turns. *)
(***************************************************************************)
EXTENDS ChatHistory, TLC

CONSTANTS r1, r2, v1, v2

HandlersAlike == Permutations(Requests)
=============================================================================
