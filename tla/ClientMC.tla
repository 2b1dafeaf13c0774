------------------------------ MODULE ClientMC -------------------------------
(***************************************************************************)
(* Instances of Client for TLC.  Three callers: one whose session is       *)
(* refused, one that refreshes it, and one that comes in between.          *)
(***************************************************************************)
EXTENDS Client, TLC

CONSTANTS c1, c2, c3

CallersAlike == Permutations(Callers)
=============================================================================
