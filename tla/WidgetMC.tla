------------------------------ MODULE WidgetMC ------------------------------
(***************************************************************************)
(* Instances of Widget for TLC: turns that overlap, with an open or a      *)
(* reset before, between and after them.                                   *)
(***************************************************************************)
EXTENDS Widget

CONSTANTS t1, t2, p1, p2

(* The lists of the run change little at a time; the algorithm of repeat   *)
(* is evaluated on all pairs of lists of up to four keys.                  *)
ASSUME RepeatKeepsNodes == RepeatKeepsNodesUpTo(4)
=============================================================================
