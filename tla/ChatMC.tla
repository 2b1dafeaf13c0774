------------------------------ MODULE ChatMC -------------------------------
(***************************************************************************)
(* Instances of Chat for TLC: two handlers, two session tokens of one      *)
(* embed, budgets a couple of charges wide, so that checks, charges, stops *)
(* and restarts of the two handlers interleave at the boundary.            *)
(***************************************************************************)
EXTENDS Chat, TLC

CONSTANTS r1, r2, j1, j2, e1, c1

OneEmbed == [j \in Jtis |-> e1]
TwoMessages == [j \in Jtis |-> 2]
TwoTokens == [j \in Jtis |-> 2]
(* One session is held by its own budget, the other by the day's only. *)
TightAndLoose == [j \in Jtis |-> IF j = j1 THEN 2 ELSE 9]

(* Nothing keeps an operator from a negative budget. *)
NegativeOrTwo == {-1, 2}

HandlersAlike == Permutations(Requests)
=============================================================================
