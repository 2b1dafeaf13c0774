--------------------------- MODULE KubeResolverMC ---------------------------
(***************************************************************************)
(* Instances of KubeResolver for TLC: two handlers, and two agents of one  *)
(* name in different namespaces, which is where keys could collide.        *)
(***************************************************************************)
EXTENDS KubeResolver, TLC

CONSTANTS h1, h2

SameName == {[ns |-> "a", name |-> "bot"], [ns |-> "b", name |-> "bot"]}

HandlersAlike == Permutations(Handlers)
=============================================================================
