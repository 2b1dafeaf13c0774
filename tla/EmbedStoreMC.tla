---------------------------- MODULE EmbedStoreMC ----------------------------
(***************************************************************************)
(* Instances of EmbedStore for TLC: two embeds, three keys, two origins,   *)
(* lists of up to two, and one session exchange.                           *)
(***************************************************************************)
EXTENDS EmbedStore, TLC

CONSTANTS i1, i2, p1, p2, p3, o1, o2, x1

OneList == {<<o1>>}
SmallLists == {<<o1>>, <<o1, o2>>}

(* Empty, shorter and longer than what is stored, with an element that is  *)
(* left alone and one that fails                                           *)
MixedPatches == {<<>>, <<o1>>, <<o1, Null>>, <<Bad>>}

(* Lists with elements that do not *)
AnyPatches == {<<o2>>, <<o2, Bad>>, <<Null, o1>>}

IdsAndKeysAlike == Permutations(Ids) \cup Permutations(Keys)
=============================================================================
