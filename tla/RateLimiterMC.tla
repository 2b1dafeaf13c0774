--------------------------- MODULE RateLimiterMC ----------------------------
(***************************************************************************)
(* Instances of RateLimiter for TLC: one address (addresses share nothing),*)
(* limits that are unset, one and two, and time for three windows.         *)
(***************************************************************************)
EXTENDS RateLimiter

CONSTANT k1

SomeLimits == {0, 1, 2}
=============================================================================
