----------------------------- MODULE RateLimiter ----------------------------
(***************************************************************************)
(* The limit on minted sessions: Quotas.AllowSession of the broker         *)
(* (src/broker/internal/broker/quota.go).  There is a window for each      *)
(* embed and client address; it opens with the first request after the     *)
(* last one ended, and counts what it grants.  AllowSession holds the      *)
(* mutex from end to end, so a call is one action.                         *)
(*                                                                         *)
(* log and refused are history: what this process granted and refused, and *)
(* when.  The windows are kept in memory only and die with the process.    *)
(***************************************************************************)
EXTENDS Integers, Sequences

CONSTANTS
  Keys,          \* embedID|ip
  Limits,        \* sessions_per_min of the embed, whatever an operator sets
  DefaultLimit,  \* used for a limit that is not positive
  MaxLimit,      \* bounds both
  Minute,        \* length of a window, in ticks of the clock
  MaxNow         \* bound of the model: ticks

ASSUME LimiterAssumption ==
  /\ Limits \subseteq Int
  /\ DefaultLimit \in 1..MaxLimit
  /\ MaxLimit \in Nat
  /\ \A l \in Limits : l <= MaxLimit
  /\ Minute \in Nat
  /\ MaxNow \in Nat

VARIABLES
  now,      \* the broker's monotonic clock
  windows,  \* windows[k]: [count, resetAt]
  log,      \* log[k]: the grants, each with its window's start and its rank
  refused   \* refused[k]: the last refusal, and how many grants preceded it

vars == <<now, windows, log, refused>>

Window == [count : Nat, resetAt : Int]
Grant == [at : Nat, start : Int, nth : Nat]
Refusal == [at : Nat, limit : Nat, after : Nat]

(* An entry that is missing from the map is as good as one that is over.   *)
NoWindow == [count |-> 0, resetAt |-> -1]

NoRefusal == [at |-> 0, limit |-> 0, after |-> 0]

Init ==
  /\ now = 0
  /\ windows = [k \in Keys |-> NoWindow]
  /\ log = [k \in Keys |-> <<>>]
  /\ refused = [k \in Keys |-> NoRefusal]

Effective(perMin) == IF perMin <= 0 THEN DefaultLimit ELSE perMin

(* mutant: a window that is over is given more time, and keeps its count *)
ExtendedWindow(k) ==
  IF now > windows[k].resetAt
  THEN [windows[k] EXCEPT !.resetAt = now + Minute]
  ELSE windows[k]

CurrentWindow(k) ==
  IF now > windows[k].resetAt
  THEN [count |-> 0, resetAt |-> now + Minute]
  ELSE windows[k]

(* mutants: one more than the limit; one less *)
FullAbove(w, perMin) == w.count > Effective(perMin)
FullBelow(w, perMin) == w.count >= Effective(perMin) - 1

Full(w, perMin) == w.count >= Effective(perMin)

AllowSession(k, perMin) ==
  LET w == CurrentWindow(k) IN
  /\ ~Full(w, perMin)
  /\ windows' = [windows EXCEPT ![k] = [w EXCEPT !.count = @ + 1]]
  /\ log' = [log EXCEPT ![k] = Append(@, [at    |-> now,
                                          start |-> w.resetAt - Minute,
                                          nth   |-> w.count + 1])]
  /\ UNCHANGED <<now, refused>>

RefuseSession(k, perMin) ==
  LET w == CurrentWindow(k) IN
  /\ Full(w, perMin)
  /\ windows' = [windows EXCEPT ![k] = w]
  /\ refused' = [refused EXCEPT ![k] = [at    |-> now,
                                        limit |-> Effective(perMin),
                                        after |-> Len(log[k])]]
  /\ UNCHANGED <<now, log>>

Tick ==
  /\ now < MaxNow
  /\ now' = now + 1
  /\ UNCHANGED <<windows, log, refused>>

(* NewQuotas makes an empty map: every address starts over. *)
Restart ==
  /\ windows' = [k \in Keys |-> NoWindow]
  /\ log' = [k \in Keys |-> <<>>]
  /\ refused' = [k \in Keys |-> NoRefusal]
  /\ UNCHANGED now

Next ==
  \/ \E k \in Keys, l \in Limits : AllowSession(k, l) \/ RefuseSession(k, l)
  \/ Tick
  \/ Restart

Spec == Init /\ [][Next]_vars

-----------------------------------------------------------------------------

LimiterTypeOK ==
  /\ now \in Nat
  /\ windows \in [Keys -> Window]
  /\ log \in [Keys -> Seq(Grant)]
  /\ refused \in [Keys -> Refusal]

(* A grant falls into its window, and is one of its first MaxLimit.        *)
GrantsInWindow ==
  \A k \in Keys : \A i \in 1..Len(log[k]) :
    /\ log[k][i].start <= log[k][i].at
    /\ log[k][i].at <= log[k][i].start + Minute
    /\ log[k][i].at <= now
    /\ log[k][i].nth \in 1..MaxLimit

(* Grants are logged in order; those of one window have ranks in sequence, *)
(* and a window opens only after the one before it is over.                *)
GrantsInOrder ==
  \A k \in Keys : \A i, j \in 1..Len(log[k]) :
    i < j => \/ /\ log[k][j].start = log[k][i].start
                /\ log[k][j].nth - log[k][i].nth = j - i
             \/ log[k][j].start > log[k][i].start + Minute

(* The window in the map is the newest, and its count is the rank of the   *)
(* last grant: the last count grants are those of this window.             *)
WindowIsNewest ==
  \A k \in Keys :
    LET start == windows[k].resetAt - Minute
        n == windows[k].count IN
    /\ n <= Len(log[k]) /\ n <= MaxLimit
    /\ start <= now
    /\ \A i \in 1..Len(log[k]) :
         IF i > Len(log[k]) - n
         THEN log[k][i].start = start /\ log[k][i].nth = n - (Len(log[k]) - i)
         ELSE start > log[k][i].start + Minute

(* A visitor is told to slow down only when its address really was granted *)
(* as many sessions as the limit says within the last minute.              *)
RefusedOnlyWhenBusy ==
  \A k \in Keys :
    LET r == refused[k] IN
    r.limit > 0 =>
      /\ r.limit <= r.after /\ r.after <= Len(log[k])
      /\ log[k][r.after - r.limit + 1].at >= r.at - Minute

(* The inductive invariant of the limiter                                  *)
LimiterInv == /\ LimiterTypeOK
              /\ GrantsInWindow
              /\ GrantsInOrder
              /\ WindowIsNewest
              /\ RefusedOnlyWhenBusy

(* What the fixed window guarantees for any 60 seconds, wherever they      *)
(* start: no more than twice the limit (and not the limit itself, as a     *)
(* sliding counter would, which is what quota.go:15 calls it), as long as  *)
(* the broker runs.                                                        *)
TwiceTheLimit ==
  \A k \in Keys : \A i, j \in 1..Len(log[k]) :
    j - i >= 2 * MaxLimit => log[k][j].at - log[k][i].at > Minute
=============================================================================
