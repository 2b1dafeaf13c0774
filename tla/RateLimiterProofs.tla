------------------------- MODULE RateLimiterProofs --------------------------
(***************************************************************************)
(* Proofs about RateLimiter, for any addresses, limits and length of a     *)
(* window.  Two grants that are 2 * MaxLimit apart in the log lie in       *)
(* windows with a whole one between them, since ranks within a window are  *)
(* consecutive and at most MaxLimit; and windows do not overlap.           *)
(***************************************************************************)
EXTENDS RateLimiter, TLAPS

(* The effective limit of a request is at least one and at most MaxLimit.  *)
LEMMA EffectiveLimit ==
  ASSUME NEW l \in Limits
  PROVE  Effective(l) \in 1..MaxLimit
BY LimiterAssumption DEF Effective

(* No window, nothing granted and nothing refused, whatever the time *)
Empty ==
  /\ now \in Nat
  /\ windows = [k \in Keys |-> NoWindow]
  /\ log = [k \in Keys |-> <<>>]
  /\ refused = [k \in Keys |-> NoRefusal]

LEMMA EmptyInv == Empty => LimiterInv
<1> SUFFICES ASSUME Empty PROVE LimiterInv
  OBVIOUS
<1>1. LimiterTypeOK
  BY DEF Empty, LimiterTypeOK, NoWindow, NoRefusal, Window, Grant, Refusal
<1>2. \A k \in Keys : /\ Len(log[k]) = 0
                      /\ windows[k] = [count |-> 0, resetAt |-> -1]
                      /\ refused[k].limit = 0
  BY DEF Empty, NoWindow, NoRefusal
<1>3. GrantsInWindow /\ GrantsInOrder /\ RefusedOnlyWhenBusy
  BY <1>2 DEF GrantsInWindow, GrantsInOrder, RefusedOnlyWhenBusy
<1>4. WindowIsNewest
  <2> SUFFICES ASSUME NEW k \in Keys
               PROVE  WindowIsNewest!(k)
    BY DEF WindowIsNewest
  <2>1. /\ windows[k].count = 0 /\ windows[k].resetAt = -1
        /\ now \in Nat /\ Len(log[k]) = 0 /\ 1..Len(log[k]) = {}
    BY <1>2 DEF Empty
  <2> QED
    BY <2>1, LimiterAssumption
<1> QED
  BY <1>1, <1>3, <1>4 DEF LimiterInv

LEMMA InitInv == Init => LimiterInv
BY EmptyInv DEF Init, Empty

LEMMA EmptyInvNext == Empty' => LimiterInv'
BY EmptyInv, PTL

(* What a call sees of the window it falls into.                           *)
LEMMA WindowOfCall ==
  ASSUME LimiterInv, NEW k \in Keys
  PROVE  LET w == CurrentWindow(k)
             start == w.resetAt - Minute IN
         /\ w \in Window
         /\ start \in Int /\ start <= now /\ now <= start + Minute
         /\ w.count <= Len(log[k]) /\ w.count <= MaxLimit
         /\ \A i \in 1..Len(log[k]) :
              IF i > Len(log[k]) - w.count
              THEN /\ log[k][i].start = start
                   /\ log[k][i].nth = w.count - (Len(log[k]) - i)
              ELSE start > log[k][i].start + Minute
<1> DEFINE n == Len(log[k])
<1>1. /\ windows[k] \in Window /\ now \in Nat /\ Minute \in Nat /\ n \in Nat
      /\ \A i \in 1..n : log[k][i] \in Grant
  BY LimiterAssumption DEF LimiterInv, LimiterTypeOK
<1>2. /\ windows[k].count <= n /\ windows[k].count <= MaxLimit
      /\ windows[k].resetAt - Minute <= now
      /\ \A i \in 1..n :
           IF i > n - windows[k].count
           THEN /\ log[k][i].start = windows[k].resetAt - Minute
                /\ log[k][i].nth = windows[k].count - (n - i)
           ELSE windows[k].resetAt - Minute > log[k][i].start + Minute
  BY DEF LimiterInv, WindowIsNewest
<1>3. CASE now > windows[k].resetAt
  <2>1. CurrentWindow(k) = [count |-> 0, resetAt |-> now + Minute]
    BY <1>3 DEF CurrentWindow
  <2>2. ASSUME NEW i \in 1..n
        PROVE  now > log[k][i].start + Minute
    <3> DEFINE s == log[k][i].start
               r == windows[k].resetAt
               m == windows[k].count
    <3>1. s \in Int /\ r \in Int /\ m \in Nat
      BY <1>1 DEF Window, Grant
    <3>2. IF i > n - m THEN s = r - Minute ELSE r - Minute > s + Minute
      BY <1>2
    <3>3. now > r
      BY <1>3
    <3> HIDE DEF s, r, m, n
    <3>4. now > s + Minute
      BY <1>1, <3>1, <3>2, <3>3
    <3> QED
      BY <3>4 DEF s
  <2> QED
    BY <1>1, <2>1, <2>2, LimiterAssumption DEF Window
<1>4. CASE ~(now > windows[k].resetAt)
  <2>1. CurrentWindow(k) = windows[k]
    BY <1>4 DEF CurrentWindow
  <2> QED
    BY <1>1, <1>2, <1>4, <2>1 DEF Window
<1> QED
  BY <1>3, <1>4

(* A refusal changes at most the window the map holds for its address.     *)
LEMMA RefuseInv ==
  ASSUME LimiterInv, NEW k \in Keys, NEW l \in Limits, RefuseSession(k, l)
  PROVE  LimiterInv'
<1> DEFINE w == CurrentWindow(k)
           n == Len(log[k])
<1>1. /\ w.count >= Effective(l)
      /\ windows' = [windows EXCEPT ![k] = w]
      /\ refused' = [refused EXCEPT ![k] =
           [at |-> now, limit |-> Effective(l), after |-> n]]
      /\ now' = now /\ log' = log
  BY DEF RefuseSession, Full
<1>2. /\ now \in Nat /\ windows \in [Keys -> Window]
      /\ log \in [Keys -> Seq(Grant)] /\ refused \in [Keys -> Refusal]
      /\ n \in Nat /\ Minute \in Nat /\ MaxLimit \in Nat
  BY LimiterAssumption DEF LimiterInv, LimiterTypeOK
<1>3. Effective(l) \in 1..MaxLimit
  BY EffectiveLimit
<1>4. /\ w \in Window /\ w.count <= n /\ now <= w.resetAt
      /\ \A i \in 1..n : i > n - w.count => log[k][i].start = w.resetAt - Minute
  BY WindowOfCall, <1>2 DEF Window
<1>5. LimiterTypeOK'
  BY <1>1, <1>2, <1>3, <1>4 DEF LimiterTypeOK, Refusal
<1>6. GrantsInWindow' /\ GrantsInOrder'
  BY <1>1 DEF LimiterInv, GrantsInWindow, GrantsInOrder
<1>7. WindowIsNewest'
  <2> SUFFICES ASSUME NEW q \in Keys
               PROVE  WindowIsNewest!(q)'
    BY DEF WindowIsNewest
  <2>1. CASE q = k
    <3>1. windows'[q] = w /\ log'[q] = log[k] /\ now' = now
      BY <1>1, <1>2, <2>1
    <3> QED
      BY <3>1, WindowOfCall
  <2>2. CASE q # k
    <3>1. windows'[q] = windows[q] /\ log'[q] = log[q] /\ now' = now
      BY <1>1, <1>2, <2>2
    <3> QED
      BY <3>1 DEF LimiterInv, WindowIsNewest
  <2> QED
    BY <2>1, <2>2
<1>8. RefusedOnlyWhenBusy'
  <2> SUFFICES ASSUME NEW q \in Keys
               PROVE  RefusedOnlyWhenBusy!(q)'
    BY DEF RefusedOnlyWhenBusy
  <2>1. CASE q = k
    <3>1. /\ refused'[q] = [at |-> now, limit |-> Effective(l), after |-> n]
          /\ log'[q] = log[k]
      BY <1>1, <1>2, <2>1
    <3> DEFINE i == n - Effective(l) + 1
    <3>2. i \in 1..n /\ i > n - w.count
      BY <1>1, <1>2, <1>3, <1>4, SMTT(30) DEF Window
    <3>3. log[k][i].start = w.resetAt - Minute /\ now <= w.resetAt
      BY <3>2, <1>4
    <3>4. log[k][i].start <= log[k][i].at /\ log[k][i] \in Grant
      BY <3>2, <1>2 DEF LimiterInv, GrantsInWindow
    <3>5. log[k][i].at >= now - Minute
      BY <3>3, <3>4, <1>2, <1>4, SMTT(30) DEF Grant, Window
    <3> HIDE DEF i
    <3>6. n - Effective(l) + 1 = i
      BY DEF i
    <3> QED
      BY <3>1, <3>2, <3>5, <3>6, <1>2, <1>3
  <2>2. CASE q # k
    <3>1. refused'[q] = refused[q] /\ log'[q] = log[q]
      BY <1>1, <1>2, <2>2
    <3> QED
      BY <3>1 DEF LimiterInv, RefusedOnlyWhenBusy
  <2> QED
    BY <2>1, <2>2
<1> QED
  BY <1>5, <1>6, <1>7, <1>8 DEF LimiterInv

(* A grant is logged behind the others, one rank after the last of its     *)
(* window, or first in a window that opens with it.                        *)
LEMMA AllowInv ==
  ASSUME LimiterInv, NEW k \in Keys, NEW l \in Limits, AllowSession(k, l)
  PROVE  LimiterInv'
<1> DEFINE w == CurrentWindow(k)
           n == Len(log[k])
           start == w.resetAt - Minute
           g == [at |-> now, start |-> start, nth |-> w.count + 1]
           full == [w EXCEPT !.count = @ + 1]
<1>1. /\ ~(w.count >= Effective(l))
      /\ windows' = [windows EXCEPT ![k] = full]
      /\ log' = [log EXCEPT ![k] = Append(@, g)]
      /\ now' = now /\ refused' = refused
  BY DEF AllowSession, Full
<1>2. /\ now \in Nat /\ windows \in [Keys -> Window]
      /\ log \in [Keys -> Seq(Grant)] /\ refused \in [Keys -> Refusal]
      /\ n \in Nat /\ Minute \in Nat /\ MaxLimit \in Nat
  BY LimiterAssumption DEF LimiterInv, LimiterTypeOK
<1>3. Effective(l) \in 1..MaxLimit
  BY EffectiveLimit
<1>4. /\ w \in Window /\ start \in Int /\ start <= now /\ now <= start + Minute
      /\ w.count <= n
      /\ \A i \in 1..n : IF i > n - w.count
                         THEN /\ log[k][i].start = start
                              /\ log[k][i].nth = w.count - (n - i)
                         ELSE start > log[k][i].start + Minute
  BY WindowOfCall
<1>5. w.count + 1 \in 1..MaxLimit /\ w.count \in Nat
  BY <1>1, <1>3, <1>4, <1>2 DEF Window
<1>6. /\ full \in Window /\ full.count = w.count + 1
      /\ full.resetAt = w.resetAt /\ g \in Grant
  <2>1. w = [count |-> w.count, resetAt |-> w.resetAt] /\ w.resetAt \in Int
    BY <1>4 DEF Window
  <2>2. full = [count |-> w.count + 1, resetAt |-> w.resetAt]
    BY <2>1
  <2>3. full \in Window
    BY <2>1, <2>2, <1>5 DEF Window
  <2>4. g \in Grant
    BY <1>2, <1>4, <1>5 DEF Grant
  <2> QED
    BY <2>2, <2>3, <2>4
<1>7. /\ windows'[k] = full /\ Len(log'[k]) = n + 1 /\ log'[k][n + 1] = g
      /\ \A i \in 1..n : log'[k][i] = log[k][i]
  BY <1>1, <1>2, <1>6
<1>8. \A q \in Keys \ {k} : windows'[q] = windows[q] /\ log'[q] = log[q]
  BY <1>1, <1>2
<1>9. \A i \in 1..n : log[k][i] \in Grant
  BY <1>2
<1>10. LimiterTypeOK'
  BY <1>1, <1>2, <1>6 DEF LimiterTypeOK
<1>11. GrantsInWindow'
  <2> SUFFICES ASSUME NEW q \in Keys, NEW i \in 1..Len(log'[q])
               PROVE  GrantsInWindow!(q)!(i)'
    BY DEF GrantsInWindow
  <2>1. CASE q = k /\ i = n + 1
    <3>1. log'[q][i] = g
      BY <1>7, <2>1
    <3> QED
      BY <3>1, <1>1, <1>2, <1>4, <1>5
  <2>2. CASE q = k /\ i \in 1..n
    <3>1. log'[q][i] = log[k][i]
      BY <1>7, <2>2
    <3> QED
      BY <3>1, <2>2, <1>1 DEF LimiterInv, GrantsInWindow
  <2>3. CASE q # k
    BY <2>3, <1>8, <1>1 DEF LimiterInv, GrantsInWindow
  <2> QED
    BY <2>1, <2>2, <2>3, <1>2, <1>7
<1>12. GrantsInOrder'
  <2> SUFFICES ASSUME NEW q \in Keys, NEW i \in 1..Len(log'[q]),
                      NEW j \in 1..Len(log'[q]), i < j
               PROVE  \/ /\ log'[q][j].start = log'[q][i].start
                         /\ log'[q][j].nth - log'[q][i].nth = j - i
                      \/ log'[q][j].start > log'[q][i].start + Minute
    BY DEF GrantsInOrder
  <2>1. CASE q = k /\ j = n + 1
    <3>1. i \in 1..n /\ log'[q][i] = log[k][i] /\ log'[q][j] = g
      BY <1>7, <2>1, <1>2
    <3>2. CASE i > n - w.count
      BY <3>1, <3>2, <2>1, <1>2, <1>4, <1>5, <1>9 DEF Grant, Window
    <3>3. CASE ~(i > n - w.count)
      BY <3>1, <3>3, <2>1, <1>4
    <3> QED
      BY <3>2, <3>3
  <2>2. CASE q = k /\ j \in 1..n
    <3>1. i \in 1..n /\ log'[q][i] = log[k][i] /\ log'[q][j] = log[k][j]
      BY <1>7, <2>2, <1>2
    <3> QED
      BY <3>1, <2>2 DEF LimiterInv, GrantsInOrder
  <2>3. CASE q # k
    BY <2>3, <1>8 DEF LimiterInv, GrantsInOrder
  <2> QED
    BY <2>1, <2>2, <2>3, <1>2, <1>7
<1>13. WindowIsNewest'
  <2> SUFFICES ASSUME NEW q \in Keys
               PROVE  WindowIsNewest!(q)'
    BY DEF WindowIsNewest
  <2>1. CASE q = k
    <3>1. /\ windows'[k].count = w.count + 1
          /\ windows'[k].resetAt - Minute = start
          /\ Len(log'[k]) = n + 1 /\ now' = now
      BY <1>1, <1>6, <1>7
    <3>2. ASSUME NEW i \in 1..n + 1
          PROVE  IF i > (n + 1) - (w.count + 1)
                 THEN /\ log'[k][i].start = start
                      /\ log'[k][i].nth = (w.count + 1) - ((n + 1) - i)
                 ELSE start > log'[k][i].start + Minute
      <4>1. CASE i = n + 1
        BY <4>1, <1>7, <1>5, <1>2
      <4>2. CASE i \in 1..n
        <5>1. log'[k][i] = log[k][i]
          BY <1>7, <4>2
        <5>2. IF i > n - w.count
              THEN /\ log[k][i].start = start
                   /\ log[k][i].nth = w.count - (n - i)
              ELSE start > log[k][i].start + Minute
          BY <1>4, <4>2
        <5>3. w.count \in Int /\ n \in Int /\ i \in Int
          BY <1>2, <1>5, <4>2
        <5> HIDE DEF n, w
        <5>4. (w.count + 1) - ((n + 1) - i) = w.count - (n - i)
          BY <5>3
        <5>5. i > (n + 1) - (w.count + 1) <=> i > n - w.count
          BY <5>3
        <5> USE DEF n, w
        <5> QED
          BY <5>1, <5>2, <5>4, <5>5
      <4> QED
        BY <4>1, <4>2, <1>2
    <3>3. w.count + 1 <= n + 1 /\ w.count + 1 <= MaxLimit /\ start <= now
      BY <1>2, <1>4, <1>5
    <3>4. \A i \in 1..Len(log'[k]) :
            IF i > Len(log'[k]) - windows'[k].count
            THEN /\ log'[k][i].start = windows'[k].resetAt - Minute
                 /\ log'[k][i].nth = windows'[k].count - (Len(log'[k]) - i)
            ELSE windows'[k].resetAt - Minute > log'[k][i].start + Minute
      <4> TAKE i \in 1..Len(log'[k])
      <4>1. i \in 1..n + 1
        BY <3>1
      <4>2. IF i > (n + 1) - (w.count + 1)
            THEN /\ log'[k][i].start = start
                 /\ log'[k][i].nth = (w.count + 1) - ((n + 1) - i)
            ELSE start > log'[k][i].start + Minute
        BY <4>1, <3>2
      <4> QED
        BY <4>2, <3>1, Zenon
    <3>5. /\ windows'[k].count <= Len(log'[k])
          /\ windows'[k].count <= MaxLimit
          /\ windows'[k].resetAt - Minute <= now'
      BY <3>1, <3>3
    <3>6. WindowIsNewest!(k)'
      BY <3>4, <3>5
    <3> QED
      BY <2>1, <3>6, Zenon
  <2>2. CASE q # k
    BY <2>2, <1>1, <1>8 DEF LimiterInv, WindowIsNewest
  <2> QED
    BY <2>1, <2>2
<1>14. RefusedOnlyWhenBusy'
  <2> SUFFICES ASSUME NEW q \in Keys, refused'[q].limit > 0
               PROVE  /\ refused'[q].limit <= refused'[q].after
                      /\ refused'[q].after <= Len(log'[q])
                      /\ log'[q][refused'[q].after - refused'[q].limit + 1].at
                           >= refused'[q].at - Minute
    BY DEF RefusedOnlyWhenBusy
  <2> DEFINE r == refused[q]
             i == r.after - r.limit + 1
  <2>1. /\ r.limit <= r.after /\ r.after <= Len(log[q])
        /\ log[q][i].at >= r.at - Minute /\ refused'[q] = r /\ r \in Refusal
    BY <1>1, <1>2 DEF LimiterInv, RefusedOnlyWhenBusy
  <2>2. i \in 1..Len(log[q])
    BY <2>1, <1>1, <1>2, SMTT(30) DEF Refusal
  <2>3. Len(log'[q]) >= Len(log[q]) /\ log'[q][i] = log[q][i]
    BY <2>2, <1>2, <1>7, <1>8, SMTT(30)
  <2>4. now' = now /\ Len(log[q]) \in Nat /\ Len(log'[q]) \in Nat
    BY <1>1, <1>2, <1>8
  <2>5. log'[q][i].at >= r.at - Minute
    BY <2>1, <2>3
  <2>6. r.after <= Len(log'[q])
    BY <2>1, <2>3, <2>4 DEF Refusal
  <2> QED
    BY <2>1, <2>5, <2>6
<1> QED
  BY <1>10, <1>11, <1>12, <1>13, <1>14 DEF LimiterInv

LEMMA NextInv == LimiterInv /\ [Next]_vars => LimiterInv'
<1> SUFFICES ASSUME LimiterInv, [Next]_vars PROVE LimiterInv'
  OBVIOUS
<1>1. ASSUME NEW k \in Keys, NEW l \in Limits, AllowSession(k, l)
      PROVE  LimiterInv'
  BY <1>1, AllowInv
<1>2. ASSUME NEW k \in Keys, NEW l \in Limits, RefuseSession(k, l)
      PROVE  LimiterInv'
  BY <1>2, RefuseInv
<1>3. CASE Tick
  <2>1. /\ now' = now + 1 /\ now \in Nat
        /\ windows' = windows /\ log' = log /\ refused' = refused
    BY <1>3 DEF Tick, LimiterInv, LimiterTypeOK
  <2>2. LimiterTypeOK' /\ GrantsInOrder' /\ RefusedOnlyWhenBusy'
    BY <2>1 DEF LimiterInv, LimiterTypeOK, GrantsInOrder, RefusedOnlyWhenBusy
  <2>3. GrantsInWindow'
    <3>1. \A k \in Keys : \A i \in 1..Len(log[k]) : log[k][i] \in Grant
      BY DEF LimiterInv, LimiterTypeOK
    <3> QED
      BY <2>1, <3>1 DEF LimiterInv, GrantsInWindow, Grant
  <2>4. WindowIsNewest'
    <3>1. \A k \in Keys : windows[k].resetAt - Minute \in Int
      BY LimiterAssumption DEF LimiterInv, LimiterTypeOK, Window
    <3> QED
      BY <2>1, <3>1 DEF LimiterInv, WindowIsNewest
  <2> QED
    BY <2>2, <2>3, <2>4 DEF LimiterInv
<1>4. CASE UNCHANGED vars
  BY <1>4 DEF vars, LimiterInv, LimiterTypeOK, GrantsInWindow, GrantsInOrder,
              WindowIsNewest, RefusedOnlyWhenBusy
<1>5. CASE Restart
  <2>1. Empty'
    BY <1>5 DEF Restart, Empty, LimiterInv, LimiterTypeOK
  <2> QED
    BY <2>1, EmptyInvNext
<1> QED
  BY <1>1, <1>2, <1>3, <1>4, <1>5 DEF Next

(* Of three windows that do not overlap, a grant in the last comes more    *)
(* than a window after any in the first.                                   *)
LEMMA ThreeWindows ==
  ASSUME NEW at1 \in Int, NEW start1 \in Int, NEW start2 \in Int,
         NEW start3 \in Int, NEW at3 \in Int, Minute \in Nat,
         at1 <= start1 + Minute, start2 > start1 + Minute,
         start3 > start2 + Minute, start3 <= at3
  PROVE  at3 - at1 > Minute
OBVIOUS

(* The bookkeeping of the limiter, an invariant of the specification.      *)
THEOREM LimiterInvariant == Spec => []LimiterInv
<1>1. Init => LimiterInv
  BY InitInv
<1>2. LimiterInv /\ [Next]_vars => LimiterInv'
  BY NextInv
<1> QED
  BY <1>1, <1>2, PTL DEF Spec

(* AllowSession grants an address at most twice its limit in any minute:   *)
(* of grants i and i + 2 * MaxLimit, the one halfway is of a later window  *)
(* than the first and an earlier one than the last.                        *)
THEOREM AtMostTwice == Spec => []TwiceTheLimit
<1>1. LimiterInv => TwiceTheLimit
  <2> SUFFICES ASSUME LimiterInv, NEW k \in Keys, NEW i \in 1..Len(log[k]),
                      NEW j \in 1..Len(log[k]), j - i >= 2 * MaxLimit
               PROVE  log[k][j].at - log[k][i].at > Minute
    BY DEF TwiceTheLimit
  <2> DEFINE m == i + MaxLimit
  <2>1. MaxLimit \in Nat /\ MaxLimit >= 1 /\ Minute \in Nat
    BY LimiterAssumption
  <2>2. Len(log[k]) \in Nat /\ \A x \in 1..Len(log[k]) : log[k][x] \in Grant
    BY DEF LimiterInv, LimiterTypeOK
  <2>3. m \in 1..Len(log[k]) /\ i < m /\ m < j
    BY <2>1, <2>2
  <2>4. \A x \in 1..Len(log[k]) :
          /\ log[k][x].start <= log[k][x].at
          /\ log[k][x].at <= log[k][x].start + Minute
          /\ log[k][x].nth \in 1..MaxLimit
    BY DEF LimiterInv, GrantsInWindow
  <2>5. \A x, y \in 1..Len(log[k]) :
          x < y => \/ log[k][y].nth - log[k][x].nth = y - x
                   \/ log[k][y].start > log[k][x].start + Minute
    BY DEF LimiterInv, GrantsInOrder
  <2>6. ASSUME NEW x \in 1..Len(log[k]), NEW y \in 1..Len(log[k]),
               y - x >= MaxLimit
        PROVE  log[k][y].start > log[k][x].start + Minute
    <3>1. log[k][y].nth - log[k][x].nth < MaxLimit
      BY <2>1, <2>4
    <3>2. x < y /\ y - x \in Int
      BY <2>1, <2>2, <2>6
    <3>3. log[k][y].nth - log[k][x].nth # y - x
      BY <3>1, <3>2, <2>1, <2>4, <2>6
    <3> QED
      BY <3>2, <3>3, <2>5
  <2>7. m - i >= MaxLimit /\ j - m >= MaxLimit
    BY <2>1, <2>2, <2>3
  <2>8. /\ log[k][m].start > log[k][i].start + Minute
        /\ log[k][j].start > log[k][m].start + Minute
    BY <2>3, <2>6, <2>7
  <2>9. /\ log[k][i].at <= log[k][i].start + Minute
        /\ log[k][j].start <= log[k][j].at
        /\ log[k][i] \in Grant /\ log[k][m] \in Grant /\ log[k][j] \in Grant
    BY <2>2, <2>3, <2>4
  <2> HIDE DEF m
  <2>10. /\ log[k][i].at \in Int /\ log[k][i].start \in Int
         /\ log[k][m].start \in Int
         /\ log[k][j].at \in Int /\ log[k][j].start \in Int
    BY <2>9, SMTT(30) DEF Grant
  <2> QED
    BY <2>1, <2>8, <2>9, <2>10, ThreeWindows
<1> QED
  BY <1>1, LimiterInvariant, PTL

(* A refusal of AllowSession has as many grants behind it, all of the last *)
(* minute, as the limit it was refused under.                              *)
THEOREM RefusalsJustified == Spec => []RefusedOnlyWhenBusy
<1>1. LimiterInv => RefusedOnlyWhenBusy
  BY DEF LimiterInv
<1> QED
  BY <1>1, LimiterInvariant, PTL
=============================================================================
