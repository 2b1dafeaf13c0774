-------------------------- MODULE ChatHistoryProofs --------------------------
(***************************************************************************)
(* The conversation is the last turns that finished, for any number of     *)
(* visitors and handlers and any even cap.  One lemma carries the proof:   *)
(* to add a turn's two messages and cut at the cap is the same as to add   *)
(* the turn and take the latest ones.  A visitor's answered turns are      *)
(* among those that finished, so they are sent unless the cap drops them.  *)
(***************************************************************************)
EXTENDS ChatHistory, SequenceTheorems, TLAPS

LEMMA TurnsOfCap == Turns \in Nat \ {0} /\ Cap = 2 * Turns
  BY HistoryAssumption, SMT DEF Turns

(* A part of a sequence, and a sequence with two more elements.            *)
LEMMA PartOf ==
  ASSUME NEW S, NEW s \in Seq(S), NEW a \in Int, NEW b \in Int, NEW d \in Nat,
         1 <= a, b <= Len(s), d = (b + 1) - a
  PROVE  /\ SubSeq(s, a, b) \in Seq(S) /\ Len(SubSeq(s, a, b)) = d
         /\ \A i \in 1..d : SubSeq(s, a, b)[i] = s[a + i - 1]
<1>1. \A i \in a..b : s[i] \in S
  OBVIOUS
<1>2. /\ SubSeq(s, a, b) \in Seq(S)
      /\ Len(SubSeq(s, a, b)) = IF a <= b THEN (b - a) + 1 ELSE 0
      /\ \A i \in 1..((b - a) + 1) : SubSeq(s, a, b)[i] = s[a + i - 1]
  BY <1>1, SubSeqProperties
<1>. QED
  BY <1>2

LEMMA WithTwo ==
  ASSUME NEW S, NEW p \in Seq(S), NEW x \in S, NEW y \in S
  PROVE  /\ p \o <<x, y>> \in Seq(S) /\ Len(p \o <<x, y>>) = Len(p) + 2
         /\ \A i \in 1..Len(p) : (p \o <<x, y>>)[i] = p[i]
         /\ (p \o <<x, y>>)[Len(p) + 1] = x /\ (p \o <<x, y>>)[Len(p) + 2] = y
<1> DEFINE q == <<x, y>>
<1>1. q \in Seq(S) /\ Len(q) = 2 /\ q[1] = x /\ q[2] = y
  OBVIOUS
<1>2. Len(p) \in Nat
  OBVIOUS
<1>. HIDE DEF q
<1>3. /\ p \o q \in Seq(S) /\ Len(p \o q) = Len(p) + Len(q)
      /\ \A i \in 1..(Len(p) + Len(q)) :
           (p \o q)[i] = IF i <= Len(p) THEN p[i] ELSE q[i - Len(p)]
  BY <1>1, ConcatProperties
<1>4. (p \o q)[Len(p) + 1] = q[1] /\ (p \o q)[Len(p) + 2] = q[2]
  BY <1>1, <1>2, <1>3
<1>5. \A i \in 1..Len(p) : (p \o q)[i] = p[i]
  BY <1>1, <1>2, <1>3
<1>. QED
  BY <1>1, <1>3, <1>4, <1>5 DEF q

(* The latest turns of a longer sequence: all but the oldest, if there was *)
(* no room, and the new one.                                               *)
LEMMA LatestAppend ==
  ASSUME NEW s \in Seq(Turn), NEW t \in Turn
  PROVE  LET l == Latest(s)
             m == Latest(Append(s, t)) IN
         /\ l \in Seq(Turn) /\ m \in Seq(Turn) /\ Len(l) <= Turns
         /\ m = IF Len(l) < Turns THEN Append(l, t)
                ELSE Append(SubSeq(l, 2, Len(l)), t)
<1> DEFINE l == Latest(s)
           a == Append(s, t)
<1>1. CASE Len(s) < Turns
  BY <1>1, TurnsOfCap DEF Latest
<1>2. CASE Len(s) = Turns
  <2>1. l = s
    BY <1>2, TurnsOfCap DEF Latest
  <2>2. Latest(a) = SubSeq(a, 2, Len(a))
    BY <1>2, TurnsOfCap DEF Latest
  <2>3. SubSeq(a, 2, Len(a)) = Append(SubSeq(s, 2, Len(s)), t)
    BY <1>2, TurnsOfCap
  <2>. QED
    BY <1>2, <2>1, <2>2, <2>3, TurnsOfCap
<1>3. CASE Len(s) > Turns
  <2> DEFINE n == Len(s)
             k == Turns
  <2>0. n \in Nat /\ k \in Nat /\ k >= 1 /\ n > k
    BY <1>3, TurnsOfCap
  <2>1. l = SubSeq(s, n - k + 1, n)
    BY <1>3 DEF Latest
  <2>2. a \in Seq(Turn) /\ Len(a) = n + 1 /\ a[n + 1] = t /\ \A i \in 1..n : a[i] = s[i]
    BY <2>0
  <2>3. Latest(a) = SubSeq(a, (n + 1) - k + 1, n + 1)
    BY <2>0, <2>2 DEF Latest
  <2>. HIDE DEF k, a
  <2>4. /\ l \in Seq(Turn) /\ Len(l) = k
        /\ \A i \in 1..k : l[i] = s[(n - k + 1) + i - 1]
    <3>. HIDE DEF l
    <3>1. k = (n + 1) - (n - k + 1) /\ 1 <= n - k + 1 /\ n - k + 1 \in Int
      BY <2>0
    <3>. QED
      BY <2>0, <2>1, <3>1, PartOf
  <2>5. /\ Latest(a) \in Seq(Turn) /\ Len(Latest(a)) = k
        /\ \A i \in 1..k : Latest(a)[i] = a[((n + 1) - k + 1) + i - 1]
    <3>1. /\ k = ((n + 1) + 1) - ((n + 1) - k + 1) /\ 1 <= (n + 1) - k + 1
          /\ (n + 1) - k + 1 \in Int /\ n + 1 \in Int
      BY <2>0
    <3>. QED
      BY <2>0, <2>2, <2>3, <3>1, PartOf, SMTT(30)
  <2>. HIDE DEF l
  <2> DEFINE b == Append(SubSeq(l, 2, Len(l)), t)
  <2>6. /\ b \in Seq(Turn) /\ Len(b) = k /\ b[k] = t
        /\ \A i \in 1..(k - 1) : b[i] = l[i + 1]
    BY <2>0, <2>4
  <2>. HIDE DEF b
  <2>7. ASSUME NEW i \in 1..k PROVE Latest(a)[i] = b[i]
    <3>1. CASE i = k
      BY <2>0, <2>2, <2>5, <2>6, <3>1
    <3>2. CASE i < k
      <4>1. b[i] = l[i + 1] /\ l[i + 1] = s[(n - k + 1) + (i + 1) - 1]
        BY <2>0, <2>4, <2>6, <3>2
      <4>2. /\ (n - k + 1) + (i + 1) - 1 \in 1..n
            /\ ((n + 1) - k + 1) + i - 1 = (n - k + 1) + (i + 1) - 1
        BY <2>0, <3>2
      <4>. QED
        BY <2>2, <2>5, <4>1, <4>2
    <3>. QED
      BY <2>0, <3>1, <3>2
  <2>8. Latest(a) = b
    BY <2>5, <2>6, <2>7, SeqEqual
  <2>. QED
    BY <2>0, <2>4, <2>5, <2>8 DEF k, a, b, l
<1>. QED
  BY <1>1, <1>2, <1>3, TurnsOfCap

LEMMA LatestBounded ==
  ASSUME NEW s \in Seq(Turn)
  PROVE  Latest(s) \in Seq(Turn) /\ Len(Latest(s)) <= Turns
<1>1. CASE Len(s) > Turns
  <2> DEFINE n == Len(s)
             k == Turns
  <2>1. Latest(s) = SubSeq(s, n - k + 1, n)
    BY <1>1 DEF Latest
  <2>2. /\ n \in Nat /\ k \in Nat /\ n > k /\ n - k + 1 \in Int /\ n \in Int
        /\ k = (n + 1) - (n - k + 1) /\ 1 <= n - k + 1
    BY <1>1, TurnsOfCap
  <2>. HIDE DEF k
  <2>3. SubSeq(s, n - k + 1, n) \in Seq(Turn) /\ Len(SubSeq(s, n - k + 1, n)) = k
    BY <2>2, PartOf
  <2>. QED
    BY <2>1, <2>2, <2>3 DEF k
<1>2. CASE Len(s) <= Turns
  BY <1>2, TurnsOfCap DEF Latest
<1>. QED
  BY <1>1, <1>2, TurnsOfCap

(* The messages of a sequence of turns, one by one.                        *)
LEMMA MessagesOf ==
  ASSUME NEW s \in Seq(Turn)
  PROVE  /\ Messages(s) \in Seq(Message) /\ Len(Messages(s)) = 2 * Len(s)
         /\ \A i \in 1..2 * Len(s) :
              Messages(s)[i] = Said(IF i % 2 = 1 THEN "user" ELSE "assistant", s[(i + 1) \div 2])
<1>1. \A i \in 1..2 * Len(s) : (i + 1) \div 2 \in 1..Len(s)
  OBVIOUS
<1>2. \A i \in 1..2 * Len(s) :
        Said(IF i % 2 = 1 THEN "user" ELSE "assistant", s[(i + 1) \div 2]) \in Message
  BY <1>1 DEF Said, Message
<1>. QED
  BY <1>2 DEF Messages

(* To add the two messages of a turn and cut at the cap is to add the turn *)
(* and take the latest.                                                    *)
LEMMA TrimKeepsLatest ==
  ASSUME NEW s \in Seq(Turn), NEW t \in Turn
  PROVE  Trimmed(Messages(Latest(s)) \o <<Said("user", t), Said("assistant", t)>>)
           = Messages(Latest(Append(s, t)))
<1> DEFINE l == Latest(s)
           m == Latest(Append(s, t))
           two == <<Said("user", t), Said("assistant", t)>>
           c == Messages(l) \o two
           n == Len(l)
<1>1. /\ l \in Seq(Turn) /\ m \in Seq(Turn) /\ n <= Turns /\ n \in Nat
      /\ m = IF n < Turns THEN Append(l, t) ELSE Append(SubSeq(l, 2, n), t)
  BY LatestAppend
<1>2. /\ Said("user", t) \in Message /\ Said("assistant", t) \in Message
  BY DEF Said, Message
<1>. HIDE DEF l, m
<1>3. /\ c \in Seq(Message) /\ Len(c) = 2 * n + 2
      /\ \A i \in 1..2 * n : c[i] = Messages(l)[i]
      /\ c[2 * n + 1] = Said("user", t) /\ c[2 * n + 2] = Said("assistant", t)
  <2>1. Messages(l) \in Seq(Message) /\ Len(Messages(l)) = 2 * n
    BY <1>1, MessagesOf
  <2> DEFINE p == Messages(l)
             x == Said("user", t)
             y == Said("assistant", t)
  <2>2. p \in Seq(Message) /\ Len(p) = 2 * n /\ x \in Message /\ y \in Message
    BY <1>2, <2>1
  <2>3. c = p \o <<x, y>>
    OBVIOUS
  <2>. HIDE DEF c, p, x, y, n
  <2>4. /\ c \in Seq(Message) /\ Len(c) = Len(p) + 2
        /\ \A i \in 1..Len(p) : c[i] = p[i]
        /\ c[Len(p) + 1] = x /\ c[Len(p) + 2] = y
    BY <2>2, <2>3, WithTwo
  <2>. QED
    BY <2>2, <2>4 DEF p, x, y
<1>4. \A i \in 1..2 * n :
        c[i] = Said(IF i % 2 = 1 THEN "user" ELSE "assistant", l[(i + 1) \div 2])
  BY <1>1, <1>3, MessagesOf
<1>5. /\ Messages(m) \in Seq(Message) /\ Len(Messages(m)) = 2 * Len(m)
      /\ \A i \in 1..2 * Len(m) :
           Messages(m)[i] = Said(IF i % 2 = 1 THEN "user" ELSE "assistant", m[(i + 1) \div 2])
  BY <1>1, MessagesOf
<1>. HIDE DEF c, n
<1>6. CASE n < Turns
  <2>1. /\ Len(m) = n + 1 /\ m[n + 1] = t /\ \A j \in 1..n : m[j] = l[j]
    BY <1>1, <1>6 DEF n
  <2>a. 2 * Len(m) = 2 * n + 2
    <3>1. n \in Nat /\ Len(m) = n + 1
      BY <1>1, <2>1, Zenon
    <3> DEFINE k == Len(m)
    <3>2. k = n + 1
      BY <3>1
    <3>. HIDE DEF k
    <3>3. 2 * k = 2 * n + 2
      BY <3>1, <3>2
    <3>. QED
      BY <3>3 DEF k
  <2>b. \A i \in 1..(2 * n + 2) :
          Messages(m)[i] = Said(IF i % 2 = 1 THEN "user" ELSE "assistant", m[(i + 1) \div 2])
    <3> DEFINE d == 2 * Len(m)
               e == 2 * n + 2
    <3>1. d = e
      BY <2>a
    <3>2. \A i \in 1..d :
            Messages(m)[i] = Said(IF i % 2 = 1 THEN "user" ELSE "assistant", m[(i + 1) \div 2])
      BY <1>5
    <3>. HIDE DEF d, e
    <3>3. \A i \in 1..e :
            Messages(m)[i] = Said(IF i % 2 = 1 THEN "user" ELSE "assistant", m[(i + 1) \div 2])
      BY <3>1, <3>2, Zenon
    <3>. QED
      BY <3>3 DEF e
  <2>2. \A i \in 1..(2 * n + 2) : Messages(m)[i] = c[i]
    <3>. SUFFICES ASSUME NEW i \in 1..(2 * n + 2) PROVE Messages(m)[i] = c[i]
      OBVIOUS
    <3>1. CASE i <= 2 * n
      <4>1. (i + 1) \div 2 \in 1..n
        BY <1>1, <3>1
      <4>2. m[(i + 1) \div 2] = l[(i + 1) \div 2]
        BY <2>1, <4>1
      <4>3. i \in 1..2 * n
        BY <1>1, <3>1
      <4>4. c[i] = Said(IF i % 2 = 1 THEN "user" ELSE "assistant", l[(i + 1) \div 2])
        BY <1>4, <4>3, Zenon
      <4>5. Messages(m)[i] = Said(IF i % 2 = 1 THEN "user" ELSE "assistant", m[(i + 1) \div 2])
        BY <2>b, Zenon
      <4>. QED
        BY <4>2, <4>4, <4>5, Zenon
    <3>2. CASE i = 2 * n + 1
      <4>1. (i + 1) \div 2 = n + 1 /\ i % 2 = 1
        BY <1>1, <3>2
      <4>2. Messages(m)[i] = Said("user", m[n + 1])
        BY <2>b, <4>1
      <4>. QED
        BY <1>3, <2>1, <3>2, <4>2
    <3>3. CASE i = 2 * n + 2
      <4>1. (i + 1) \div 2 = n + 1 /\ i % 2 # 1
        BY <1>1, <3>3
      <4>2. Messages(m)[i] = Said("assistant", m[n + 1])
        BY <2>b, <4>1
      <4>. QED
        BY <1>3, <2>1, <3>3, <4>2
    <3>. QED
      BY <1>1, <3>1, <3>2, <3>3
  <2>3. Messages(m) = c
    BY <1>1, <1>3, <1>5, <2>1, <2>2
  <2>4. ~ (Len(c) > Cap)
    BY <1>1, <1>3, <1>6, TurnsOfCap
  <2>. QED
    BY <2>3, <2>4 DEF Trimmed, c, l, m
<1>7. CASE n = Turns
  <2>0. n >= 1
    BY <1>7, TurnsOfCap
  <2>1. /\ Len(m) = n /\ m[n] = t /\ \A j \in 1..(n - 1) : m[j] = l[j + 1]
    BY <1>1, <1>7, <2>0 DEF n
  <2>2. Trimmed(c) = SubSeq(c, 3, 2 * n + 2)
    <3>1. Len(c) - Cap + 1 = 3 /\ Len(c) > Cap
      BY <1>1, <1>3, <1>7, TurnsOfCap
    <3>. QED
      BY <1>3, <3>1 DEF Trimmed
  <2>3. /\ Trimmed(c) \in Seq(Message) /\ Len(Trimmed(c)) = 2 * n
        /\ \A i \in 1..2 * n : Trimmed(c)[i] = c[i + 2]
    <3> DEFINE b == 2 * n + 2
               d == 2 * n
    <3>1. /\ b \in Int /\ d \in Nat /\ 3 \in Int /\ 1 <= 3 /\ b <= Len(c) /\ d = (b + 1) - 3
      BY <1>1, <1>3
    <3>2. c \in Seq(Message) /\ Trimmed(c) = SubSeq(c, 3, b)
      BY <1>3, <2>2
    <3>. HIDE DEF b, d
    <3>3. /\ Trimmed(c) \in Seq(Message) /\ Len(Trimmed(c)) = d
          /\ \A i \in 1..d : Trimmed(c)[i] = c[3 + i - 1]
      BY <3>1, <3>2, PartOf
    <3>4. \A i \in 1..d : 3 + i - 1 = i + 2
      BY <3>1
    <3>. QED
      BY <3>3, <3>4 DEF d
  <2>4. \A i \in 1..2 * n : Messages(m)[i] = c[i + 2]
    <3>. SUFFICES ASSUME NEW i \in 1..2 * n PROVE Messages(m)[i] = c[i + 2]
      OBVIOUS
    <3>1. CASE i <= 2 * n - 2
      <4>1. /\ (i + 1) \div 2 \in 1..(n - 1) /\ i + 2 \in 1..2 * n
            /\ (i + 2 + 1) \div 2 = (i + 1) \div 2 + 1 /\ (i + 2) % 2 = i % 2
        BY <1>1, <3>1
      <4>2. Messages(m)[i] = Said(IF i % 2 = 1 THEN "user" ELSE "assistant", m[(i + 1) \div 2])
        BY <1>5, <2>1
      <4>3. c[i + 2] = Said(IF i % 2 = 1 THEN "user" ELSE "assistant", l[(i + 1) \div 2 + 1])
        BY <1>4, <4>1
      <4>4. m[(i + 1) \div 2] = l[(i + 1) \div 2 + 1]
        BY <2>1, <4>1
      <4>. QED
        BY <4>2, <4>3, <4>4
    <3>2. CASE i = 2 * n - 1
      <4>1. (i + 1) \div 2 = n /\ i % 2 = 1 /\ i + 2 = 2 * n + 1
        BY <1>1, <3>2
      <4>2. Messages(m)[i] = Said("user", m[n])
        BY <1>1, <1>5, <2>1, <3>2, <4>1
      <4>. QED
        BY <1>3, <2>1, <4>1, <4>2
    <3>3. CASE i = 2 * n
      <4>1. (i + 1) \div 2 = n /\ i % 2 # 1 /\ i + 2 = 2 * n + 2
        BY <1>1, <3>3
      <4>2. Messages(m)[i] = Said("assistant", m[n])
        BY <1>1, <1>5, <2>1, <3>3, <4>1
      <4>. QED
        BY <1>3, <2>1, <4>1, <4>2
    <3>. QED
      BY <1>1, <3>1, <3>2, <3>3
  <2>5. \A i \in 1..2 * n : Trimmed(c)[i] = Messages(m)[i]
    BY <2>3, <2>4
  <2>6. Len(Messages(m)) = Len(Trimmed(c)) /\ Messages(m) \in Seq(Message)
    BY <1>5, <2>1, <2>3
  <2>7. Trimmed(c) = Messages(m)
    BY <2>3, <2>5, <2>6, SeqEqual
  <2>. QED
    BY <2>7 DEF c, l, m
<1>. QED
  BY <1>1, <1>6, <1>7, TurnsOfCap

(***************************************************************************)
(* The invariant                                                           *)
(***************************************************************************)

LEMMA Empty ==
  NoRequest \in Locals /\ Messages(Latest(<<>>)) = <<>>
<1>1. NoTurn \in Turn
  BY DEF NoTurn, Turn, Modes
<1>2. (CHOOSE v \in Visitors : TRUE) \in Visitors
  BY HistoryAssumption
<1>3. <<>> \in Seq(Message)
  OBVIOUS
<1>4. NoRequest \in Locals
  BY <1>1, <1>2, <1>3 DEF NoRequest, Locals
<1>5. Latest(<<>>) = <<>>
  BY TurnsOfCap DEF Latest
<1>6. Messages(<<>>) \in Seq(Message) /\ Len(Messages(<<>>)) = 2 * Len(<<>>)
  <2>1. <<>> \in Seq(Turn)
    OBVIOUS
  <2>. QED
    BY <2>1, MessagesOf
<1>7. Messages(<<>>) = <<>>
  BY <1>6
<1>. QED
  BY <1>4, <1>5, <1>7

LEMMA InitHistory == Init => HistoryTypeOK /\ LastTurnsRemembered
<1> SUFFICES ASSUME Init PROVE HistoryTypeOK /\ LastTurnsRemembered
  OBVIOUS
<1>1. <<>> \in Seq(Message) /\ <<>> \in Seq(Turn) /\ Len(<<>>) = 0
  OBVIOUS
<1>2. HistoryTypeOK
  <2>1. /\ msgs = [v \in Visitors |-> <<>>] /\ finished = [v \in Visitors |-> <<>>]
        /\ told = [v \in Visitors |-> {}]
    BY DEF Init
  <2>a. /\ msgs \in [Visitors -> Seq(Message)] /\ finished \in [Visitors -> Seq(Turn)]
        /\ told \in [Visitors -> SUBSET Turn]
    BY <1>1, <2>1
  <2>2. \A v \in Visitors : Len(msgs[v]) <= Cap
    <3>1. 0 <= Cap
      BY HistoryAssumption
    <3>. QED
      BY <1>1, <2>1, <3>1
  <2>3. req \in [Requests -> Locals]
    BY Empty DEF Init
  <2>. QED
    BY <2>a, <2>2, <2>3 DEF Init, HistoryTypeOK, Steps
<1>3. LastTurnsRemembered
  BY Empty DEF Init, LastTurnsRemembered
<1>. QED
  BY <1>2, <1>3

(* Whatever the step, it leaves a handler's variables in their type.       *)
LEMMA NextHistory ==
  ASSUME HistoryTypeOK, LastTurnsRemembered, [Next]_vars
  PROVE  HistoryTypeOK' /\ LastTurnsRemembered'
<1>. USE DEF HistoryTypeOK, LastTurnsRemembered
<1>1. ASSUME NEW r \in Requests, NEW v \in Visitors, NEW mode \in Modes, Begin(r, v, mode)
      PROVE  HistoryTypeOK' /\ LastTurnsRemembered'
  <2> DEFINE t == [n |-> turns + 1, mode |-> mode]
             sent == IF mode = "message" THEN Append(msgs[v], Said("user", t)) ELSE <<>>
             local == [visitor |-> v, turn |-> t, answered |-> FALSE, before |-> told[v],
                       sent |-> sent]
  <2>1. t \in Turn
    BY DEF Turn
  <2>2. Said("user", t) \in Message
    BY <2>1 DEF Said, Message
  <2>3. sent \in Seq(Message)
    BY <2>2
  <2>4. req' = [req EXCEPT ![r] = local] /\ pc' = [pc EXCEPT ![r] = "check"]
        /\ turns' = turns + 1 /\ UNCHANGED <<msgs, finished, told>>
    BY <1>1, Zenon DEF Begin
  <2>5. local \in Locals
    <3>. HIDE DEF t, sent
    <3>. QED
      BY <2>1, <2>3 DEF Locals
  <2>. HIDE DEF local
  <2>. QED
    BY <2>4, <2>5 DEF Steps
<1>2. ASSUME NEW r \in Requests, Check(r) \/ Stream(r)
      PROVE  HistoryTypeOK' /\ LastTurnsRemembered'
  <2>1. CASE Check(r)
    BY <2>1 DEF Check, Steps
  <2>2. CASE Stream(r)
    <3>1. PICK answered \in BOOLEAN : req' = [req EXCEPT ![r].answered = answered]
      BY <2>2 DEF Stream
    <3>2. req' \in [Requests -> Locals]
      BY <3>1 DEF Locals
    <3>. QED
      BY <2>2, <3>2 DEF Stream, Steps
  <2>. QED
    BY <1>2, <2>1, <2>2
<1>3. ASSUME NEW r \in Requests, Persist(r) PROVE HistoryTypeOK' /\ LastTurnsRemembered'
  <2> DEFINE v == req[r].visitor
             t == req[r].turn
             kept == Trimmed(Remembered(r))
  <2>1. v \in Visitors /\ t \in Turn
    BY DEF Locals
  <2>2. pc' = [pc EXCEPT ![r] = "reply"] /\ UNCHANGED <<req, turns, told>>
    BY <1>3 DEF Persist
  <2>3. CASE Persists(r)
    <3>1. /\ msgs' = [msgs EXCEPT ![v] = kept]
          /\ finished' = [finished EXCEPT ![v] = Append(@, t)]
      BY <1>3, <2>3, Zenon DEF Persist
    <3>2. kept = Messages(Latest(Append(finished[v], t)))
      <4>1. Remembered(r) = Messages(Latest(finished[v])) \o <<Said("user", t), Said("assistant", t)>>
        BY <2>1 DEF Remembered
      <4>. QED
        BY <2>1, <4>1, TrimKeepsLatest
    <3>. HIDE DEF v, t, kept
    <3>3. Append(finished[v], t) \in Seq(Turn)
      BY <2>1
    <3>4. kept \in Seq(Message) /\ Len(kept) <= Cap
      <4>1. /\ Latest(Append(finished[v], t)) \in Seq(Turn)
            /\ Len(Latest(Append(finished[v], t))) <= Turns
        BY <3>3, LatestBounded
      <4>2. /\ Messages(Latest(Append(finished[v], t))) \in Seq(Message)
            /\ Len(Messages(Latest(Append(finished[v], t)))) = 2 * Len(Latest(Append(finished[v], t)))
        BY <4>1, MessagesOf
      <4>3. Len(Latest(Append(finished[v], t))) \in Nat
        BY <4>1
      <4>. QED
        BY <3>2, <4>1, <4>2, <4>3, TurnsOfCap
    <3>5. HistoryTypeOK'
      BY <2>1, <2>2, <3>1, <3>3, <3>4 DEF Steps
    <3>6. ASSUME NEW u \in Visitors PROVE msgs'[u] = Messages(Latest(finished'[u]))
      <4>1. CASE u = v
        BY <2>1, <3>1, <3>2, <4>1
      <4>2. CASE u # v
        BY <2>1, <3>1, <4>2
      <4>. QED
        BY <4>1, <4>2
    <3>. QED
      BY <3>5, <3>6
  <2>4. CASE ~ Persists(r)
    BY <1>3, <2>2, <2>4 DEF Persist, Steps
  <2>. QED
    BY <2>3, <2>4
<1>4. ASSUME NEW r \in Requests, Reply(r) PROVE HistoryTypeOK' /\ LastTurnsRemembered'
  BY <1>4 DEF Reply, Steps, Locals
<1>5. ASSUME Restart PROVE HistoryTypeOK' /\ LastTurnsRemembered'
  <2>1. <<>> \in Seq(Message) /\ <<>> \in Seq(Turn) /\ Len(<<>>) = 0
    OBVIOUS
  <2>2. /\ msgs' \in [Visitors -> Seq(Message)] /\ finished' \in [Visitors -> Seq(Turn)]
        /\ \A v \in Visitors : Len(msgs'[v]) <= Cap
    BY <1>5, <2>1, HistoryAssumption DEF Restart
  <2>3. req' \in [Requests -> Locals]
    BY <1>5, Empty DEF Restart
  <2>4. HistoryTypeOK'
    BY <1>5, <2>2, <2>3 DEF Restart, Steps
  <2>5. LastTurnsRemembered'
    BY <1>5, Empty DEF Restart
  <2>. QED
    BY <2>4, <2>5
<1>6. CASE UNCHANGED vars
  BY <1>6 DEF vars
<1>. QED
  BY <1>1, <1>2, <1>3, <1>4, <1>5, <1>6 DEF Next

LEMMA HistoryInductive == Spec => [](HistoryTypeOK /\ LastTurnsRemembered)
<1>1. HistoryTypeOK /\ LastTurnsRemembered /\ [Next]_vars
        => (HistoryTypeOK /\ LastTurnsRemembered)'
  BY NextHistory
<1>. QED
  BY InitHistory, <1>1, PTL DEF Spec

(* For any number of visitors, handlers and turns and any even cap, the    *)
(* conversation is the last turns that finished, whole and in order:       *)
(* history.append (chat.go) under its mutex, whatever copy of it the       *)
(* handlers hold.                                                          *)
THEOREM HistoryInvariant == Spec => []LastTurnsRemembered
<1>. QED
  BY HistoryInductive, PTL

(* Type correctness of the turns and of the copies their handlers hold.    *)
THEOREM HistoryTypes == Spec => []HistoryTypeOK
<1>. QED
  BY HistoryInductive, PTL

(***************************************************************************)
(* What a visitor has seen answered                                        *)
(***************************************************************************)

Appended(v, t) == \E i \in DOMAIN finished[v] : finished[v][i] = t

(* A turn is appended before its last event is sent.                       *)
ToldInv ==
  /\ \A v \in Visitors : \A t \in told[v] : Appended(v, t)
  /\ \A r \in Requests :
       pc[r] = "reply" /\ Persists(r) => Appended(req[r].visitor, req[r].turn)

(* The conversation mentions every turn it is made of that the cap has not *)
(* pushed out.                                                             *)
LEMMA LatestMentioned ==
  ASSUME NEW s \in Seq(Turn), NEW i \in DOMAIN s
  PROVE  Mentions(Messages(Latest(s)), s[i]) \/ Len(Messages(Latest(s))) = Cap
<1>1. CASE Len(s) > Turns
  <2> DEFINE n == Len(s)
             k == Turns
             l == Latest(s)
  <2>1. l = SubSeq(s, n - k + 1, n)
    BY <1>1 DEF Latest
  <2>2. /\ n \in Nat /\ k \in Nat /\ n > k /\ n - k + 1 \in Int /\ n \in Int
        /\ k = (n + 1) - (n - k + 1) /\ 1 <= n - k + 1
    BY <1>1, TurnsOfCap
  <2> HIDE DEF k, l
  <2>3. l \in Seq(Turn) /\ Len(l) = k
    BY <2>1, <2>2, PartOf
  <2>4. Len(Messages(l)) = 2 * k
    BY <2>3, MessagesOf
  <2> QED
    BY <2>4, TurnsOfCap DEF k, l
<1>2. CASE Len(s) <= Turns
  <2>1. Latest(s) = s
    BY <1>2, TurnsOfCap DEF Latest
  <2>2. i \in 1..Len(s) /\ Len(s) \in Nat /\ i \in Nat
    OBVIOUS
  <2> DEFINE j == 2 * i
  <2>3. j \in 1..2 * Len(s) /\ (j + 1) \div 2 = i
    BY <2>2, SMTT(30)
  <2> HIDE DEF j
  <2>4. /\ Messages(s) \in Seq(Message) /\ Len(Messages(s)) = 2 * Len(s)
        /\ Messages(s)[j] = Said(IF j % 2 = 1 THEN "user" ELSE "assistant", s[(j + 1) \div 2])
    BY <2>3, MessagesOf
  <2>5. Messages(s)[j].turn = s[i]
    BY <2>3, <2>4 DEF Said
  <2>6. j \in DOMAIN Messages(s)
    BY <2>3, <2>4, LenProperties
  <2> QED
    BY <2>1, <2>5, <2>6 DEF Mentions
<1> QED
  BY <1>1, <1>2, TurnsOfCap

(* What is sent with a message: the conversation, and the message.         *)
LEMMA AppendMentions ==
  ASSUME NEW c \in Seq(Message), NEW m \in Message, NEW t,
         Mentions(c, t) \/ Len(c) = Cap
  PROVE  Mentions(Append(c, m), t) \/ Len(Append(c, m)) = Cap + 1
<1>1. /\ Append(c, m) \in Seq(Message) /\ Len(Append(c, m)) = Len(c) + 1
      /\ \A i \in 1..Len(c) : Append(c, m)[i] = c[i]
  BY AppendProperties
<1>2. DOMAIN c = 1..Len(c) /\ Len(c) \in Nat
  BY LenProperties
<1>3. ASSUME NEW i \in DOMAIN c, c[i].turn = t PROVE Mentions(Append(c, m), t)
  <2>1. i \in DOMAIN Append(c, m) /\ Append(c, m)[i] = c[i]
    BY <1>1, <1>2
  <2> QED
    BY <1>3, <2>1 DEF Mentions
<1> QED
  BY <1>1, <1>3 DEF Mentions

LEMMA NextTold ==
  ASSUME HistoryTypeOK, LastTurnsRemembered, ToldInv, AnsweredTurnsSent, [Next]_vars
  PROVE  ToldInv' /\ AnsweredTurnsSent'
<1>t. /\ req \in [Requests -> Locals] /\ pc \in [Requests -> Steps]
      /\ msgs \in [Visitors -> Seq(Message)] /\ finished \in [Visitors -> Seq(Turn)]
      /\ told \in [Visitors -> SUBSET Turn] /\ turns \in Nat
  BY DEF HistoryTypeOK
<1>1. ASSUME NEW r \in Requests, NEW v \in Visitors, NEW mode \in Modes, Begin(r, v, mode)
      PROVE  ToldInv' /\ AnsweredTurnsSent'
  <2> DEFINE t == [n |-> turns + 1, mode |-> mode]
             said == Said("user", t)
             sent == IF mode = "message" THEN Append(msgs[v], said) ELSE <<>>
             local == [visitor |-> v, turn |-> t, answered |-> FALSE, before |-> told[v],
                       sent |-> sent]
  <2>1. /\ req' = [req EXCEPT ![r] = local] /\ pc' = [pc EXCEPT ![r] = "check"]
        /\ UNCHANGED <<msgs, finished, told>>
    BY <1>1, Zenon DEF Begin
  <2>2. said \in Message
    <3>1. turns + 1 \in Nat
      BY <1>t
    <3> QED
      BY <3>1 DEF Said, Message, Turn
  <2>3. /\ local.turn.mode = mode /\ local.before = told[v] /\ local.sent = sent
    OBVIOUS
  <2>4. ASSUME mode = "message", NEW u \in told[v]
        PROVE  Mentions(sent, u) \/ Len(sent) = Cap + 1
    <3>1. PICK i \in DOMAIN finished[v] : finished[v][i] = u
      BY <2>4 DEF ToldInv, Appended
    <3>2. Mentions(msgs[v], u) \/ Len(msgs[v]) = Cap
      BY <1>t, <3>1, LatestMentioned DEF LastTurnsRemembered
    <3>3. msgs[v] \in Seq(Message) /\ sent = Append(msgs[v], said)
      BY <1>t, <2>4
    <3> HIDE DEF said, sent
    <3> QED
      BY <2>2, <3>2, <3>3, AppendMentions
  <2> HIDE DEF local, sent
  <2>5. \A q \in Requests : /\ q # r => req'[q] = req[q] /\ pc'[q] = pc[q]
                            /\ q = r => req'[q] = local /\ pc'[q] = "check"
    BY <1>t, <2>1
  <2>6. AnsweredTurnsSent'
    BY <2>3, <2>4, <2>5 DEF AnsweredTurnsSent
  <2>7. ToldInv'
    BY <2>1, <2>5 DEF ToldInv, Appended, Persists
  <2> QED
    BY <2>6, <2>7
<1>2. ASSUME NEW r \in Requests, Check(r)
      PROVE  ToldInv' /\ AnsweredTurnsSent'
  <2>1. /\ UNCHANGED <<req, told, finished>>
        /\ \A q \in Requests : pc'[q] = pc[q] \/ (pc[q] = "check" /\ pc'[q] \in {"stream", "idle"})
    BY <1>t, <1>2 DEF Check
  <2> QED
    BY <2>1 DEF ToldInv, Appended, Persists, AnsweredTurnsSent
<1>3. ASSUME NEW r \in Requests, Stream(r)
      PROVE  ToldInv' /\ AnsweredTurnsSent'
  <2>1. PICK answered \in BOOLEAN : req' = [req EXCEPT ![r].answered = answered]
    BY <1>3 DEF Stream
  <2>2. /\ UNCHANGED <<told, finished>> /\ pc[r] = "stream"
        /\ \A q \in Requests : pc'[q] = IF q = r THEN "append" ELSE pc[q]
    BY <1>t, <1>3 DEF Stream
  <2>3. /\ \A q \in Requests : q # r => req'[q] = req[q]
        /\ req'[r].turn = req[r].turn /\ req'[r].before = req[r].before
        /\ req'[r].sent = req[r].sent
    BY <1>t, <2>1 DEF Locals
  <2>4. ToldInv'
    BY <2>2, <2>3 DEF ToldInv, Appended, Persists
  <2>5. AnsweredTurnsSent'
    BY <2>2, <2>3 DEF AnsweredTurnsSent
  <2> QED
    BY <2>4, <2>5
<1>4. ASSUME NEW r \in Requests, Persist(r)
      PROVE  ToldInv' /\ AnsweredTurnsSent'
  <2> DEFINE v == req[r].visitor
             t == req[r].turn
  <2>1. v \in Visitors /\ t \in Turn
    BY <1>t DEF Locals
  <2>2. /\ pc[r] = "append" /\ UNCHANGED <<req, told>>
        /\ \A q \in Requests : pc'[q] = IF q = r THEN "reply" ELSE pc[q]
    BY <1>t, <1>4 DEF Persist
  <2>3. \A w \in Visitors, u \in Turn : Appended(w, u) => Appended(w, u)'
    <3>1. CASE Persists(r)
      <4>1. finished' = [finished EXCEPT ![v] = Append(finished[v], t)]
        BY <1>4, <3>1 DEF Persist
      <4> HIDE DEF v, t
      <4>2. ASSUME NEW i \in DOMAIN finished[v]
            PROVE  i \in DOMAIN Append(finished[v], t) /\ Append(finished[v], t)[i] = finished[v][i]
        BY <1>t, <2>1, AppendProperties
      <4> QED
        BY <1>t, <4>1, <4>2 DEF Appended
    <3>2. CASE ~Persists(r)
      BY <1>4, <3>2 DEF Persist, Appended
    <3> QED
      BY <3>1, <3>2
  <2>4. Persists(r) => Appended(v, t)'
    <3> SUFFICES ASSUME Persists(r) PROVE Appended(v, t)'
      OBVIOUS
    <3>1. finished' = [finished EXCEPT ![v] = Append(finished[v], t)]
      BY <1>4 DEF Persist
    <3>v. v' = v /\ t' = t
      BY <2>2
    <3> HIDE DEF v, t
    <3>2. finished'[v] = Append(finished[v], t) /\ finished[v] \in Seq(Turn)
      BY <1>t, <2>1, <3>1
    <3>3. Len(finished[v]) + 1 \in DOMAIN finished'[v] /\ finished'[v][Len(finished[v]) + 1] = t
      BY <2>1, <3>2
    <3> QED
      BY <3>3, <3>v DEF Appended
  <2>5. \A q \in Requests : Persists(q)' = Persists(q)
    BY <2>2 DEF Persists
  <2>6. ToldInv'
    <3>1. ASSUME NEW w \in Visitors, NEW u \in told'[w] PROVE Appended(w, u)'
      BY <1>t, <2>2, <2>3 DEF ToldInv
    <3>2. ASSUME NEW q \in Requests, pc'[q] = "reply", Persists(q)'
          PROVE  Appended(req[q].visitor, req[q].turn)'
      <4>1. req[q].visitor \in Visitors /\ req[q].turn \in Turn
        BY <1>t DEF Locals
      <4>2. CASE q = r
        BY <2>4, <2>5, <3>2, <4>2
      <4>3. CASE q # r
        <5>1. Appended(req[q].visitor, req[q].turn)
          BY <2>2, <2>5, <3>2, <4>3 DEF ToldInv
        <5>2. \E i \in DOMAIN finished'[req[q].visitor] :
                finished'[req[q].visitor][i] = req[q].turn
          BY <2>3, <4>1, <5>1 DEF Appended
        <5> QED
          BY <2>2, <5>2 DEF Appended
      <4> QED
        BY <4>2, <4>3
    <3> QED
      BY <3>1, <3>2, <2>2 DEF ToldInv
  <2>7. AnsweredTurnsSent'
    BY <2>2 DEF AnsweredTurnsSent
  <2> QED
    BY <2>6, <2>7
<1>5. ASSUME NEW r \in Requests, Reply(r)
      PROVE  ToldInv' /\ AnsweredTurnsSent'
  <2>1. /\ UNCHANGED <<req, finished>> /\ pc[r] = "reply"
        /\ \A q \in Requests : pc'[q] = IF q = r THEN "idle" ELSE pc[q]
    BY <1>t, <1>5 DEF Reply
  <2>2. \A v \in Visitors : \A t \in told'[v] :
          t \in told[v] \/ (Persists(r) /\ v = req[r].visitor /\ t = req[r].turn)
    <3>1. CASE Persists(r)
      <4>1. told' = [told EXCEPT ![req[r].visitor] = told[req[r].visitor] \cup {req[r].turn}]
        BY <1>5, <3>1 DEF Reply
      <4>2. \A v \in Visitors :
              told'[v] = IF v = req[r].visitor THEN told[v] \cup {req[r].turn} ELSE told[v]
        BY <1>t, <4>1
      <4> QED
        BY <3>1, <4>2
    <3>2. CASE ~Persists(r)
      BY <1>5, <3>2 DEF Reply
    <3> QED
      BY <3>1, <3>2
  <2>3. \A v \in Visitors : \A t \in told'[v] : Appended(v, t)
    BY <2>1, <2>2 DEF ToldInv
  <2> QED
    BY <2>1, <2>3 DEF ToldInv, Appended, Persists, AnsweredTurnsSent
<1>6. CASE Restart
  BY <1>6 DEF Restart, ToldInv, AnsweredTurnsSent
<1>7. CASE UNCHANGED vars
  BY <1>7 DEF vars, ToldInv, Appended, Persists, AnsweredTurnsSent
<1> QED
  BY <1>1, <1>2, <1>3, <1>4, <1>5, <1>6, <1>7 DEF Next

(* A visitor who saw an answer end and then asks again is understood: the  *)
(* agent is sent every such turn, unless the cap has pushed it out.  The   *)
(* broker appends a turn before it sends the turn's last event.            *)
THEOREM AnswersAreSent == Spec => []AnsweredTurnsSent
<1> DEFINE I == HistoryTypeOK /\ LastTurnsRemembered /\ ToldInv /\ AnsweredTurnsSent
<1>1. Init => I
  BY InitHistory DEF Init, ToldInv, AnsweredTurnsSent
<1>2. I /\ [Next]_vars => I'
  BY NextHistory, NextTold
<1>3. I => AnsweredTurnsSent
  OBVIOUS
<1> QED
  BY <1>1, <1>2, <1>3, PTL DEF Spec
=============================================================================
