---------------------------- MODULE WidgetProofs ----------------------------
(***************************************************************************)
(* The widget, for any number of turns, opens and resets.                  *)
(*                                                                         *)
(* First the directive repeat, for any two lists: every state of its walk  *)
(* is as WalkInv says, and the walk is over when both lists are used up.   *)
(* Then what the handlers keep, from Element alone (ElementInv), whose     *)
(* bubble is which (BubblesInv), and with the cycle of updates that the    *)
(* page is the state of the element (ScreenInv).                           *)
(***************************************************************************)
EXTENDS Widget, SequenceTheorems, WellFoundedInduction, TLAPS

Below == {ss \in Nat \X Nat : ss[1] < ss[2]}

LEMMA Smallest ==
  ASSUME NEW S \in SUBSET Nat, S # {}
  PROVE  \E n \in S : \A m \in S : n <= m
<1>1. IsWellFoundedOn(Below, Nat)
  BY NatLessThanWellFounded DEF Below, OpToRel
<1>2. PICK n \in S : \A m \in S : ~ (<<m, n>> \in Below)
  BY <1>1, WFMin
<1>3. ASSUME NEW m \in S PROVE n <= m
  <2>1. m \in Nat /\ n \in Nat
    OBVIOUS
  <2>2. ~ (m < n)
    <3> SUFFICES ASSUME m < n PROVE FALSE
      OBVIOUS
    <3>1. <<m, n>> \in Below
      BY <2>1 DEF Below
    <3> QED
      BY <3>1, <1>2
  <2> QED
    BY <2>1, <2>2
<1> QED
  BY <1>3

-----------------------------------------------------------------------------
(* Taking a part out of a sequence and putting one in *)

NotIn(p, s) == \A i \in DOMAIN s : s[i] # p

LEMMA Halves ==
  ASSUME NEW S, NEW A \in Seq(S), NEW C \in Seq(S)
  PROVE  /\ A \o C \in Seq(S) /\ Len(A \o C) = Len(A) + Len(C)
         /\ SubSeq(A \o C, 1, Len(A)) = A
         /\ SubSeq(A \o C, Len(A) + 1, Len(A) + Len(C)) = C
<1> DEFINE D == A \o C
           a == Len(A)
           c == Len(C)
<1>1. /\ D \in Seq(S) /\ Len(D) = a + c /\ a \in Nat /\ c \in Nat
      /\ \A i \in 1..(a + c) : D[i] = IF i <= a THEN A[i] ELSE C[i - a]
  BY ConcatProperties
<1>2. \A i \in 1..(a + c) : D[i] \in S
  BY <1>1
<1> HIDE DEF D
<1>3. SubSeq(D, 1, a) = A
  <2> DEFINE s == SubSeq(D, 1, a)
  <2>1. \A i \in 1..a : D[i] \in S /\ D[i] = A[i]
    BY <1>1, <1>2
  <2>2. 1 \in Int /\ a \in Int /\ a - 1 + 1 = a
    BY <1>1
  <2>3. /\ s \in Seq(S) /\ Len(s) = IF 1 <= a THEN a - 1 + 1 ELSE 0
        /\ \A i \in 1..(a - 1 + 1) : s[i] = D[1 + i - 1]
    BY <2>1, <2>2, SubSeqProperties
  <2> HIDE DEF s
  <2>4. Len(s) = a
    BY <2>3, <1>1
  <2>5. \A i \in 1..a : s[i] = A[i]
    <3> TAKE i \in 1..a
    <3>1. i \in 1..(a - 1 + 1) /\ 1 + i - 1 = i
      BY <1>1
    <3> QED
      BY <3>1, <2>3, <2>1
  <2>6. s = A
    BY <2>3, <2>4, <2>5, SeqEqual
  <2> QED
    BY <2>6 DEF s
<1>4. SubSeq(D, a + 1, a + c) = C
  <2> DEFINE s == SubSeq(D, a + 1, a + c)
  <2>1. \A i \in (a + 1)..(a + c) : D[i] \in S
    <3> TAKE i \in (a + 1)..(a + c)
    <3>1. i \in 1..(a + c)
      BY <1>1
    <3> QED
      BY <3>1, <1>2
  <2>2. a + 1 \in Int /\ a + c \in Int /\ (a + c) - (a + 1) + 1 = c
    BY <1>1
  <2>3. /\ s \in Seq(S) /\ Len(s) = IF a + 1 <= a + c THEN (a + c) - (a + 1) + 1 ELSE 0
        /\ \A i \in 1..((a + c) - (a + 1) + 1) : s[i] = D[(a + 1) + i - 1]
    BY <2>1, <2>2, SubSeqProperties
  <2> HIDE DEF s
  <2>4. Len(s) = c
    BY <2>3, <1>1
  <2>5. \A i \in 1..c : s[i] = C[i]
    <3> TAKE i \in 1..c
    <3>1. /\ i \in 1..((a + c) - (a + 1) + 1) /\ (a + 1) + i - 1 = a + i
          /\ a + i \in 1..(a + c) /\ ~ (a + i <= a) /\ (a + i) - a = i
      BY <1>1
    <3>2. s[i] = D[a + i]
      BY <3>1, <2>3
    <3> QED
      BY <3>1, <3>2, <1>1
  <2>6. s = C
    BY <2>3, <2>4, <2>5, SeqEqual
  <2> QED
    BY <2>6 DEF s
<1> QED
  BY <1>1, <1>3, <1>4 DEF D

(* D is A, p and B, one after the other. *)
Cut(D, A, p, B) ==
  /\ Len(A) \in Nat /\ Len(B) \in Nat
  /\ Len(D) = Len(A) + 1 + Len(B) /\ DOMAIN D = 1..Len(D)
  /\ D[Len(A) + 1] = p
  /\ \A i \in 1..Len(A) : D[i] = A[i]
  /\ \A i \in 1..Len(B) : D[(Len(A) + 1) + i] = B[i]
  /\ SubSeq(D, 1, Len(A)) = A
  /\ SubSeq(D, Len(A) + 1, Len(D)) = <<p>> \o B
  /\ SubSeq(D, (Len(A) + 1) + 1, Len(D)) = B

LEMMA InMiddle ==
  ASSUME NEW S, NEW A \in Seq(S), NEW B \in Seq(S), NEW p \in S
  PROVE  /\ <<p>> \o B \in Seq(S)
         /\ A \o (<<p>> \o B) \in Seq(S)
         /\ Cut(A \o (<<p>> \o B), A, p, B)
<1> DEFINE one == <<p>>
           C == one \o B
           D == A \o C
           a == Len(A)
           b == Len(B)
<1>1. one \in Seq(S) /\ Len(one) = 1 /\ one[1] = p
  OBVIOUS
<1> HIDE DEF one
<1>2. a \in Nat /\ b \in Nat
  OBVIOUS
<1>3. /\ C \in Seq(S) /\ Len(C) = 1 + b
      /\ \A i \in 1..(1 + b) : C[i] = IF i <= 1 THEN one[i] ELSE B[i - 1]
  <2>1. /\ C \in Seq(S) /\ Len(C) = Len(one) + Len(B)
        /\ \A i \in 1..(Len(one) + Len(B)) : C[i] = IF i <= Len(one) THEN one[i] ELSE B[i - Len(one)]
    BY <1>1, ConcatProperties
  <2> HIDE DEF C
  <2> QED
    BY <2>1, <1>1
<1> HIDE DEF C
<1>4. C[1] = p /\ \A i \in 1..b : C[1 + i] = B[i]
  <2>1. 1 \in 1..(1 + b) /\ 1 <= 1
    BY <1>2
  <2>2. ASSUME NEW i \in 1..b PROVE C[1 + i] = B[i]
    <3>1. 1 + i \in 1..(1 + b) /\ ~ (1 + i <= 1) /\ (1 + i) - 1 = i
      BY <1>2
    <3> QED
      BY <3>1, <1>3
  <2> QED
    BY <2>1, <2>2, <1>1, <1>3
<1>5. /\ D \in Seq(S) /\ Len(D) = a + (1 + b)
      /\ \A i \in 1..(a + (1 + b)) : D[i] = IF i <= a THEN A[i] ELSE C[i - a]
  <2>1. /\ D \in Seq(S) /\ Len(D) = Len(A) + Len(C)
        /\ \A i \in 1..(Len(A) + Len(C)) : D[i] = IF i <= Len(A) THEN A[i] ELSE C[i - Len(A)]
    BY <1>3, ConcatProperties
  <2> QED
    BY <2>1, <1>3
<1>6. SubSeq(D, 1, a) = A /\ SubSeq(D, a + 1, Len(D)) = C
  BY <1>3, <1>5, Halves
<1>7. SubSeq(D, (a + 1) + 1, Len(D)) = B
  <2>1. D = (A \o one) \o B
    BY <1>1, ConcatAssociative DEF C
  <2>2. A \o one \in Seq(S) /\ Len(A \o one) = a + 1
    <3>1. A \o one \in Seq(S) /\ Len(A \o one) = Len(A) + Len(one)
      BY <1>1, ConcatProperties
    <3> QED
      BY <3>1, <1>1
  <2> HIDE DEF D
  <2>3. SubSeq(D, Len(A \o one) + 1, Len(A \o one) + b) = B
    BY <2>1, <2>2, Halves
  <2>4. (a + 1) + b = Len(D)
    BY <1>2, <1>5
  <2> QED
    BY <2>2, <2>3, <2>4
<1> HIDE DEF D
<1>8. a + 1 \in 1..Len(D) /\ D[a + 1] = p
  <2>1. a + 1 \in 1..(a + (1 + b)) /\ ~ (a + 1 <= a) /\ (a + 1) - a = 1
    BY <1>2
  <2> QED
    BY <2>1, <1>4, <1>5
<1>9. \A i \in 1..a : D[i] = A[i]
  <2> TAKE i \in 1..a
  <2>1. i \in 1..(a + (1 + b)) /\ i <= a
    BY <1>2
  <2> QED
    BY <2>1, <1>5
<1>10. \A i \in 1..b : D[(a + 1) + i] = B[i]
  <2> TAKE i \in 1..b
  <2>1. /\ (a + 1) + i \in 1..(a + (1 + b)) /\ ~ ((a + 1) + i <= a)
        /\ ((a + 1) + i) - a = 1 + i
    BY <1>2
  <2> QED
    BY <2>1, <1>4, <1>5
<1>11. Len(D) = a + 1 + b /\ DOMAIN D = 1..Len(D)
  BY <1>2, <1>5
<1>12. SubSeq(D, a + 1, Len(D)) = <<p>> \o B
  BY <1>6 DEF C, one
<1>13. Cut(D, A, p, B)
  BY <1>2, <1>6, <1>7, <1>8, <1>9, <1>10, <1>11, <1>12 DEF Cut
<1> QED
  BY <1>3, <1>5, <1>13 DEF C, D, one

LEMMA MinIs ==
  ASSUME NEW S, NEW k \in S, k \in Int, \A i \in S : i \in Int /\ k <= i
  PROVE  Min(S) = k
<1>1. ASSUME NEW x \in S, \A y \in S : x <= y PROVE x = k
  <2>1. x \in Int /\ k <= x /\ x <= k
    BY <1>1
  <2> QED
    BY <2>1
<1> QED
  BY <1>1 DEF Min

LEMMA PartGoes ==
  ASSUME NEW A \in Seq(Parts), NEW B \in Seq(Parts), NEW p \in Parts, NotIn(p, A)
  PROVE  WithoutPart(A \o (<<p>> \o B), p) = A \o B
<1> DEFINE D == A \o (<<p>> \o B)
           k == Len(A) + 1
           places == {i \in 1..Len(D) : D[i] = p}
<1>1. /\ Len(A) \in Nat /\ k \in 1..Len(D) /\ D[k] = p
      /\ \A i \in 1..Len(A) : D[i] = A[i]
      /\ SubSeq(D, 1, Len(A)) = A /\ SubSeq(D, k + 1, Len(D)) = B
      /\ D \in Seq(Parts)
  <2>1. Cut(D, A, p, B) /\ D \in Seq(Parts)
    BY InMiddle
  <2> HIDE DEF D
  <2> QED
    BY <2>1 DEF Cut
<1> HIDE DEF D
<1>2. k - 1 = Len(A) /\ k \in Int
  BY <1>1
<1>3. \A i \in places : k <= i /\ i \in Int
  <2> TAKE i \in places
  <2>1. i \in 1..Len(D) /\ Len(D) \in Nat /\ D[i] = p
    BY <1>1
  <2>2. i \notin 1..Len(A)
    <3> SUFFICES ASSUME i \in 1..Len(A) PROVE FALSE
      OBVIOUS
    <3>1. D[i] = A[i] /\ i \in DOMAIN A
      BY <1>1
    <3> QED
      BY <3>1, <2>1 DEF NotIn
  <2> QED
    BY <2>1, <2>2, <1>1
<1>4. k \in places
  BY <1>1
<1>5. SelectInSeq(D, LAMBDA v : v = p) = k
  <2>1. SelectInSeq(D, LAMBDA v : v = p) = Min(places)
    BY <1>4 DEF SelectInSeq
  <2>2. Min(places) = k
    <3> HIDE DEF k, places
    <3> QED
      BY <1>2, <1>3, <1>4, MinIs
  <2> QED
    BY <2>1, <2>2
<1>6. \E i \in 1..Len(D) : D[i] = p
  BY <1>1
<1>7. WithoutPart(D, p) = SubSeq(D, 1, k - 1) \o SubSeq(D, k + 1, Len(D))
  BY <1>5, <1>6 DEF WithoutPart, RemoveFirst, RemoveAt
<1>8. WithoutPart(D, p) = A \o B
  BY <1>1, <1>2, <1>7
<1> QED
  BY <1>8 DEF D

LEMMA PartIsNotThere ==
  ASSUME NEW D \in Seq(Parts), NEW p, NotIn(p, D)
  PROVE  WithoutPart(D, p) = D
BY DEF NotIn, WithoutPart, RemoveFirst

(* F, before another part *)
Without(dom, p, A, q, B) == WithoutPart(dom, p) = A \o (<<q>> \o B)
With(dom, p, A, q, B) == InsertPart(dom, p, q) = (A \o <<p>>) \o (<<q>> \o B)

LEMMA PartIsPut ==
  ASSUME NEW A \in Seq(Parts), NEW B \in Seq(Parts), NEW q \in Parts, NEW p \in Parts,
         NotIn(q, A), NotIn(q, B), q # AtEnd,
         NEW dom, Without(dom, p, A, q, B)
  PROVE  With(dom, p, A, q, B)
<1> DEFINE D == A \o (<<q>> \o B)
           k == Len(A) + 1
<1>1. /\ Len(A) \in Nat /\ Len(B) \in Nat /\ k \in 1..Len(D) /\ D[k] = q
      /\ Len(D) = Len(A) + 1 + Len(B)
      /\ \A i \in 1..Len(A) : D[i] = A[i]
      /\ \A i \in 1..Len(B) : D[k + i] = B[i]
      /\ SubSeq(D, 1, Len(A)) = A /\ SubSeq(D, k, Len(D)) = <<q>> \o B
      /\ D \in Seq(Parts)
  <2>1. Cut(D, A, q, B) /\ D \in Seq(Parts)
    BY InMiddle
  <2> HIDE DEF D
  <2> QED
    BY <2>1 DEF Cut
<1> HIDE DEF D
<1>2. DOMAIN D = 1..Len(D)
  BY <1>1
<1>3. ASSUME NEW i \in DOMAIN D, D[i] = q PROVE i = k
  <2>1. i \in 1..Len(D)
    BY <1>2
  <2>2. i \notin 1..Len(A)
    BY <1>1, <1>3 DEF NotIn
  <2>3. i - k \notin 1..Len(B)
    <3> SUFFICES ASSUME i - k \in 1..Len(B) PROVE FALSE
      OBVIOUS
    <3>1. k + (i - k) = i
      BY <1>1, <2>1
    <3>2. i - k \in DOMAIN B /\ D[k + (i - k)] = B[i - k]
      BY <1>1
    <3> QED
      BY <3>1, <3>2, <1>3 DEF NotIn
  <2> QED
    BY <2>1, <2>2, <2>3, <1>1
<1>4. (CHOOSE i \in DOMAIN D : D[i] = q) = k
  BY <1>1, <1>2, <1>3
<1>5. InsertPart(dom, p, q) = InsertAt(D, k, p)
  BY <1>4 DEF InsertPart, D, Without
<1>6. InsertAt(D, k, p) = SubSeq(D, 1, k - 1) \o <<p>> \o SubSeq(D, k, Len(D))
  BY DEF InsertAt
<1>7. k - 1 = Len(A)
  BY <1>1
<1> QED
  BY <1>1, <1>5, <1>6, <1>7 DEF With

-----------------------------------------------------------------------------
(* The parts in the middle of the page *)

InOrderOf(M, S) ==
  /\ \A i \in DOMAIN M : \E k \in S : M[i] = OldPart(k)
  /\ \A k \in S : \E i \in DOMAIN M : M[i] = OldPart(k)
  /\ \A i, j \in DOMAIN M : i < j => M[i][2] < M[j][2]

LEMMA OldPartIs ==
  ASSUME NEW x \in Nat
  PROVE  OldPart(x) \in Parts /\ OldPart(x)[2] = x /\ OldPart(x) # AtEnd
BY DEF OldPart, Parts, AtEnd

LEMMA OldPartsDiffer ==
  ASSUME NEW x \in Nat, NEW y \in Nat, OldPart(x) = OldPart(y)
  PROVE  x = y
BY OldPartIs

(* A sequence is what is before a place, what is there, what is behind it. *)
HasCut(S, M, j) ==
  \E A, B \in Seq(S) :
    M = A \o (<<M[j]>> \o B) /\ Len(A) = j - 1 /\ Len(M) = Len(A) + 1 + Len(B)

LEMMA CutAt ==
  ASSUME NEW S, NEW M \in Seq(S), NEW j \in 1..Len(M)
  PROVE  HasCut(S, M, j)
<1> DEFINE A == SubSeq(M, 1, j - 1)
           B == SubSeq(M, j + 1, Len(M))
           n == Len(M)
           p == M[j]
<1>1. n \in Nat /\ j \in Int /\ 1 <= j /\ j <= n /\ M \in [1..n -> S]
  BY LenProperties
<1>2. A \in Seq(S) /\ Len(A) = j - 1 /\ \A i \in 1..(j - 1) : A[i] = M[i]
  <2>1. 1 \in Int /\ j - 1 \in Int /\ \A i \in 1..(j - 1) : M[i] \in S
    BY <1>1
  <2>2. /\ A \in Seq(S) /\ Len(A) = IF 1 <= j - 1 THEN (j - 1) - 1 + 1 ELSE 0
        /\ \A i \in 1..((j - 1) - 1 + 1) : A[i] = M[1 + i - 1]
    BY <2>1, SubSeqProperties
  <2> HIDE DEF A
  <2>3. Len(A) = j - 1
    BY <2>2, <1>1
  <2>4. ASSUME NEW i \in 1..(j - 1) PROVE A[i] = M[i]
    <3>1. i \in 1..((j - 1) - 1 + 1) /\ 1 + i - 1 = i
      BY <1>1
    <3> QED
      BY <3>1, <2>2
  <2> QED
    BY <2>2, <2>3, <2>4
<1>3. B \in Seq(S) /\ Len(B) = n - j /\ \A i \in 1..(n - j) : B[i] = M[j + i]
  <2>1. j + 1 \in Int /\ n \in Int /\ \A i \in (j + 1)..n : M[i] \in S
    BY <1>1
  <2>2. /\ B \in Seq(S) /\ Len(B) = IF j + 1 <= n THEN n - (j + 1) + 1 ELSE 0
        /\ \A i \in 1..(n - (j + 1) + 1) : B[i] = M[(j + 1) + i - 1]
    BY <2>1, SubSeqProperties
  <2> HIDE DEF B
  <2>3. Len(B) = n - j
    <3> HIDE DEF n
    <3> QED
      BY <2>2, <1>1
  <2>4. ASSUME NEW i \in 1..(n - j) PROVE B[i] = M[j + i]
    <3>1. i \in 1..(n - (j + 1) + 1) /\ (j + 1) + i - 1 = j + i
      BY <1>1
    <3> QED
      BY <3>1, <2>2
  <2> QED
    BY <2>2, <2>3, <2>4
<1> HIDE DEF A, B
<1>4. p \in S
  BY <1>1
<1> DEFINE D == A \o (<<p>> \o B)
<1>5. /\ D \in Seq(S) /\ Len(D) = Len(A) + 1 + Len(B) /\ D[Len(A) + 1] = p
      /\ \A i \in 1..Len(A) : D[i] = A[i]
      /\ \A i \in 1..Len(B) : D[(Len(A) + 1) + i] = B[i]
  <2>1. Cut(D, A, p, B) /\ D \in Seq(S)
    BY <1>2, <1>3, <1>4, InMiddle
  <2> HIDE DEF D
  <2> QED
    BY <2>1 DEF Cut
<1> HIDE DEF D
<1>6. Len(D) = Len(M)
  BY <1>1, <1>2, <1>3, <1>5
<1>7. ASSUME NEW i \in 1..Len(M) PROVE D[i] = M[i]
  <2>1. CASE i < j
    <3>1. i \in 1..Len(A) /\ i \in 1..(j - 1)
      BY <2>1, <1>1, <1>2
    <3> QED
      BY <3>1, <1>2, <1>5
  <2>2. CASE i = j
    BY <2>2, <1>1, <1>2, <1>5
  <2>3. CASE i > j
    <3>1. i - j \in 1..Len(B) /\ i - j \in 1..(n - j) /\ (Len(A) + 1) + (i - j) = i /\ j + (i - j) = i
      BY <2>3, <1>1, <1>2, <1>3
    <3> QED
      BY <3>1, <1>3, <1>5
  <2> QED
    BY <2>1, <2>2, <2>3, <1>1
<1>8. D = M
  BY <1>5, <1>6, <1>7, SeqEqual
<1>9. Len(M) = Len(A) + 1 + Len(B)
  BY <1>5, <1>6
<1>10. M = A \o (<<M[j]>> \o B)
  BY <1>8 DEF D
<1> QED
  BY <1>2, <1>3, <1>9, <1>10 DEF HasCut

(* The parts are in order without one of them, which is the first or the   *)
(* last one if its place is.                                               *)
LEMMA OneGoes ==
  ASSUME NEW S \in SUBSET Nat, NEW M \in Seq(Parts), InOrderOf(M, S), NEW x \in S
  PROVE  \E A, B \in Seq(Parts) :
           /\ M = A \o (<<OldPart(x)>> \o B)
           /\ A \o B \in Seq(Parts)
           /\ InOrderOf(A \o B, S \ {x})
           /\ NotIn(OldPart(x), A)
           /\ (\A k \in S : x <= k) => A = <<>>
           /\ (\A k \in S : k <= x) => B = <<>>
<1> DEFINE n == Len(M)
<1>1. DOMAIN M = 1..n /\ n \in Nat
  OBVIOUS
<1>2. PICK j \in 1..n : M[j] = OldPart(x)
  BY <1>1 DEF InOrderOf
<1>3. PICK A, B \in Seq(Parts) :
        M = A \o (<<M[j]>> \o B) /\ Len(A) = j - 1 /\ n = Len(A) + 1 + Len(B)
  <2>1. HasCut(Parts, M, j)
    BY CutAt
  <2> QED
    BY <2>1 DEF HasCut
<1> DEFINE p == OldPart(x)
           N == A \o B
           a == Len(A)
           b == Len(B)
<1>4. x \in Nat /\ p \in Parts /\ p[2] = x /\ \A k \in S : OldPart(k)[2] = k /\ k \in Nat
  BY OldPartIs
<1>5. M = A \o (<<p>> \o B)
  BY <1>2, <1>3
<1>6. /\ a \in Nat /\ b \in Nat /\ n = a + 1 + b /\ M[a + 1] = p
      /\ \A i \in 1..a : M[i] = A[i]
      /\ \A i \in 1..b : M[(a + 1) + i] = B[i]
  <2>1. a \in Nat /\ b \in Nat
    OBVIOUS
  <2>2. M[a + 1] = p
    BY <1>2, <1>3, <1>1
  <2>3. Cut(M, A, p, B)
    BY <1>4, <1>5, InMiddle
  <2> QED
    BY <2>1, <2>2, <2>3, <1>3 DEF Cut
<1>7. /\ N \in Seq(Parts) /\ Len(N) = a + b
      /\ \A i \in 1..(a + b) : N[i] = IF i <= a THEN A[i] ELSE B[i - a]
  BY ConcatProperties
<1> HIDE DEF N, p
<1> DEFINE from(i) == IF i <= a THEN i ELSE i + 1
<1>8. ASSUME NEW i \in 1..(a + b)
      PROVE  from(i) \in 1..n /\ from(i) # a + 1 /\ N[i] = M[from(i)]
  <2>1. CASE i <= a
    <3>1. i \in 1..a
      BY <2>1, <1>6
    <3> QED
      BY <2>1, <3>1, <1>6, <1>7
  <2>2. CASE ~ (i <= a)
    <3>1. i - a \in 1..b /\ (a + 1) + (i - a) = i + 1 /\ i + 1 \in 1..n /\ i + 1 # a + 1
      BY <2>2, <1>6
    <3>2. M[i + 1] = B[i - a]
      <4>1. M[(a + 1) + (i - a)] = B[i - a]
        BY <3>1, <1>6
      <4> QED
        BY <4>1, <3>1
    <3> QED
      BY <2>2, <3>1, <3>2, <1>7
  <2> QED
    BY <2>1, <2>2
<1>9. ASSUME NEW i \in 1..n, i # a + 1
      PROVE  \E h \in 1..(a + b) : from(h) = i
  <2>1. CASE i <= a
    <3>1. i \in 1..(a + b)
      BY <2>1, <1>6
    <3> QED
      BY <2>1, <3>1
  <2>2. CASE ~ (i <= a)
    <3>1. i - 1 \in 1..(a + b) /\ ~ (i - 1 <= a) /\ (i - 1) + 1 = i
      BY <2>2, <1>6, <1>9
    <3> QED
      BY <3>1
  <2> QED
    BY <2>1, <2>2
<1>10. ASSUME NEW i \in 1..(a + b), NEW h \in 1..(a + b), i < h
       PROVE  from(i) < from(h)
  BY <1>6, <1>10
<1> HIDE DEF from
<1>11. DOMAIN N = 1..(a + b)
  BY <1>7
<1>12. ASSUME NEW i \in 1..n, i # a + 1 PROVE \E k \in S \ {x} : M[i] = OldPart(k)
  <2>1. PICK k \in S : M[i] = OldPart(k)
    BY <1>1 DEF InOrderOf
  <2>2. M[i][2] = k /\ M[a + 1][2] = x
    BY <2>1, <1>4, <1>6
  <2>3. k # x
    <3>1. a + 1 \in 1..n
      BY <1>6
    <3>2. i < a + 1 \/ a + 1 < i
      <4>1. i \in Nat /\ a + 1 \in Nat
        BY <1>6, <1>1
      <4> QED
        BY <4>1, <1>12
    <3>3. M[i][2] < M[a + 1][2] \/ M[a + 1][2] < M[i][2]
      BY <3>1, <3>2, <1>1 DEF InOrderOf
    <3>4. k < x \/ x < k
      BY <3>3, <2>2
    <3>5. k \in Nat /\ x \in Nat
      BY <1>4
    <3> QED
      BY <3>4, <3>5
  <2> QED
    BY <2>1, <2>3
<1>13. InOrderOf(N, S \ {x})
  <2>1. ASSUME NEW i \in DOMAIN N PROVE \E k \in S \ {x} : N[i] = OldPart(k)
    <3>1. from(i) \in 1..n /\ from(i) # a + 1 /\ N[i] = M[from(i)]
      BY <1>8, <1>11
    <3> QED
      BY <3>1, <1>12
  <2>2. ASSUME NEW k \in S \ {x} PROVE \E i \in DOMAIN N : N[i] = OldPart(k)
    <3>1. PICK i \in 1..n : M[i] = OldPart(k)
      BY <1>1 DEF InOrderOf
    <3>2. i # a + 1
      <4> SUFFICES ASSUME i = a + 1 PROVE FALSE
        OBVIOUS
      <4>1. OldPart(k)[2] = x
        BY <3>1, <1>6, <1>4
      <4> QED
        BY <4>1, <1>4
    <3>3. PICK h \in 1..(a + b) : from(h) = i
      BY <3>2, <1>9
    <3>4. N[h] = M[i]
      BY <3>3, <1>8
    <3> QED
      BY <3>4, <3>1, <1>11
  <2>3. ASSUME NEW i \in DOMAIN N, NEW h \in DOMAIN N, i < h PROVE N[i][2] < N[h][2]
    <3>1. from(i) < from(h) /\ from(i) \in 1..n /\ from(h) \in 1..n
      BY <2>3, <1>8, <1>10, <1>11
    <3>2. M[from(i)][2] < M[from(h)][2]
      BY <3>1, <1>1 DEF InOrderOf
    <3> QED
      BY <3>2, <1>8, <1>11
  <2> QED
    BY <2>1, <2>2, <2>3 DEF InOrderOf
<1>14. NotIn(p, A)
  <2> SUFFICES ASSUME NEW i \in DOMAIN A, A[i] = p PROVE FALSE
    BY DEF NotIn
  <2>1. i \in 1..a /\ i \in 1..n /\ i # a + 1
    BY <1>6
  <2>2. M[i] = p
    BY <2>1, <1>6
  <2>3. PICK k \in S \ {x} : M[i] = OldPart(k)
    BY <2>1, <1>12
  <2>4. OldPart(k)[2] = x
    BY <2>2, <2>3, <1>4
  <2> QED
    BY <2>4, <1>4
<1>15. ASSUME \A k \in S : x <= k PROVE A = <<>>
  <2>1. a = 0
    <3> SUFFICES ASSUME a > 0 PROVE FALSE
      BY <1>6
    <3>1. 1 \in 1..n /\ a + 1 \in 1..n /\ 1 < a + 1 /\ 1 # a + 1
      BY <1>6
    <3>2. PICK k \in S : M[1] = OldPart(k)
      BY <3>1, <1>1 DEF InOrderOf
    <3>3. M[1][2] < M[a + 1][2]
      BY <3>1, <1>1 DEF InOrderOf
    <3>4. k < x
      BY <3>2, <3>3, <1>4, <1>6
    <3> QED
      BY <3>4, <1>15, <1>4
  <2> QED
    BY <2>1, EmptySeq
<1>16. ASSUME \A k \in S : k <= x PROVE B = <<>>
  <2>1. b = 0
    <3> SUFFICES ASSUME b > 0 PROVE FALSE
      BY <1>6
    <3>1. n \in 1..n /\ a + 1 \in 1..n /\ a + 1 < n
      BY <1>6
    <3>2. PICK k \in S : M[n] = OldPart(k)
      BY <3>1, <1>1 DEF InOrderOf
    <3>3. M[a + 1][2] < M[n][2]
      BY <3>1, <1>1 DEF InOrderOf
    <3>4. x < k
      BY <3>2, <3>3, <1>4, <1>6
    <3> QED
      BY <3>4, <1>16, <1>4
  <2> QED
    BY <2>1, EmptySeq
<1>17. /\ M = A \o (<<OldPart(x)>> \o B)
       /\ A \o B \in Seq(Parts)
       /\ InOrderOf(A \o B, S \ {x})
       /\ NotIn(OldPart(x), A)
  BY <1>5, <1>7, <1>13, <1>14 DEF p, N
<1> QED
  BY <1>15, <1>16, <1>17

Associates(X, Y, Z) == (X \o Y) \o Z = X \o (Y \o Z)

LEMMA Regroup ==
  ASSUME NEW X \in Seq(Parts), NEW Y \in Seq(Parts), NEW Z \in Seq(Parts)
  PROVE  Associates(X, Y, Z)
BY ConcatAssociative DEF Associates

LEMMA NotInBoth ==
  ASSUME NEW S, NEW A \in Seq(S), NEW B \in Seq(S), NEW p, NotIn(p, A), NotIn(p, B)
  PROVE  NotIn(p, A \o B)
<1> DEFINE D == A \o B
<1>1. /\ D \in Seq(S) /\ Len(D) = Len(A) + Len(B) /\ Len(A) \in Nat /\ Len(B) \in Nat
      /\ \A i \in 1..(Len(A) + Len(B)) : D[i] = IF i <= Len(A) THEN A[i] ELSE B[i - Len(A)]
  BY ConcatProperties
<1> HIDE DEF D
<1>2. SUFFICES ASSUME NEW i \in DOMAIN D, D[i] = p PROVE FALSE
  BY DEF NotIn, D
<1>3. i \in 1..(Len(A) + Len(B))
  BY <1>1
<1>4. CASE i <= Len(A)
  <2>1. i \in DOMAIN A /\ D[i] = A[i]
    BY <1>1, <1>3, <1>4
  <2> QED
    BY <2>1, <1>2 DEF NotIn
<1>5. CASE ~ (i <= Len(A))
  <2>1. i - Len(A) \in DOMAIN B /\ D[i] = B[i - Len(A)]
    BY <1>1, <1>3, <1>5
  <2> QED
    BY <2>1, <1>2 DEF NotIn
<1> QED
  BY <1>4, <1>5

(* The page: the parts found for the first places, the ones still to be    *)
(* had in their order, and the parts found for the last places.            *)
PageOf(F, N, G) == (F \o N) \o G

LEMMA PageIs ==
  ASSUME NEW F \in Seq(Parts), NEW N \in Seq(Parts), NEW G \in Seq(Parts)
  PROVE  /\ PageOf(F, N, G) \in Seq(Parts)
         /\ PageOf(F, N, G) = F \o (N \o G)
         /\ F \o N \in Seq(Parts) /\ N \o G \in Seq(Parts)
BY ConcatProperties, Regroup DEF PageOf, Associates

(* A part that is to be had is taken out of the page.                      *)
Removes(S, x, F, M, G) ==
  \E N \in Seq(Parts) :
    /\ InOrderOf(N, S \ {x})
    /\ WithoutPart(PageOf(F, M, G), OldPart(x)) = PageOf(F, N, G)
    /\ (\A k \in S : x <= k) => M = <<OldPart(x)>> \o N
    /\ (\A k \in S : k <= x) => M = N \o <<OldPart(x)>>

LEMMA Removed ==
  ASSUME NEW S \in SUBSET Nat, NEW x \in S,
         NEW F \in Seq(Parts), NEW M \in Seq(Parts), NEW G \in Seq(Parts),
         InOrderOf(M, S), NotIn(OldPart(x), F)
  PROVE  Removes(S, x, F, M, G)
<1> DEFINE p == OldPart(x)
<1>1. PICK A, B \in Seq(Parts) :
        /\ M = A \o (<<p>> \o B)
        /\ A \o B \in Seq(Parts)
        /\ InOrderOf(A \o B, S \ {x})
        /\ NotIn(p, A)
        /\ (\A k \in S : x <= k) => A = <<>>
        /\ (\A k \in S : k <= x) => B = <<>>
  BY OneGoes
<1>2. p \in Parts /\ <<p>> \in Seq(Parts)
  BY OldPartIs
<1> HIDE DEF p
<1> DEFINE C == <<p>> \o B
           H == F \o A
           R == B \o G
<1>3. C \in Seq(Parts)
  BY <1>2, ConcatProperties
<1>11. H \in Seq(Parts)
  BY ConcatProperties
<1>12. R \in Seq(Parts)
  BY ConcatProperties
<1>4. NotIn(p, H)
  BY <1>1, NotInBoth DEF p
<1>5. PageOf(F, M, G) = H \o (<<p>> \o R)
  <2>1. Associates(<<p>>, B, G)
    BY <1>2, Regroup
  <2>2. C \o G = <<p>> \o R
    BY <2>1 DEF Associates
  <2> HIDE DEF C, R
  <2>3. Associates(F, A, C)
    BY <1>3, Regroup
  <2>4. H \o C = F \o (A \o C)
    BY <2>3 DEF Associates
  <2> HIDE DEF H
  <2>5. Associates(H, C, G)
    BY <1>3, <1>11, Regroup
  <2>6. M = A \o C
    BY <1>1 DEF C
  <2> QED
    BY <2>2, <2>4, <2>5, <2>6 DEF PageOf, Associates
<1>6. WithoutPart(PageOf(F, M, G), p) = H \o R
  <2> HIDE DEF H, R
  <2>1. p \in Parts
    BY <1>2
  <2>2. WithoutPart(H \o (<<p>> \o R), p) = H \o R
    BY <2>1, <1>4, <1>11, <1>12, PartGoes
  <2> QED
    BY <2>2, <1>5, Zenon
<1>7. H \o R = PageOf(F, A \o B, G)
  <2>1. Associates(H, B, G)
    <3> HIDE DEF H
    <3> QED
      BY <1>11, Regroup
  <2>2. Associates(F, A, B)
    BY Regroup
  <2> QED
    BY <2>1, <2>2 DEF PageOf, Associates
<1>8. ASSUME \A k \in S : x <= k PROVE M = <<p>> \o (A \o B)
  <2>1. A = <<>>
    BY <1>1, <1>8
  <2>2. <<>> \o C = C /\ <<>> \o B = B
    BY <1>3, ConcatEmptySeq
  <2> QED
    BY <2>1, <2>2, <1>1
<1>9. ASSUME \A k \in S : k <= x PROVE M = (A \o B) \o <<p>>
  <2>1. B = <<>>
    BY <1>1, <1>9
  <2>2. A \o <<>> = A /\ <<p>> \o <<>> = <<p>>
    BY <1>2, ConcatEmptySeq
  <2> QED
    BY <2>1, <2>2, <1>1
<1>10. /\ InOrderOf(A \o B, S \ {x})
       /\ WithoutPart(PageOf(F, M, G), p) = PageOf(F, A \o B, G)
       /\ (\A k \in S : x <= k) => M = <<p>> \o (A \o B)
       /\ (\A k \in S : k <= x) => M = (A \o B) \o <<p>>
  BY <1>1, <1>6, <1>7, <1>8, <1>9
<1> QED
  BY <1>1, <1>10 DEF p, Removes

(* A part is put before the first one that is to be had.                   *)
IsPutBefore(dom, p, h, F, N, G) ==
  InsertPart(dom, p, OldPart(h)) = PageOf(Append(F, p), N, G)

LEMMA PutBefore ==
  ASSUME NEW S \in SUBSET Nat, NEW h \in S, \A k \in S : h <= k,
         NEW F \in Seq(Parts), NEW N \in Seq(Parts), NEW G \in Seq(Parts),
         InOrderOf(N, S), NotIn(OldPart(h), F), NotIn(OldPart(h), G),
         NEW dom, NEW p \in Parts, WithoutPart(dom, p) = PageOf(F, N, G)
  PROVE  IsPutBefore(dom, p, h, F, N, G)
<1> DEFINE q == OldPart(h)
<1>1. PICK A, B \in Seq(Parts) :
        /\ N = A \o (<<q>> \o B)
        /\ A \o B \in Seq(Parts)
        /\ InOrderOf(A \o B, S \ {h})
        /\ A = <<>>
  <2>1. PICK A, B \in Seq(Parts) :
          /\ N = A \o (<<OldPart(h)>> \o B)
          /\ A \o B \in Seq(Parts)
          /\ InOrderOf(A \o B, S \ {h})
          /\ NotIn(OldPart(h), A)
          /\ (\A k \in S : h <= k) => A = <<>>
          /\ (\A k \in S : k <= h) => B = <<>>
    BY OneGoes
  <2> QED
    BY <2>1
<1>2. q \in Parts /\ <<q>> \in Seq(Parts) /\ <<p>> \in Seq(Parts) /\ q # AtEnd
  BY OldPartIs
<1>3. NotIn(q, B)
  <2> SUFFICES ASSUME NEW i \in DOMAIN B, B[i] = q PROVE FALSE
    BY DEF NotIn
  <2>1. <<>> \o B = B
    BY ConcatEmptySeq
  <2>2. InOrderOf(B, S \ {h})
    BY <1>1, <2>1
  <2>3. PICK k \in S \ {h} : B[i] = OldPart(k)
    BY <2>2 DEF InOrderOf
  <2> QED
    BY <2>3, OldPartsDiffer
<1> HIDE DEF q
<1>4. N = <<q>> \o B /\ <<q>> \o B \in Seq(Parts) /\ B \o G \in Seq(Parts)
  <2>1. <<q>> \o B \in Seq(Parts) /\ B \o G \in Seq(Parts)
    BY <1>2, ConcatProperties
  <2>2. <<>> \o (<<q>> \o B) = <<q>> \o B
    BY <2>1, ConcatEmptySeq
  <2> QED
    BY <2>1, <2>2, <1>1
<1>5. NotIn(q, B \o G) /\ NotIn(q, F)
  BY <1>3, NotInBoth DEF q
<1>6. \A X \in Seq(Parts) : (X \o N) \o G = X \o (<<q>> \o (B \o G))
  <2> TAKE X \in Seq(Parts)
  <2>1. Associates(X, N, G)
    BY Regroup
  <2>2. Associates(<<q>>, B, G)
    BY <1>2, Regroup
  <2> QED
    BY <2>1, <2>2, <1>4 DEF Associates
<1>7. WithoutPart(dom, p) = F \o (<<q>> \o (B \o G))
  BY <1>6 DEF PageOf
<1> DEFINE R == B \o G
<1>8. InsertPart(dom, p, q) = (F \o <<p>>) \o (<<q>> \o R)
  <2> HIDE DEF R
  <2>1. R \in Seq(Parts) /\ NotIn(q, R)
    BY <1>4, <1>5 DEF R
  <2>2. Without(dom, p, F, q, R)
    BY <1>7 DEF R, Without
  <2>3. q \in Parts /\ q # AtEnd
    BY <1>2
  <2>4. NotIn(q, F)
    BY <1>5
  <2>5. With(dom, p, F, q, R)
    BY <2>1, <2>2, <2>3, <2>4, PartIsPut
  <2> QED
    BY <2>5 DEF With
<1>9. F \o <<p>> \in Seq(Parts) /\ F \o <<p>> = Append(F, p)
  BY <1>2, ConcatProperties
<1>10. InsertPart(dom, p, q) = PageOf(Append(F, p), N, G)
  BY <1>6, <1>8, <1>9 DEF PageOf
<1> QED
  BY <1>10 DEF q, IsPutBefore

(* A part is put before the ones of the last places.                       *)
LEMMA PutBehind ==
  ASSUME NEW F \in Seq(Parts), NEW N \in Seq(Parts), NEW G \in Seq(Parts),
         G # <<>> => /\ NotIn(Head(G), F) /\ NotIn(Head(G), N) /\ NotIn(Head(G), Tail(G))
                     /\ Head(G) # AtEnd,
         NEW dom, NEW p \in Parts, WithoutPart(dom, p) = PageOf(F, N, G)
  PROVE  InsertPart(dom, p, IF G = <<>> THEN AtEnd ELSE Head(G))
           = PageOf(F, N, <<p>> \o G)
<1>1. F \o N \in Seq(Parts) /\ <<p>> \in Seq(Parts)
  BY ConcatProperties
<1>2. (F \o N) \o (<<p>> \o G) = ((F \o N) \o <<p>>) \o G
  <2>1. Associates(F \o N, <<p>>, G)
    BY <1>1, Regroup
  <2> QED
    BY <2>1 DEF Associates
<1>3. CASE G = <<>>
  <2>1. (F \o N) \o <<>> = F \o N
    BY <1>1, ConcatEmptySeq
  <2>2. Append(F \o N, p) = (F \o N) \o <<p>>
    BY <1>1
  <2>3. (F \o N) \o <<p>> \in Seq(Parts)
    BY <1>1, ConcatProperties
  <2>4. ((F \o N) \o <<p>>) \o <<>> = (F \o N) \o <<p>>
    BY <2>3, ConcatEmptySeq
  <2>5. InsertPart(dom, p, AtEnd) = Append(WithoutPart(dom, p), p)
    BY DEF InsertPart
  <2> QED
    BY <1>2, <1>3, <2>1, <2>2, <2>4, <2>5 DEF PageOf
<1>4. CASE G # <<>>
  <2> DEFINE q == Head(G)
             T == Tail(G)
  <2>1. q \in Parts /\ T \in Seq(Parts) /\ G = <<q>> \o T
    BY <1>4
  <2> DEFINE H == F \o N
  <2>2. NotIn(q, H) /\ NotIn(q, T) /\ q # AtEnd
    BY <1>4, NotInBoth
  <2> HIDE DEF q, T
  <2>3. Without(dom, p, H, q, T)
    BY <2>1 DEF PageOf, Without
  <2>4. InsertPart(dom, p, q) = (H \o <<p>>) \o (<<q>> \o T)
    <3>1. H \in Seq(Parts)
      BY <1>1
    <3> HIDE DEF H
    <3>2. With(dom, p, H, q, T)
      BY <3>1, <2>1, <2>2, <2>3, PartIsPut
    <3> QED
      BY <3>2 DEF With
  <2> QED
    BY <1>2, <1>4, <2>1, <2>4 DEF PageOf, q
<1> QED
  BY <1>3, <1>4

-----------------------------------------------------------------------------
(* What the parts of the new list are *)

IsList(keys) == Len(keys) \in Nat /\ DOMAIN keys = 1..Len(keys) /\ NoDuplicates(keys)

LEMMA KeyedPart ==
  ASSUME NEW old, NEW new, IsList(old), IsList(new), NEW y \in 1..Len(new)
  PROVE  /\ \A x \in 1..Len(old) : old[x] = new[y] => KeyedParts(old, new)[y] = OldPart(x)
         /\ (\A x \in 1..Len(old) : old[x] # new[y]) => KeyedParts(old, new)[y] = NewPart(y)
<1> DEFINE part == KeyedParts(old, new)[y]
<1>1. DOMAIN old = 1..Len(old) /\ DOMAIN new = 1..Len(new) /\ NoDuplicates(old)
  BY DEF IsList
<1>2. part = IF \E x \in 1..Len(old) : old[x] = new[y]
             THEN OldPart(CHOOSE x \in 1..Len(old) : old[x] = new[y]) ELSE NewPart(y)
  BY <1>1 DEF KeyedParts
<1> HIDE DEF part
<1>3. ASSUME NEW x \in 1..Len(old), old[x] = new[y] PROVE part = OldPart(x)
  <2> DEFINE c == CHOOSE z \in 1..Len(old) : old[z] = new[y]
  <2>1. c \in 1..Len(old) /\ old[c] = new[y]
    BY <1>3
  <2>2. part = OldPart(c)
    BY <1>2, <1>3
  <2> HIDE DEF c
  <2>3. c = x
    BY <2>1, <1>1, <1>3 DEF NoDuplicates
  <2> QED
    BY <2>2, <2>3
<1>4. ASSUME \A x \in 1..Len(old) : old[x] # new[y] PROVE part = NewPart(y)
  BY <1>2, <1>4
<1> QED
  BY <1>3, <1>4 DEF part

LEMMA KeyedPartIs ==
  ASSUME NEW old, NEW new, IsList(old), IsList(new), NEW y \in 1..Len(new)
  PROVE  /\ KeyedParts(old, new)[y] \in Parts /\ KeyedParts(old, new)[y] # AtEnd
         /\ \A x \in 1..Len(old) : KeyedParts(old, new)[y] = OldPart(x) => old[x] = new[y]
         /\ \A z \in 1..Len(new) : KeyedParts(old, new)[y] = KeyedParts(old, new)[z] => y = z
         /\ \A z \in 1..Len(new) : KeyedParts(old, new)[y] = NewPart(z) => y = z
<1> DEFINE K == KeyedParts(old, new)
<1>1. \A v \in 1..Len(new), x \in 1..Len(old) : old[x] = new[v] => K[v] = OldPart(x)
  BY KeyedPart
<1>2. \A v \in 1..Len(new) : (\A x \in 1..Len(old) : old[x] # new[v]) => K[v] = NewPart(v)
  BY KeyedPart
<1> HIDE DEF K
<1>3. /\ Len(old) \in Nat /\ Len(new) \in Nat
      /\ \A v, z \in 1..Len(new) : new[v] = new[z] => v = z
  BY DEF IsList, NoDuplicates
<1>4. \A x, z \in Nat : /\ OldPart(x) \in Parts /\ NewPart(x) \in Parts
                        /\ OldPart(x) # AtEnd /\ NewPart(x) # AtEnd
                        /\ OldPart(x) # NewPart(z)
                        /\ OldPart(x) = OldPart(z) => x = z
                        /\ NewPart(x) = NewPart(z) => x = z
  BY DEF OldPart, NewPart, Parts, AtEnd
<1> USE <1>3
<1>5. ASSUME NEW v \in 1..Len(new)
      PROVE  \/ \E x \in 1..Len(old) : old[x] = new[v] /\ K[v] = OldPart(x) /\ x \in Nat
             \/ K[v] = NewPart(v) /\ v \in Nat
  <2>1. CASE \E x \in 1..Len(old) : old[x] = new[v]
    <3>1. PICK x \in 1..Len(old) : old[x] = new[v]
      BY <2>1
    <3>2. K[v] = OldPart(x) /\ x \in Nat
      BY <3>1, <1>1
    <3> QED
      BY <3>1, <3>2
  <2>2. CASE \A x \in 1..Len(old) : old[x] # new[v]
    BY <2>2, <1>2
  <2> QED
    BY <2>1, <2>2
<1>6. K[y] \in Parts /\ K[y] # AtEnd
  BY <1>5, <1>4
<1>7. ASSUME NEW x \in 1..Len(old), K[y] = OldPart(x) PROVE old[x] = new[y]
  <2>1. x \in Nat
    OBVIOUS
  <2> QED
    BY <2>1, <1>4, <1>5, <1>7
<1>8. ASSUME NEW z \in 1..Len(new), K[y] = K[z] PROVE y = z
  <2>1. CASE \E x \in 1..Len(old) : old[x] = new[y] /\ K[y] = OldPart(x) /\ x \in Nat
    <3>1. PICK x \in 1..Len(old) : old[x] = new[y] /\ K[y] = OldPart(x) /\ x \in Nat
      BY <2>1
    <3>4. z \in Nat
      OBVIOUS
    <3>5. K[z] # NewPart(z)
      BY <3>1, <3>4, <1>4, <1>8
    <3>2. PICK w \in 1..Len(old) : old[w] = new[z] /\ K[z] = OldPart(w) /\ w \in Nat
      BY <3>5, <1>5
    <3>3. x = w
      BY <3>1, <3>2, <1>4, <1>8
    <3> QED
      BY <3>1, <3>2, <3>3
  <2>2. CASE K[y] = NewPart(y) /\ y \in Nat
    BY <2>2, <1>4, <1>5, <1>8
  <2> QED
    BY <2>1, <2>2, <1>5
<1>9. ASSUME NEW z \in 1..Len(new), K[y] = NewPart(z) PROVE y = z
  <2>1. z \in Nat
    OBVIOUS
  <2> QED
    BY <2>1, <1>4, <1>5, <1>9
<1> QED
  BY <1>6, <1>7, <1>8, <1>9 DEF K

-----------------------------------------------------------------------------
(* The walk *)

(* The old places that are still to be had, the new ones still to be filled *)
LeftOf(s) == {x \in s.oldHead..s.oldTail : x \notin s.taken}
Room(s) == s.newHead..s.newTail

OldPlaces(s, old) ==
  s.oldHead \in 1..(Len(old) + 1) /\ s.oldTail \in 0..Len(old) /\ s.oldHead <= s.oldTail + 1
NewPlaces(s, new) ==
  s.newHead \in 1..(Len(new) + 1) /\ s.newTail \in 0..Len(new) /\ s.newHead <= s.newTail + 1
Places(s, old, new) == OldPlaces(s, old) /\ NewPlaces(s, new)

(* The parts found are the ones the list is to have there. *)
Found(s, old, new) ==
  /\ Len(s.front) = s.newHead - 1
  /\ \A y \in 1..(s.newHead - 1) : s.front[y] = KeyedParts(old, new)[y]
  /\ Len(s.back) = Len(new) - s.newTail
  /\ \A y \in (s.newTail + 1)..Len(new) : s.back[y - s.newTail] = KeyedParts(old, new)[y]

(* An old key that comes again is to be had as long as its new place is to *)
(* be filled.                                                              *)
Matches(s, old, new) ==
  \A x \in 1..Len(old), y \in 1..Len(new) :
    old[x] = new[y] => (x \in LeftOf(s) <=> y \in Room(s))

Maps(s, old, new) ==
  /\ s.oldMap \subseteq 1..Len(old) /\ s.newMap \subseteq 1..Len(new)
  /\ s.newMap # {} => s.oldHead..s.oldTail \subseteq s.oldMap /\ Room(s) \subseteq s.newMap

(* On the page are the parts found and, between them, those to be had. *)
Page(s) ==
  \E M \in Seq(Parts) : s.dom = PageOf(s.front, M, s.back) /\ InOrderOf(M, LeftOf(s))

WalkInv(s, old, new) ==
  /\ s \in WalkStates
  /\ Places(s, old, new)
  /\ Found(s, old, new)
  /\ Matches(s, old, new)
  /\ Maps(s, old, new)
  /\ Page(s)

(* The places that are left to walk over *)
OldRem(s) == (s.oldTail - s.oldHead) + 1
NewRem(s) == (s.newTail - s.newHead) + 1
Rem(s) == OldRem(s) + NewRem(s)

Goes(s, t, old, new) == WalkInv(t, old, new) /\ Rem(t) < Rem(s)

LEMMA StatesAre ==
  ASSUME NEW s \in WalkStates
  PROVE  /\ s.oldHead \in Nat /\ s.oldTail \in Nat /\ s.newHead \in Nat /\ s.newTail \in Nat
         /\ s.front \in Seq(Parts) /\ s.back \in Seq(Parts) /\ s.dom \in Seq(Parts)
         /\ s.taken \in SUBSET Nat /\ s.oldMap \in SUBSET Nat /\ s.newMap \in SUBSET Nat
         /\ LeftOf(s) \in SUBSET Nat
BY DEF WalkStates, LeftOf

LEMMA FrontGrows ==
  ASSUME NEW old, NEW new, IsList(old), IsList(new),
         NEW s \in WalkStates, NEW t, Places(s, old, new), Found(s, old, new),
         s.newHead <= s.newTail,
         t.newHead = s.newHead + 1, t.newTail = s.newTail, t.back = s.back,
         t.front = Append(s.front, KeyedParts(old, new)[s.newHead])
  PROVE  Found(t, old, new)
<1> DEFINE K == KeyedParts(old, new)
           p == K[s.newHead]
           n == Len(new)
<1>1. s.newHead \in 1..n /\ s.newHead \in Nat /\ n \in Nat
  BY DEF Places, OldPlaces, NewPlaces, IsList
<1>2. s.front \in Seq(Parts)
  BY StatesAre
<1>3. p \in Parts
  BY <1>1, KeyedPartIs
<1> HIDE DEF K, n
<1>4. /\ Len(s.front) = s.newHead - 1
      /\ \A y \in 1..(s.newHead - 1) : s.front[y] = K[y]
      /\ Len(s.back) = n - s.newTail
      /\ \A y \in (s.newTail + 1)..n : s.back[y - s.newTail] = K[y]
  BY DEF Found, K, n
<1> HIDE DEF p
<1>5. /\ Len(Append(s.front, p)) = Len(s.front) + 1
      /\ \A y \in 1..Len(s.front) : Append(s.front, p)[y] = s.front[y]
      /\ Append(s.front, p)[Len(s.front) + 1] = p
  BY <1>2, <1>3, AppendProperties
<1>6. t.front = Append(s.front, p)
  BY DEF p, K
<1> HIDE DEF p
<1>7. Len(t.front) = t.newHead - 1
  BY <1>1, <1>4, <1>5, <1>6
<1>8. ASSUME NEW y \in 1..(t.newHead - 1) PROVE t.front[y] = K[y]
  <2>1. y \in 1..Len(s.front) \/ y = Len(s.front) + 1
    BY <1>1, <1>4
  <2>2. CASE y \in 1..Len(s.front)
    BY <2>2, <1>4, <1>5, <1>6
  <2>3. CASE y = Len(s.front) + 1
    <3>1. y = s.newHead
      BY <2>3, <1>1, <1>4
    <3> QED
      BY <3>1, <2>3, <1>5, <1>6 DEF p
  <2> QED
    BY <2>1, <2>2, <2>3
<1>9. Len(t.back) = n - t.newTail /\ \A y \in (t.newTail + 1)..n : t.back[y - t.newTail] = K[y]
  BY <1>4
<1> QED
  BY <1>7, <1>8, <1>9 DEF Found, K, n

LEMMA BackPlaces ==
  ASSUME NEW u \in Nat, NEW n \in Nat, NEW b \in Nat, b = n - u,
         NEW y \in Int, u < y, y <= n
  PROVE  /\ (y - u) + 1 \in 1..(1 + b) /\ ~ ((y - u) + 1 <= 1) /\ ((y - u) + 1) - 1 = y - u
         /\ y \in (u + 1)..n
OBVIOUS

LEMMA BackGrows ==
  ASSUME NEW old, NEW new, IsList(old), IsList(new),
         NEW s \in WalkStates, NEW t, Places(s, old, new), Found(s, old, new),
         s.newHead <= s.newTail,
         t.newHead = s.newHead, t.newTail = s.newTail - 1, t.front = s.front,
         t.back = <<KeyedParts(old, new)[s.newTail]>> \o s.back
  PROVE  Found(t, old, new)
<1> DEFINE K == KeyedParts(old, new)
           p == K[s.newTail]
           n == Len(new)
           one == <<p>>
           back == one \o s.back
<1>1. s.newTail \in 1..n /\ s.newTail \in Nat /\ n \in Nat
  BY StatesAre DEF Places, OldPlaces, NewPlaces, IsList
<1>2. s.back \in Seq(Parts)
  BY StatesAre
<1>3. p \in Parts
  BY <1>1, KeyedPartIs
<1> HIDE DEF K, n
<1>4. /\ Len(s.front) = s.newHead - 1
      /\ \A y \in 1..(s.newHead - 1) : s.front[y] = K[y]
      /\ Len(s.back) = n - s.newTail
      /\ \A y \in (s.newTail + 1)..n : s.back[y - s.newTail] = K[y]
  BY DEF Found, K, n
<1>6. t.back = back
  BY DEF K
<1> HIDE DEF p
<1>5. one \in Seq(Parts) /\ Len(one) = 1 /\ one[1] = p
  BY <1>3
<1> HIDE DEF one
<1>7. /\ Len(back) = 1 + Len(s.back) /\ Len(s.back) \in Nat
      /\ \A i \in 1..(1 + Len(s.back)) : back[i] = IF i <= 1 THEN one[i] ELSE s.back[i - 1]
  <2>1. /\ Len(back) = Len(one) + Len(s.back)
        /\ \A i \in 1..(Len(one) + Len(s.back)) :
             back[i] = IF i <= Len(one) THEN one[i] ELSE s.back[i - Len(one)]
    BY <1>2, <1>5, ConcatProperties
  <2>2. Len(s.back) \in Nat
    BY <1>2
  <2> HIDE DEF back
  <2> QED
    BY <2>1, <2>2, <1>5
<1> HIDE DEF back
<1>8. Len(t.back) = n - t.newTail
  BY <1>1, <1>4, <1>6, <1>7
<1>9. ASSUME NEW y \in (t.newTail + 1)..n PROVE t.back[y - t.newTail] = K[y]
  <2>1. y \in Int /\ s.newTail <= y /\ y <= n /\ y - t.newTail = (y - s.newTail) + 1
    BY <1>1
  <2>2. CASE y = s.newTail
    <3>1. y - t.newTail = 1
      BY <2>1, <2>2
    <3>2. back[1] = one[1]
      BY <1>7
    <3> QED
      BY <3>1, <3>2, <2>2, <1>5, <1>6 DEF p
  <2>3. CASE y # s.newTail
    <3> DEFINE i == y - s.newTail
    <3>1. /\ i + 1 \in 1..(1 + Len(s.back)) /\ ~ (i + 1 <= 1) /\ (i + 1) - 1 = i
          /\ y \in (s.newTail + 1)..n
      <4>1. s.newTail < y
        BY <2>1, <2>3, <1>1
      <4> QED
        BY <4>1, <2>1, <1>1, <1>4, <1>7, BackPlaces
    <3>2. back[i + 1] = s.back[i]
      BY <3>1, <1>7
    <3> QED
      BY <3>1, <3>2, <2>1, <1>4, <1>6
  <2> QED
    BY <2>2, <2>3
<1>10. Len(t.front) = t.newHead - 1 /\ \A y \in 1..(t.newHead - 1) : t.front[y] = K[y]
  BY <1>4
<1> QED
  BY <1>8, <1>9, <1>10 DEF Found, K, n

(* The part of an old place that is still to be had is not among the found. *)
IsBehind(u, n, i) == i + u \in (u + 1)..n /\ (i + u) - u = i /\ i + u \in 1..n /\ i + u > u

LEMMA IsBehindAll ==
  ASSUME NEW u \in Nat, NEW n \in Nat, NEW i \in 1..(n - u)
  PROVE  IsBehind(u, n, i)
BY DEF IsBehind

LEMMA LeftIsNotShown ==
  ASSUME NEW old, NEW new, IsList(old), IsList(new), NEW s, WalkInv(s, old, new),
         NEW x \in LeftOf(s)
  PROVE  /\ x \in 1..Len(old) /\ x \in Nat
         /\ NotIn(OldPart(x), s.front) /\ NotIn(OldPart(x), s.back)
<1> DEFINE K == KeyedParts(old, new)
           n == Len(new)
<1>1. /\ s \in WalkStates /\ Places(s, old, new) /\ Matches(s, old, new)
      /\ Len(old) \in Nat /\ n \in Nat
  BY DEF WalkInv, IsList
<1>2. /\ s.front \in Seq(Parts) /\ s.back \in Seq(Parts)
      /\ s.newHead \in Nat /\ s.newTail \in Nat /\ s.oldHead \in Nat /\ s.oldTail \in Nat
  BY <1>1, StatesAre
<1>3. x \in 1..Len(old)
  BY <1>1, <1>2 DEF LeftOf, Places, OldPlaces, NewPlaces
<1>4. \A y \in 1..n : K[y] = OldPart(x) => y \in Room(s)
  <2> TAKE y \in 1..n
  <2>1. K[y] = OldPart(x) => old[x] = new[y]
    BY <1>3, KeyedPartIs
  <2> QED
    BY <2>1, <1>1, <1>3 DEF Matches
<1> HIDE DEF K, n
<1>5. /\ Len(s.front) = s.newHead - 1
      /\ \A y \in 1..(s.newHead - 1) : s.front[y] = K[y]
      /\ Len(s.back) = n - s.newTail
      /\ \A y \in (s.newTail + 1)..n : s.back[y - s.newTail] = K[y]
  BY DEF WalkInv, Found, K, n
<1>6. s.newHead <= n + 1 /\ s.newTail <= n
  BY <1>1, <1>2 DEF Places, OldPlaces, NewPlaces, n
<1>7. ASSUME NEW i \in DOMAIN s.front, s.front[i] = OldPart(x) PROVE FALSE
  <2>1. i \in 1..(s.newHead - 1)
    BY <1>2, <1>5
  <2>2. i \in 1..n /\ i \notin Room(s)
    BY <2>1, <1>1, <1>2, <1>6 DEF Room
  <2> QED
    BY <2>1, <2>2, <1>4, <1>5, <1>7
<1>8. ASSUME NEW i \in DOMAIN s.back, s.back[i] = OldPart(x) PROVE FALSE
  <2>1. i \in 1..(n - s.newTail)
    BY <1>2, <1>5
  <2> DEFINE y == i + s.newTail
  <2>4. IsBehind(s.newTail, n, i)
    BY <2>1, <1>1, <1>2, IsBehindAll
  <2>5. y \in (s.newTail + 1)..n /\ y - s.newTail = i /\ y \in 1..n /\ y > s.newTail
    BY <2>4 DEF IsBehind
  <2>6. y \notin Room(s)
    BY <2>5, <1>2 DEF Room
  <2>2. y \in (s.newTail + 1)..n /\ y - s.newTail = i /\ y \in 1..n /\ y \notin Room(s)
    BY <2>5, <2>6
  <2>3. K[y] = OldPart(x)
    BY <2>2, <1>5, <1>8
  <2> QED
    BY <2>2, <2>3, <1>4
<1> QED
  BY <1>3, <1>7, <1>8 DEF NotIn

(* The part of a new place is not on the page before the place is filled. *)
LEMMA NewIsNotShown ==
  ASSUME NEW old, NEW new, IsList(old), IsList(new), NEW s, WalkInv(s, old, new),
         NEW z \in Room(s)
  PROVE  NewPart(z) \in Parts /\ NotIn(NewPart(z), s.dom)
<1> DEFINE K == KeyedParts(old, new)
           n == Len(new)
           p == NewPart(z)
<1>1. /\ s \in WalkStates /\ Places(s, old, new) /\ Len(old) \in Nat /\ n \in Nat
  BY DEF WalkInv, IsList
<1>2. /\ s.front \in Seq(Parts) /\ s.back \in Seq(Parts) /\ LeftOf(s) \in SUBSET Nat
      /\ s.newHead \in Nat /\ s.newTail \in Nat
  BY <1>1, StatesAre
<1>3. z \in Nat /\ s.newHead <= z /\ z <= s.newTail /\ z \in 1..n
  BY <1>1, <1>2 DEF Room, Places, OldPlaces, NewPlaces
<1>4. p \in Parts /\ \A x \in Nat : OldPart(x) # p
  BY <1>3 DEF NewPart, OldPart, Parts
<1>5. \A y \in 1..n : K[y] = p => y = z
  BY <1>3, KeyedPartIs
<1> HIDE DEF K, n, p
<1>6. /\ Len(s.front) = s.newHead - 1
      /\ \A y \in 1..(s.newHead - 1) : s.front[y] = K[y]
      /\ Len(s.back) = n - s.newTail
      /\ \A y \in (s.newTail + 1)..n : s.back[y - s.newTail] = K[y]
  BY DEF WalkInv, Found, K, n
<1>7. NotIn(p, s.front)
  <2> SUFFICES ASSUME NEW i \in DOMAIN s.front, s.front[i] = p PROVE FALSE
    BY DEF NotIn
  <2>1. i \in 1..(s.newHead - 1)
    BY <1>2, <1>6
  <2>2. i \in 1..n /\ i # z
    BY <2>1, <1>1, <1>2, <1>3
  <2> QED
    BY <2>1, <2>2, <1>5, <1>6
<1>8. NotIn(p, s.back)
  <2> SUFFICES ASSUME NEW i \in DOMAIN s.back, s.back[i] = p PROVE FALSE
    BY DEF NotIn
  <2>1. i \in 1..(n - s.newTail)
    BY <1>2, <1>6
  <2> DEFINE y == i + s.newTail
  <2>4. IsBehind(s.newTail, n, i)
    BY <2>1, <1>1, <1>2, IsBehindAll
  <2>5. y \in (s.newTail + 1)..n /\ y - s.newTail = i /\ y \in 1..n /\ y > s.newTail
    BY <2>4 DEF IsBehind
  <2>2. y \in (s.newTail + 1)..n /\ y - s.newTail = i /\ y \in 1..n /\ y # z
    BY <2>5, <1>2, <1>3
  <2>3. K[y] = p
    BY <2>2, <1>6
  <2> QED
    BY <2>2, <2>3, <1>5
<1>9. PICK M \in Seq(Parts) : s.dom = PageOf(s.front, M, s.back) /\ InOrderOf(M, LeftOf(s))
  BY DEF WalkInv, Page
<1>10. NotIn(p, M)
  BY <1>2, <1>4, <1>9 DEF NotIn, InOrderOf
<1>11. NotIn(p, s.dom)
  <2>1. s.front \o M \in Seq(Parts)
    BY <1>2, ConcatProperties
  <2>2. NotIn(p, s.front \o M)
    BY <1>2, <1>7, <1>10, NotInBoth
  <2>3. NotIn(p, (s.front \o M) \o s.back)
    BY <1>2, <2>1, <2>2, <1>8, NotInBoth
  <2> QED
    BY <2>3, <1>9 DEF PageOf
<1> QED
  BY <1>4, <1>11 DEF p

Behind(u, n, b) ==
  /\ u + 1 \in 1..n /\ u + 1 \in (u + 1)..n /\ (u + 1) - u = 1
  /\ \A i \in 1..(b - 1) :
       /\ (i + 1) + u \in (u + 1)..n /\ ((i + 1) + u) - u = i + 1
       /\ (i + 1) + u \in 1..n /\ (i + 1) + u # u + 1

LEMMA BackPlacesAre ==
  ASSUME NEW u \in Nat, NEW n \in Nat, NEW b \in Nat, b = n - u, b > 0
  PROVE  Behind(u, n, b)
BY DEF Behind

(* The first of the parts of the last places is on the page once. *)
LEMMA BackIsApart ==
  ASSUME NEW old, NEW new, IsList(old), IsList(new), NEW s, WalkInv(s, old, new),
         NEW S \in SUBSET LeftOf(s), NEW N \in Seq(Parts), InOrderOf(N, S),
         s.back # <<>>
  PROVE  /\ NotIn(Head(s.back), s.front) /\ NotIn(Head(s.back), N)
         /\ NotIn(Head(s.back), Tail(s.back)) /\ Head(s.back) # AtEnd
<1> DEFINE K == KeyedParts(old, new)
           n == Len(new)
           q == Head(s.back)
           b == s.back
<1>1. /\ s \in WalkStates /\ Places(s, old, new) /\ n \in Nat
  BY DEF WalkInv, IsList
<1>2. /\ s.front \in Seq(Parts) /\ s.back \in Seq(Parts)
      /\ s.newHead \in Nat /\ s.newTail \in Nat
  BY <1>1, StatesAre
<1>3. /\ q = b[1] /\ Len(b) \in Nat /\ Len(b) > 0
      /\ DOMAIN Tail(b) = 1..(Len(b) - 1)
      /\ \A i \in 1..(Len(b) - 1) : Tail(b)[i] = b[i + 1]
  BY <1>2
<1>4. \A y, z \in 1..n : K[y] = K[z] => y = z
  BY KeyedPartIs
<1>5. \A y \in 1..n : K[y] # AtEnd
  BY KeyedPartIs
<1>6. \A x \in LeftOf(s) : NotIn(OldPart(x), s.back)
  BY LeftIsNotShown
<1> HIDE DEF K, n, q
<1>7. /\ Len(s.front) = s.newHead - 1
      /\ \A y \in 1..(s.newHead - 1) : s.front[y] = K[y]
      /\ Len(b) = n - s.newTail
      /\ \A y \in (s.newTail + 1)..n : b[y - s.newTail] = K[y]
  BY DEF WalkInv, Found, K, n
<1>8. s.newHead <= s.newTail + 1
  BY <1>1 DEF Places, OldPlaces, NewPlaces
<1> DEFINE h == s.newTail + 1
<1>14. /\ h \in 1..n /\ h \in (s.newTail + 1)..n /\ h - s.newTail = 1
       /\ \A i \in 1..(Len(b) - 1) :
            /\ (i + 1) + s.newTail \in (s.newTail + 1)..n
            /\ ((i + 1) + s.newTail) - s.newTail = i + 1
            /\ (i + 1) + s.newTail \in 1..n /\ (i + 1) + s.newTail # h
  <2> DEFINE len == Len(b)
  <2>1. len \in Nat /\ len = n - s.newTail /\ len > 0
    BY <1>3, <1>7
  <2>2. s.newTail \in Nat
    BY <1>2
  <2>3. n \in Nat
    BY <1>1
  <2> HIDE DEF len
  <2>4. Behind(s.newTail, n, len)
    BY <2>1, <2>2, <2>3, BackPlacesAre
  <2> QED
    BY <2>4 DEF len, Behind
<1>9. h \in 1..n /\ h \in (s.newTail + 1)..n /\ h - s.newTail = 1
  BY <1>14
<1>10. q = K[h] /\ q # AtEnd
  BY <1>3, <1>5, <1>7, <1>9
<1>11. NotIn(q, s.front)
  <2> SUFFICES ASSUME NEW i \in DOMAIN s.front, s.front[i] = q PROVE FALSE
    BY DEF NotIn
  <2>1. i \in 1..(s.newHead - 1)
    BY <1>2, <1>7
  <2>2. i \in 1..n /\ i # h
    BY <2>1, <1>1, <1>2, <1>8, <1>9
  <2> QED
    BY <2>1, <2>2, <1>4, <1>7, <1>9, <1>10
<1>12. NotIn(q, Tail(b))
  <2> SUFFICES ASSUME NEW i \in DOMAIN Tail(b), Tail(b)[i] = q PROVE FALSE
    BY DEF NotIn
  <2>1. i \in 1..(Len(b) - 1) /\ b[i + 1] = q
    BY <1>3
  <2> DEFINE y == (i + 1) + s.newTail
  <2>2. y \in (s.newTail + 1)..n /\ y - s.newTail = i + 1 /\ y \in 1..n /\ y # h
    BY <2>1, <1>14
  <2>3. K[y] = q
    BY <2>1, <2>2, <1>7
  <2> QED
    BY <2>2, <2>3, <1>4, <1>9, <1>10
<1>13. NotIn(q, N)
  <2> SUFFICES ASSUME NEW i \in DOMAIN N, N[i] = q PROVE FALSE
    BY DEF NotIn
  <2>1. PICK k \in S : N[i] = OldPart(k)
    BY DEF InOrderOf
  <2>2. NotIn(q, b)
    BY <2>1, <1>6
  <2>3. 1 \in DOMAIN b
    BY <1>2, <1>3
  <2> QED
    BY <2>2, <2>3, <1>3 DEF NotIn
<1> QED
  BY <1>10, <1>11, <1>12, <1>13 DEF q

LEMMA MatchesStay ==
  ASSUME NEW old, NEW new, NEW s, NEW t, Matches(s, old, new), NEW A, NEW B,
         LeftOf(t) = LeftOf(s) \ A, Room(t) = Room(s) \ B,
         \A x \in 1..Len(old), y \in 1..Len(new) : old[x] = new[y] => (x \in A <=> y \in B)
  PROVE  Matches(t, old, new)
BY DEF Matches

LEMMA PageIsTheSame ==
  ASSUME NEW F \in Seq(Parts), NEW N \in Seq(Parts), NEW G \in Seq(Parts), NEW p \in Parts
  PROVE  /\ PageOf(F, <<p>> \o N, G) = PageOf(Append(F, p), N, G)
         /\ PageOf(F, N \o <<p>>, G) = PageOf(F, N, <<p>> \o G)
<1> DEFINE one == <<p>>
           H == F \o N
<1>1. one \in Seq(Parts) /\ Append(F, p) = F \o one
  OBVIOUS
<1> HIDE DEF one
<1>2. Associates(F, one, N)
  BY <1>1, Regroup
<1>3. Associates(F, N, one)
  BY <1>1, Regroup
<1>4. Associates(H, one, G)
  <2>1. H \in Seq(Parts)
    BY ConcatProperties
  <2> HIDE DEF H
  <2> QED
    BY <1>1, <2>1, Regroup
<1>5. F \o (one \o N) = Append(F, p) \o N
  BY <1>1, <1>2 DEF Associates
<1>6. PageOf(F, one \o N, G) = PageOf(Append(F, p), N, G)
  BY <1>5 DEF PageOf
<1>7. PageOf(F, N \o one, G) = PageOf(F, N, one \o G)
  BY <1>3, <1>4 DEF PageOf, Associates
<1> QED
  BY <1>6, <1>7 DEF one

(* What every lemma about a step of the walk starts from *)
Going(s, old, new) == IsList(old) /\ IsList(new) /\ WalkInv(s, old, new)

LEMMA GoingOn ==
  ASSUME NEW old, NEW new, NEW s, Going(s, old, new)
  PROVE  /\ IsList(old) /\ IsList(new) /\ WalkInv(s, old, new)
         /\ s \in WalkStates /\ Places(s, old, new) /\ Found(s, old, new)
         /\ Matches(s, old, new) /\ Maps(s, old, new) /\ Page(s)
         /\ Len(old) \in Nat /\ Len(new) \in Nat
BY DEF Going, WalkInv, IsList

LEMMA EndsAreLeft ==
  ASSUME NEW s \in WalkStates, s.oldHead <= s.oldTail
  PROVE  /\ s.oldHead \notin s.taken => s.oldHead \in LeftOf(s) /\ \A k \in LeftOf(s) : s.oldHead <= k
         /\ s.oldTail \notin s.taken => s.oldTail \in LeftOf(s) /\ \A k \in LeftOf(s) : k <= s.oldTail
<1>1. s.oldHead \in Nat /\ s.oldTail \in Nat
  BY StatesAre
<1> QED
  BY <1>1 DEF LeftOf

(* How the places of one list move *)
OldStays(s, t) == t.oldHead = s.oldHead /\ t.oldTail = s.oldTail
OldHeadMoves(s, t) == s.oldHead <= s.oldTail /\ t.oldHead = s.oldHead + 1 /\ t.oldTail = s.oldTail
OldTailMoves(s, t) == s.oldHead <= s.oldTail /\ t.oldHead = s.oldHead /\ t.oldTail = s.oldTail - 1
NewStays(s, t) == t.newHead = s.newHead /\ t.newTail = s.newTail
NewHeadMoves(s, t) == s.newHead <= s.newTail /\ t.newHead = s.newHead + 1 /\ t.newTail = s.newTail
NewTailMoves(s, t) == s.newHead <= s.newTail /\ t.newHead = s.newHead /\ t.newTail = s.newTail - 1

OldRange(s) == s.oldHead..s.oldTail

LEMMA PlacesMove ==
  ASSUME NEW s \in WalkStates, NEW t \in WalkStates, NEW old, NEW new,
         Len(old) \in Nat, Len(new) \in Nat, Places(s, old, new)
  PROVE  /\ OldRem(s) \in Int /\ NewRem(s) \in Int /\ OldRem(t) \in Int /\ NewRem(t) \in Int
         /\ OldStays(s, t) => OldPlaces(t, old) /\ OldRem(t) = OldRem(s) /\ OldRange(t) = OldRange(s)
         /\ OldHeadMoves(s, t) => /\ OldPlaces(t, old) /\ OldRem(t) < OldRem(s)
                                  /\ OldRange(t) = OldRange(s) \ {s.oldHead}
         /\ OldTailMoves(s, t) => /\ OldPlaces(t, old) /\ OldRem(t) < OldRem(s)
                                  /\ OldRange(t) = OldRange(s) \ {s.oldTail}
         /\ NewStays(s, t) => NewPlaces(t, new) /\ NewRem(t) = NewRem(s) /\ Room(t) = Room(s)
         /\ NewHeadMoves(s, t) => /\ NewPlaces(t, new) /\ NewRem(t) < NewRem(s)
                                  /\ Room(t) = Room(s) \ {s.newHead}
         /\ NewTailMoves(s, t) => /\ NewPlaces(t, new) /\ NewRem(t) < NewRem(s)
                                  /\ Room(t) = Room(s) \ {s.newTail}
<1>1. /\ s.oldHead \in Nat /\ s.oldTail \in Nat /\ s.newHead \in Nat /\ s.newTail \in Nat
      /\ t.oldHead \in Nat /\ t.oldTail \in Nat /\ t.newHead \in Nat /\ t.newTail \in Nat
  BY StatesAre
<1>2. OldPlaces(s, old) /\ NewPlaces(s, new)
  BY DEF Places
<1>3. OldRem(s) \in Int /\ NewRem(s) \in Int /\ OldRem(t) \in Int /\ NewRem(t) \in Int
  <2>1. \A a, b \in Nat : (a - b) + 1 \in Int
    OBVIOUS
  <2>2. ((s.oldTail - s.oldHead) + 1) \in Int /\ ((s.newTail - s.newHead) + 1) \in Int
    BY <1>1, <2>1, Zenon
  <2>3. ((t.oldTail - t.oldHead) + 1) \in Int /\ ((t.newTail - t.newHead) + 1) \in Int
    BY <1>1, <2>1, Zenon
  <2> QED
    BY <2>2, <2>3, Zenon DEF OldRem, NewRem
<1>4. ASSUME OldStays(s, t)
      PROVE  OldPlaces(t, old) /\ OldRem(t) = OldRem(s) /\ OldRange(t) = OldRange(s)
  BY <1>1, <1>2, <1>4 DEF OldStays, OldPlaces, OldRem, OldRange
<1>5. ASSUME OldHeadMoves(s, t)
      PROVE  OldPlaces(t, old) /\ OldRem(t) < OldRem(s) /\ OldRange(t) = OldRange(s) \ {s.oldHead}
  BY <1>1, <1>2, <1>5, SMTT(30) DEF OldHeadMoves, OldPlaces, OldRem, OldRange
<1>6. ASSUME OldTailMoves(s, t)
      PROVE  OldPlaces(t, old) /\ OldRem(t) < OldRem(s) /\ OldRange(t) = OldRange(s) \ {s.oldTail}
  BY <1>1, <1>2, <1>6, SMTT(30) DEF OldTailMoves, OldPlaces, OldRem, OldRange
<1>7. ASSUME NewStays(s, t)
      PROVE  NewPlaces(t, new) /\ NewRem(t) = NewRem(s) /\ Room(t) = Room(s)
  BY <1>1, <1>2, <1>7 DEF NewStays, NewPlaces, NewRem, Room
<1>8. ASSUME NewHeadMoves(s, t)
      PROVE  NewPlaces(t, new) /\ NewRem(t) < NewRem(s) /\ Room(t) = Room(s) \ {s.newHead}
  BY <1>1, <1>2, <1>8, SMTT(30) DEF NewHeadMoves, NewPlaces, NewRem, Room
<1>9. ASSUME NewTailMoves(s, t)
      PROVE  NewPlaces(t, new) /\ NewRem(t) < NewRem(s) /\ Room(t) = Room(s) \ {s.newTail}
  BY <1>1, <1>2, <1>9, SMTT(30) DEF NewTailMoves, NewPlaces, NewRem, Room
<1> QED
  BY <1>3, <1>4, <1>5, <1>6, <1>7, <1>8, <1>9

(* What a state of the walk is *)
StateIs(t, oh, ot, nh, nt, F, G, T, dom, om, nm) ==
  /\ t \in WalkStates
  /\ t.oldHead = oh /\ t.oldTail = ot /\ t.newHead = nh /\ t.newTail = nt
  /\ t.front = F /\ t.back = G /\ t.taken = T /\ t.dom = dom /\ t.oldMap = om /\ t.newMap = nm

LEMMA HeadIsKeptIs ==
  ASSUME NEW s \in WalkStates,
         NEW F \in Seq(Parts), F = Append(s.front, OldPart(s.oldHead))
  PROVE  StateIs(HeadIsKept(s), s.oldHead + 1, s.oldTail, s.newHead + 1, s.newTail, F, s.back, s.taken, s.dom,
                 s.oldMap, s.newMap)
<1> DEFINE oh == s.oldHead + 1
           nh == s.newHead + 1
<1>1. oh \in Nat /\ nh \in Nat
  BY StatesAre
<1>2. HeadIsKept(s) = [s EXCEPT !.front = F, !.oldHead = oh, !.newHead = nh]
  BY DEF HeadIsKept
<1> HIDE DEF oh, nh
<1>3. StateIs([s EXCEPT !.front = F, !.oldHead = oh, !.newHead = nh],
              oh, s.oldTail, nh, s.newTail, F, s.back, s.taken, s.dom, s.oldMap, s.newMap)
  BY <1>1 DEF StateIs, WalkStates
<1> QED
  BY <1>2, <1>3 DEF oh, nh

LEMMA TailIsKeptIs ==
  ASSUME NEW s \in WalkStates,
         s.oldTail > 0, s.newTail > 0,
         NEW G \in Seq(Parts), G = <<OldPart(s.oldTail)>> \o s.back
  PROVE  StateIs(TailIsKept(s), s.oldHead, s.oldTail - 1, s.newHead, s.newTail - 1, s.front, G, s.taken, s.dom,
                 s.oldMap, s.newMap)
<1> DEFINE ot == s.oldTail - 1
           nt == s.newTail - 1
<1>1. ot \in Nat /\ nt \in Nat
  BY StatesAre
<1>2. TailIsKept(s) = [s EXCEPT !.back = G, !.oldTail = ot, !.newTail = nt]
  BY DEF TailIsKept
<1> HIDE DEF ot, nt
<1>3. StateIs([s EXCEPT !.back = G, !.oldTail = ot, !.newTail = nt],
              s.oldHead, ot, s.newHead, nt, s.front, G, s.taken, s.dom, s.oldMap, s.newMap)
  BY <1>1 DEF StateIs, WalkStates
<1> QED
  BY <1>2, <1>3 DEF ot, nt

LEMMA HeadToTailIs ==
  ASSUME NEW s \in WalkStates,
         s.newTail > 0,
         NEW G \in Seq(Parts), G = <<OldPart(s.oldHead)>> \o s.back,
         NEW dom \in Seq(Parts), dom = InsertPart(s.dom, OldPart(s.oldHead), BeforeBack(s))
  PROVE  StateIs(HeadToTail(s), s.oldHead + 1, s.oldTail, s.newHead, s.newTail - 1, s.front, G, s.taken, dom,
                 s.oldMap, s.newMap)
<1> DEFINE oh == s.oldHead + 1
           nt == s.newTail - 1
<1>1. oh \in Nat /\ nt \in Nat
  BY StatesAre
<1>2. HeadToTail(s) = [s EXCEPT !.back = G, !.dom = dom, !.oldHead = oh, !.newTail = nt]
  BY DEF HeadToTail
<1> HIDE DEF oh, nt
<1>3. StateIs([s EXCEPT !.back = G, !.dom = dom, !.oldHead = oh, !.newTail = nt],
              oh, s.oldTail, s.newHead, nt, s.front, G, s.taken, dom, s.oldMap, s.newMap)
  BY <1>1 DEF StateIs, WalkStates
<1> QED
  BY <1>2, <1>3 DEF oh, nt

LEMMA TailToHeadIs ==
  ASSUME NEW s \in WalkStates,
         s.oldTail > 0,
         NEW F \in Seq(Parts), F = Append(s.front, OldPart(s.oldTail)),
         NEW dom \in Seq(Parts), dom = InsertPart(s.dom, OldPart(s.oldTail), OldPart(s.oldHead))
  PROVE  StateIs(TailToHead(s), s.oldHead, s.oldTail - 1, s.newHead + 1, s.newTail, F, s.back, s.taken, dom,
                 s.oldMap, s.newMap)
<1> DEFINE ot == s.oldTail - 1
           nh == s.newHead + 1
<1>1. ot \in Nat /\ nh \in Nat
  BY StatesAre
<1>2. TailToHead(s) = [s EXCEPT !.front = F, !.dom = dom, !.oldTail = ot, !.newHead = nh]
  BY DEF TailToHead
<1> HIDE DEF ot, nh
<1>3. StateIs([s EXCEPT !.front = F, !.dom = dom, !.oldTail = ot, !.newHead = nh],
              s.oldHead, ot, nh, s.newTail, F, s.back, s.taken, dom, s.oldMap, s.newMap)
  BY <1>1 DEF StateIs, WalkStates
<1> QED
  BY <1>2, <1>3 DEF ot, nh

LEMMA HeadGoesIs ==
  ASSUME NEW s \in WalkStates,
         NEW dom \in Seq(Parts), dom = WithoutPart(s.dom, OldPart(s.oldHead))
  PROVE  StateIs(HeadGoes(s), s.oldHead + 1, s.oldTail, s.newHead, s.newTail, s.front, s.back, s.taken, dom,
                 s.oldMap, s.newMap)
<1> DEFINE oh == s.oldHead + 1
<1>1. oh \in Nat
  BY StatesAre
<1>2. HeadGoes(s) = [s EXCEPT !.dom = dom, !.oldHead = oh]
  BY DEF HeadGoes
<1> HIDE DEF oh
<1>3. StateIs([s EXCEPT !.dom = dom, !.oldHead = oh],
              oh, s.oldTail, s.newHead, s.newTail, s.front, s.back, s.taken, dom, s.oldMap, s.newMap)
  BY <1>1 DEF StateIs, WalkStates
<1> QED
  BY <1>2, <1>3 DEF oh

LEMMA TailGoesIs ==
  ASSUME NEW s \in WalkStates,
         s.oldTail > 0,
         NEW dom \in Seq(Parts), dom = WithoutPart(s.dom, OldPart(s.oldTail))
  PROVE  StateIs(TailGoes(s), s.oldHead, s.oldTail - 1, s.newHead, s.newTail, s.front, s.back, s.taken, dom,
                 s.oldMap, s.newMap)
<1> DEFINE ot == s.oldTail - 1
<1>1. ot \in Nat
  BY StatesAre
<1>2. TailGoes(s) = [s EXCEPT !.dom = dom, !.oldTail = ot]
  BY DEF TailGoes
<1> HIDE DEF ot
<1>3. StateIs([s EXCEPT !.dom = dom, !.oldTail = ot],
              s.oldHead, ot, s.newHead, s.newTail, s.front, s.back, s.taken, dom, s.oldMap, s.newMap)
  BY <1>1 DEF StateIs, WalkStates
<1> QED
  BY <1>2, <1>3 DEF ot

LEMMA AddOneIs ==
  ASSUME NEW s \in WalkStates,
         NEW F \in Seq(Parts), F = Append(s.front, NewPart(s.newHead)),
         NEW dom \in Seq(Parts), dom = InsertPart(s.dom, NewPart(s.newHead), BeforeBack(s))
  PROVE  StateIs(AddOne(s), s.oldHead, s.oldTail, s.newHead + 1, s.newTail, F, s.back, s.taken, dom,
                 s.oldMap, s.newMap)
<1> DEFINE nh == s.newHead + 1
<1>1. nh \in Nat
  BY StatesAre
<1>2. AddOne(s) = [s EXCEPT !.front = F, !.dom = dom, !.newHead = nh]
  BY DEF AddOne
<1> HIDE DEF nh
<1>3. StateIs([s EXCEPT !.front = F, !.dom = dom, !.newHead = nh],
              s.oldHead, s.oldTail, nh, s.newTail, F, s.back, s.taken, dom, s.oldMap, s.newMap)
  BY <1>1 DEF StateIs, WalkStates
<1> QED
  BY <1>2, <1>3 DEF nh

LEMMA HeadWasTakenIs ==
  ASSUME NEW s \in WalkStates
  PROVE  StateIs([s EXCEPT !.oldHead = @ + 1], s.oldHead + 1, s.oldTail, s.newHead, s.newTail, s.front, s.back, s.taken, s.dom,
                 s.oldMap, s.newMap)
<1> DEFINE oh == s.oldHead + 1
<1>1. oh \in Nat
  BY StatesAre
<1>2. [s EXCEPT !.oldHead = @ + 1] = [s EXCEPT !.oldHead = oh]
  OBVIOUS
<1> HIDE DEF oh
<1>3. StateIs([s EXCEPT !.oldHead = oh],
              oh, s.oldTail, s.newHead, s.newTail, s.front, s.back, s.taken, s.dom, s.oldMap, s.newMap)
  BY <1>1 DEF StateIs, WalkStates
<1> QED
  BY <1>2, <1>3 DEF oh

LEMMA TailWasTakenIs ==
  ASSUME NEW s \in WalkStates,
         s.oldTail > 0
  PROVE  StateIs([s EXCEPT !.oldTail = @ - 1], s.oldHead, s.oldTail - 1, s.newHead, s.newTail, s.front, s.back, s.taken, s.dom,
                 s.oldMap, s.newMap)
<1> DEFINE ot == s.oldTail - 1
<1>1. ot \in Nat
  BY StatesAre
<1>2. [s EXCEPT !.oldTail = @ - 1] = [s EXCEPT !.oldTail = ot]
  OBVIOUS
<1> HIDE DEF ot
<1>3. StateIs([s EXCEPT !.oldTail = ot],
              s.oldHead, ot, s.newHead, s.newTail, s.front, s.back, s.taken, s.dom, s.oldMap, s.newMap)
  BY <1>1 DEF StateIs, WalkStates
<1> QED
  BY <1>2, <1>3 DEF ot

LEMMA TakeFromMiddleIs ==
  ASSUME NEW s \in WalkStates, NEW old, NEW new,
         NEW F \in Seq(Parts), NEW dom \in Seq(Parts), NEW T \in SUBSET Nat,
         TakeFromMiddle(s, old, new)
           = [s EXCEPT !.front = F, !.dom = dom, !.taken = T, !.newHead = @ + 1]
  PROVE  StateIs(TakeFromMiddle(s, old, new), s.oldHead, s.oldTail, s.newHead + 1, s.newTail,
                 F, s.back, T, dom, s.oldMap, s.newMap)
<1> DEFINE nh == s.newHead + 1
<1>1. nh \in Nat
  BY StatesAre
<1>2. TakeFromMiddle(s, old, new) = [s EXCEPT !.front = F, !.dom = dom, !.taken = T, !.newHead = nh]
  OBVIOUS
<1> HIDE DEF nh
<1>3. StateIs([s EXCEPT !.front = F, !.dom = dom, !.taken = T, !.newHead = nh],
              s.oldHead, s.oldTail, nh, s.newTail, F, s.back, T, dom, s.oldMap, s.newMap)
  BY <1>1 DEF StateIs, WalkStates
<1> QED
  BY <1>2, <1>3 DEF nh

(* A step that takes a place of one list at least, with what it leaves of  *)
(* the two lists, keeps what is known of the walk.                         *)
LEMMA StepIs ==
  ASSUME NEW old, NEW new, NEW s, Going(s, old, new), NEW t \in WalkStates, NEW A, NEW B,
         OldStays(s, t) \/ OldHeadMoves(s, t) \/ OldTailMoves(s, t),
         NewStays(s, t) \/ NewHeadMoves(s, t) \/ NewTailMoves(s, t),
         ~ (OldStays(s, t) /\ NewStays(s, t)),
         t.oldMap = s.oldMap, t.newMap = s.newMap,
         LeftOf(t) = LeftOf(s) \ A, Room(t) = Room(s) \ B,
         \A x \in 1..Len(old), y \in 1..Len(new) : old[x] = new[y] => (x \in A <=> y \in B),
         Found(t, old, new), Page(t)
  PROVE  Goes(s, t, old, new)
<1>1. /\ s \in WalkStates /\ Places(s, old, new) /\ Matches(s, old, new) /\ Maps(s, old, new)
      /\ Len(old) \in Nat /\ Len(new) \in Nat
  BY GoingOn
<1>2. /\ OldRem(s) \in Int /\ NewRem(s) \in Int /\ OldRem(t) \in Int /\ NewRem(t) \in Int
  BY <1>1, PlacesMove
<1>3. /\ OldPlaces(t, old) /\ OldRange(t) \subseteq OldRange(s)
      /\ (OldStays(s, t) /\ OldRem(t) = OldRem(s)) \/ OldRem(t) < OldRem(s)
  BY <1>1, PlacesMove
<1>4. /\ NewPlaces(t, new) /\ Room(t) \subseteq Room(s)
      /\ (NewStays(s, t) /\ NewRem(t) = NewRem(s)) \/ NewRem(t) < NewRem(s)
  BY <1>1, PlacesMove
<1>5. Rem(t) < Rem(s)
  BY <1>2, <1>3, <1>4 DEF Rem
<1>6. Matches(t, old, new)
  BY <1>1, MatchesStay
<1>7. Maps(t, old, new)
  BY <1>1, <1>3, <1>4 DEF Maps, OldRange
<1> QED
  BY <1>3, <1>4, <1>5, <1>6, <1>7 DEF Goes, WalkInv, Places

LEMMA PairGoes ==
  ASSUME NEW old, NEW new, IsList(old), IsList(new), NEW x \in 1..Len(old), NEW y \in 1..Len(new),
         old[x] = new[y]
  PROVE  \A v \in 1..Len(old), w \in 1..Len(new) : old[v] = new[w] => (v \in {x} <=> w \in {y})
<1>1. /\ \A v \in 1..Len(old) : old[v] = old[x] => v = x
      /\ \A w \in 1..Len(new) : new[w] = new[y] => w = y
  BY DEF IsList, NoDuplicates
<1> QED
  BY <1>1

LEMMA EndsAre ==
  ASSUME NEW old, NEW new, NEW s, Going(s, old, new)
  PROVE  /\ s.oldHead <= s.oldTail =>
              s.oldHead \in 1..Len(old) /\ s.oldTail \in 1..Len(old) /\ s.oldTail > 0
         /\ s.newHead <= s.newTail =>
              /\ s.newHead \in 1..Len(new) /\ s.newTail \in 1..Len(new) /\ s.newTail > 0
              /\ s.newHead \in Room(s) /\ s.newTail \in Room(s)
<1>1. s \in WalkStates /\ Places(s, old, new) /\ Len(old) \in Nat /\ Len(new) \in Nat
  BY GoingOn
<1>2. s.oldHead \in Nat /\ s.oldTail \in Nat /\ s.newHead \in Nat /\ s.newTail \in Nat
  BY <1>1, StatesAre
<1> QED
  BY <1>1, <1>2, SMTT(30) DEF Places, OldPlaces, NewPlaces, Room

LEMMA LeftMoves ==
  ASSUME NEW s, NEW t, t.taken = s.taken
  PROVE  /\ \A x : OldRange(t) = OldRange(s) \ {x} => LeftOf(t) = LeftOf(s) \ {x}
         /\ OldRange(t) = OldRange(s) => LeftOf(t) = LeftOf(s)
BY DEF LeftOf, OldRange

LEMMA LeftAfter ==
  ASSUME NEW old, NEW new, NEW s, Going(s, old, new), NEW t \in WalkStates, t.taken = s.taken
  PROVE  /\ OldHeadMoves(s, t) => LeftOf(t) = LeftOf(s) \ {s.oldHead}
         /\ OldTailMoves(s, t) => LeftOf(t) = LeftOf(s) \ {s.oldTail}
         /\ OldStays(s, t) => LeftOf(t) = LeftOf(s)
         /\ NewHeadMoves(s, t) => Room(t) = Room(s) \ {s.newHead}
         /\ NewTailMoves(s, t) => Room(t) = Room(s) \ {s.newTail}
         /\ NewStays(s, t) => Room(t) = Room(s)
<1>1. s \in WalkStates /\ Places(s, old, new) /\ Len(old) \in Nat /\ Len(new) \in Nat
  BY GoingOn
<1>2. /\ OldHeadMoves(s, t) => OldRange(t) = OldRange(s) \ {s.oldHead}
      /\ OldTailMoves(s, t) => OldRange(t) = OldRange(s) \ {s.oldTail}
      /\ OldStays(s, t) => OldRange(t) = OldRange(s)
  BY <1>1, PlacesMove
<1>3. /\ NewHeadMoves(s, t) => Room(t) = Room(s) \ {s.newHead}
      /\ NewTailMoves(s, t) => Room(t) = Room(s) \ {s.newTail}
      /\ NewStays(s, t) => Room(t) = Room(s)
  BY <1>1, PlacesMove
<1> QED
  BY <1>2, <1>3, LeftMoves

LEMMA FoundStays ==
  ASSUME NEW s, NEW t, NEW old, NEW new, Found(s, old, new),
         t.front = s.front, t.back = s.back, t.newHead = s.newHead, t.newTail = s.newTail
  PROVE  Found(t, old, new)
BY DEF Found

LEMMA KeepsHead ==
  ASSUME NEW old, NEW new, NEW s, Going(s, old, new),
         s.oldHead <= s.oldTail, s.newHead <= s.newTail,
         s.oldHead \notin s.taken, old[s.oldHead] = new[s.newHead]
  PROVE  Goes(s, HeadIsKept(s), old, new)
<1> DEFINE t == HeadIsKept(s)
           x == s.oldHead
           y == s.newHead
           p == OldPart(x)
           F == Append(s.front, p)
<1>1. /\ IsList(old) /\ IsList(new) /\ WalkInv(s, old, new)
      /\ s \in WalkStates /\ Places(s, old, new) /\ Found(s, old, new) /\ Page(s)
      /\ Len(old) \in Nat /\ Len(new) \in Nat
  BY GoingOn
<1>2. s.front \in Seq(Parts) /\ s.back \in Seq(Parts) /\ LeftOf(s) \in SUBSET Nat /\ x \in Nat
  BY <1>1, StatesAre
<1>3. x \in 1..Len(old) /\ y \in 1..Len(new)
  BY EndsAre
<1>4. p \in Parts
  BY <1>2, OldPartIs
<1>5. F \in Seq(Parts)
  BY <1>2, <1>4
<1>6. StateIs(t, s.oldHead + 1, s.oldTail, s.newHead + 1, s.newTail, F, s.back, s.taken, s.dom,
              s.oldMap, s.newMap)
  BY <1>1, <1>5, HeadIsKeptIs
<1> HIDE DEF t, F
<1>7. /\ t \in WalkStates /\ t.taken = s.taken /\ t.oldMap = s.oldMap /\ t.newMap = s.newMap
      /\ t.dom = s.dom /\ t.front = F /\ t.back = s.back
      /\ t.newHead = s.newHead + 1 /\ t.newTail = s.newTail
      /\ OldHeadMoves(s, t) /\ NewHeadMoves(s, t)
  BY <1>6 DEF StateIs, OldHeadMoves, NewHeadMoves
<1>8. LeftOf(t) = LeftOf(s) \ {x} /\ Room(t) = Room(s) \ {y}
  BY <1>7, LeftAfter
<1>9. ~ (OldStays(s, t) /\ NewStays(s, t))
  BY <1>2, <1>7 DEF OldHeadMoves, OldStays
<1>10. KeyedParts(old, new)[y] = p
  BY <1>1, <1>3, KeyedPart
<1>11. Found(t, old, new)
  BY <1>1, <1>7, <1>10, FrontGrows DEF F
<1>12. \A v \in 1..Len(old), w \in 1..Len(new) : old[v] = new[w] => (v \in {x} <=> w \in {y})
  BY <1>1, <1>3, PairGoes
<1>13. Page(t)
  <2>1. PICK M \in Seq(Parts) : s.dom = PageOf(s.front, M, s.back) /\ InOrderOf(M, LeftOf(s))
    BY <1>1 DEF Page
  <2>2. x \in LeftOf(s) /\ \A k \in LeftOf(s) : x <= k
    BY <1>1, EndsAreLeft
  <2>3. NotIn(p, s.front)
    BY <1>1, <2>2, LeftIsNotShown
  <2>4. PICK N \in Seq(Parts) :
          /\ InOrderOf(N, LeftOf(s) \ {x})
          /\ (\A k \in LeftOf(s) : x <= k) => M = <<p>> \o N
    <3>1. Removes(LeftOf(s), x, s.front, M, s.back)
      BY <1>2, <2>1, <2>2, <2>3, Removed
    <3> QED
      BY <3>1 DEF Removes
  <2>5. M = <<p>> \o N
    BY <2>2, <2>4
  <2>6. PageOf(s.front, <<p>> \o N, s.back) = PageOf(Append(s.front, p), N, s.back)
    BY <1>2, <1>4, PageIsTheSame
  <2>7. t.dom = PageOf(t.front, N, t.back)
    BY <1>7, <2>1, <2>5, <2>6 DEF F
  <2> QED
    BY <1>8, <2>4, <2>7 DEF Page
<1>14. Goes(s, t, old, new)
  BY <1>7, <1>8, <1>9, <1>11, <1>12, <1>13, StepIs
<1> QED
  BY <1>14 DEF t

LEMMA KeepsTail ==
  ASSUME NEW old, NEW new, NEW s, Going(s, old, new),
         s.oldHead <= s.oldTail, s.newHead <= s.newTail,
         s.oldTail \notin s.taken, old[s.oldTail] = new[s.newTail]
  PROVE  Goes(s, TailIsKept(s), old, new)
<1> DEFINE t == TailIsKept(s)
           x == s.oldTail
           y == s.newTail
           p == OldPart(x)
           G == <<p>> \o s.back
<1>1. /\ IsList(old) /\ IsList(new) /\ WalkInv(s, old, new)
      /\ s \in WalkStates /\ Places(s, old, new) /\ Found(s, old, new) /\ Page(s)
      /\ Len(old) \in Nat /\ Len(new) \in Nat
  BY GoingOn
<1>2. s.front \in Seq(Parts) /\ s.back \in Seq(Parts) /\ LeftOf(s) \in SUBSET Nat /\ x \in Nat /\ y \in Nat
  BY <1>1, StatesAre
<1>3. x \in 1..Len(old) /\ y \in 1..Len(new) /\ x > 0 /\ y > 0
  BY EndsAre
<1>4. p \in Parts
  BY <1>2, OldPartIs
<1>5. G \in Seq(Parts)
  BY <1>2, <1>4, ConcatProperties
<1>6. StateIs(t, s.oldHead, s.oldTail - 1, s.newHead, s.newTail - 1, s.front, G, s.taken, s.dom,
              s.oldMap, s.newMap)
  BY <1>1, <1>3, <1>5, TailIsKeptIs
<1> HIDE DEF t, G
<1>7. /\ t \in WalkStates /\ t.taken = s.taken /\ t.oldMap = s.oldMap /\ t.newMap = s.newMap
      /\ t.dom = s.dom /\ t.front = s.front /\ t.back = G
      /\ t.newHead = s.newHead /\ t.newTail = s.newTail - 1
      /\ OldTailMoves(s, t) /\ NewTailMoves(s, t)
  BY <1>6 DEF StateIs, OldTailMoves, NewTailMoves
<1>8. LeftOf(t) = LeftOf(s) \ {x} /\ Room(t) = Room(s) \ {y}
  BY <1>7, LeftAfter
<1>9. ~ (OldStays(s, t) /\ NewStays(s, t))
  BY <1>2, <1>7 DEF OldTailMoves, OldStays
<1>10. KeyedParts(old, new)[y] = p
  BY <1>1, <1>3, KeyedPart
<1>11. Found(t, old, new)
  BY <1>1, <1>7, <1>10, BackGrows DEF G
<1>12. \A v \in 1..Len(old), w \in 1..Len(new) : old[v] = new[w] => (v \in {x} <=> w \in {y})
  BY <1>1, <1>3, PairGoes
<1>13. Page(t)
  <2>1. PICK M \in Seq(Parts) : s.dom = PageOf(s.front, M, s.back) /\ InOrderOf(M, LeftOf(s))
    BY <1>1 DEF Page
  <2>2. x \in LeftOf(s) /\ \A k \in LeftOf(s) : k <= x
    BY <1>1, EndsAreLeft
  <2>3. NotIn(p, s.front)
    BY <1>1, <2>2, LeftIsNotShown
  <2>4. PICK N \in Seq(Parts) :
          /\ InOrderOf(N, LeftOf(s) \ {x})
          /\ (\A k \in LeftOf(s) : k <= x) => M = N \o <<p>>
    <3>1. Removes(LeftOf(s), x, s.front, M, s.back)
      BY <1>2, <2>1, <2>2, <2>3, Removed
    <3> QED
      BY <3>1 DEF Removes
  <2>5. M = N \o <<p>>
    BY <2>2, <2>4
  <2>6. PageOf(s.front, N \o <<p>>, s.back) = PageOf(s.front, N, <<p>> \o s.back)
    BY <1>2, <1>4, PageIsTheSame
  <2>7. t.dom = PageOf(t.front, N, t.back)
    BY <1>7, <2>1, <2>5, <2>6 DEF G
  <2> QED
    BY <1>8, <2>4, <2>7 DEF Page
<1>14. Goes(s, t, old, new)
  BY <1>7, <1>8, <1>9, <1>11, <1>12, <1>13, StepIs
<1> QED
  BY <1>14 DEF t

LEMMA MovesHead ==
  ASSUME NEW old, NEW new, NEW s, Going(s, old, new),
         s.oldHead <= s.oldTail, s.newHead <= s.newTail,
         s.oldHead \notin s.taken, old[s.oldHead] = new[s.newTail]
  PROVE  Goes(s, HeadToTail(s), old, new)
<1> DEFINE t == HeadToTail(s)
           x == s.oldHead
           y == s.newTail
           p == OldPart(x)
           G == <<p>> \o s.back
           dom == InsertPart(s.dom, p, BeforeBack(s))
<1>1. /\ IsList(old) /\ IsList(new) /\ WalkInv(s, old, new)
      /\ s \in WalkStates /\ Places(s, old, new) /\ Found(s, old, new) /\ Page(s)
      /\ Len(old) \in Nat /\ Len(new) \in Nat
  BY GoingOn
<1>2. s.front \in Seq(Parts) /\ s.back \in Seq(Parts) /\ LeftOf(s) \in SUBSET Nat /\ x \in Nat /\ y \in Nat
  BY <1>1, StatesAre
<1>3. x \in 1..Len(old) /\ y \in 1..Len(new) /\ y > 0
  BY EndsAre
<1>4. p \in Parts
  BY <1>2, OldPartIs
<1>5. G \in Seq(Parts)
  BY <1>2, <1>4, ConcatProperties
<1>6. PICK M \in Seq(Parts) : s.dom = PageOf(s.front, M, s.back) /\ InOrderOf(M, LeftOf(s))
  BY <1>1 DEF Page
<1>7. x \in LeftOf(s) /\ \A k \in LeftOf(s) : x <= k
  BY <1>1, EndsAreLeft
<1>8. NotIn(p, s.front)
  BY <1>1, <1>7, LeftIsNotShown
<1>9. PICK N \in Seq(Parts) :
        /\ InOrderOf(N, LeftOf(s) \ {x})
        /\ WithoutPart(s.dom, p) = PageOf(s.front, N, s.back)
  <2>1. Removes(LeftOf(s), x, s.front, M, s.back)
    BY <1>2, <1>6, <1>7, <1>8, Removed
  <2> QED
    BY <1>6, <2>1 DEF Removes
<1>10. dom = PageOf(s.front, N, G)
  <2>1. ASSUME s.back # <<>>
        PROVE  /\ NotIn(Head(s.back), s.front) /\ NotIn(Head(s.back), N)
               /\ NotIn(Head(s.back), Tail(s.back)) /\ Head(s.back) # AtEnd
    <3>1. LeftOf(s) \ {x} \in SUBSET LeftOf(s)
      OBVIOUS
    <3> QED
      BY <1>1, <1>9, <2>1, <3>1, BackIsApart
  <2>2. InsertPart(s.dom, p, IF s.back = <<>> THEN AtEnd ELSE Head(s.back))
          = PageOf(s.front, N, <<p>> \o s.back)
    BY <1>2, <1>4, <1>9, <2>1, PutBehind
  <2> QED
    BY <2>2 DEF BeforeBack
<1>11. dom \in Seq(Parts)
  <2> HIDE DEF dom, G
  <2> QED
    BY <1>2, <1>5, <1>10, PageIs
<1>12. StateIs(t, s.oldHead + 1, s.oldTail, s.newHead, s.newTail - 1, s.front, G, s.taken, dom,
               s.oldMap, s.newMap)
  BY <1>1, <1>3, <1>5, <1>11, HeadToTailIs
<1> HIDE DEF t, G, dom
<1>13. /\ t \in WalkStates /\ t.taken = s.taken /\ t.oldMap = s.oldMap /\ t.newMap = s.newMap
       /\ t.dom = dom /\ t.front = s.front /\ t.back = G
       /\ t.newHead = s.newHead /\ t.newTail = s.newTail - 1
       /\ OldHeadMoves(s, t) /\ NewTailMoves(s, t)
  BY <1>12 DEF StateIs, OldHeadMoves, NewTailMoves
<1>14. LeftOf(t) = LeftOf(s) \ {x} /\ Room(t) = Room(s) \ {y}
  BY <1>13, LeftAfter
<1>15. ~ (OldStays(s, t) /\ NewStays(s, t))
  BY <1>2, <1>13 DEF OldHeadMoves, OldStays
<1>16. KeyedParts(old, new)[y] = p
  BY <1>1, <1>3, KeyedPart
<1>17. Found(t, old, new)
  BY <1>1, <1>13, <1>16, BackGrows DEF G
<1>18. \A v \in 1..Len(old), w \in 1..Len(new) : old[v] = new[w] => (v \in {x} <=> w \in {y})
  BY <1>1, <1>3, PairGoes
<1>19. Page(t)
  BY <1>9, <1>10, <1>13, <1>14 DEF Page
<1>20. Goes(s, t, old, new)
  BY <1>13, <1>14, <1>15, <1>17, <1>18, <1>19, StepIs
<1> QED
  BY <1>20 DEF t

LEMMA MovesTail ==
  ASSUME NEW old, NEW new, NEW s, Going(s, old, new),
         s.oldHead <= s.oldTail, s.newHead <= s.newTail,
         s.oldHead \notin s.taken, s.oldTail \notin s.taken,
         old[s.oldHead] # new[s.newHead], old[s.oldTail] = new[s.newHead]
  PROVE  Goes(s, TailToHead(s), old, new)
<1> DEFINE t == TailToHead(s)
           x == s.oldTail
           y == s.newHead
           h == s.oldHead
           p == OldPart(x)
           F == Append(s.front, p)
           dom == InsertPart(s.dom, p, OldPart(h))
<1>1. /\ IsList(old) /\ IsList(new) /\ WalkInv(s, old, new)
      /\ s \in WalkStates /\ Places(s, old, new) /\ Found(s, old, new) /\ Page(s)
      /\ Len(old) \in Nat /\ Len(new) \in Nat
  BY GoingOn
<1>2. s.front \in Seq(Parts) /\ s.back \in Seq(Parts) /\ LeftOf(s) \in SUBSET Nat /\ x \in Nat /\ y \in Nat
  BY <1>1, StatesAre
<1>3. x \in 1..Len(old) /\ y \in 1..Len(new) /\ x > 0
  BY EndsAre
<1>4. p \in Parts
  BY <1>2, OldPartIs
<1>5. F \in Seq(Parts)
  BY <1>2, <1>4
<1>6. PICK M \in Seq(Parts) : s.dom = PageOf(s.front, M, s.back) /\ InOrderOf(M, LeftOf(s))
  BY <1>1 DEF Page
<1>7. x \in LeftOf(s) /\ h \in LeftOf(s) \ {x} /\ \A k \in LeftOf(s) \ {x} : h <= k
  BY <1>1, EndsAreLeft
<1>8. NotIn(p, s.front) /\ NotIn(OldPart(h), s.front) /\ NotIn(OldPart(h), s.back)
  BY <1>1, <1>7, LeftIsNotShown
<1>9. PICK N \in Seq(Parts) :
        /\ InOrderOf(N, LeftOf(s) \ {x})
        /\ WithoutPart(s.dom, p) = PageOf(s.front, N, s.back)
  <2>1. Removes(LeftOf(s), x, s.front, M, s.back)
    BY <1>2, <1>6, <1>7, <1>8, Removed
  <2> QED
    BY <1>6, <2>1 DEF Removes
<1>10. dom = PageOf(F, N, s.back)
  <2>1. LeftOf(s) \ {x} \in SUBSET Nat
    BY <1>2
  <2> QED
    BY <1>2, <1>4, <1>7, <1>8, <1>9, <2>1, PutBefore, SMTT(30) DEF IsPutBefore
<1>11. dom \in Seq(Parts)
  <2> HIDE DEF dom, F
  <2> QED
    BY <1>2, <1>5, <1>10, PageIs
<1>12. StateIs(t, s.oldHead, s.oldTail - 1, s.newHead + 1, s.newTail, F, s.back, s.taken, dom,
               s.oldMap, s.newMap)
  BY <1>1, <1>3, <1>5, <1>11, TailToHeadIs
<1> HIDE DEF t, F, dom
<1>13. /\ t \in WalkStates /\ t.taken = s.taken /\ t.oldMap = s.oldMap /\ t.newMap = s.newMap
       /\ t.dom = dom /\ t.front = F /\ t.back = s.back
       /\ t.newHead = s.newHead + 1 /\ t.newTail = s.newTail
       /\ OldTailMoves(s, t) /\ NewHeadMoves(s, t)
  BY <1>12 DEF StateIs, OldTailMoves, NewHeadMoves
<1>14. LeftOf(t) = LeftOf(s) \ {x} /\ Room(t) = Room(s) \ {y}
  BY <1>13, LeftAfter
<1>15. ~ (OldStays(s, t) /\ NewStays(s, t))
  BY <1>2, <1>13 DEF OldTailMoves, OldStays
<1>16. KeyedParts(old, new)[y] = p
  BY <1>1, <1>3, KeyedPart
<1>17. Found(t, old, new)
  BY <1>1, <1>13, <1>16, FrontGrows DEF F
<1>18. \A v \in 1..Len(old), w \in 1..Len(new) : old[v] = new[w] => (v \in {x} <=> w \in {y})
  BY <1>1, <1>3, PairGoes
<1>19. Page(t)
  BY <1>9, <1>10, <1>13, <1>14 DEF Page
<1>20. Goes(s, t, old, new)
  BY <1>13, <1>14, <1>15, <1>17, <1>18, <1>19, StepIs
<1> QED
  BY <1>20 DEF t

(* The old part at one end goes, when no place of the new list is its.     *)
LEMMA LosesHead ==
  ASSUME NEW old, NEW new, NEW s, Going(s, old, new),
         s.oldHead <= s.oldTail, s.oldHead \notin s.taken,
         \A y \in 1..Len(new) : old[s.oldHead] # new[y]
  PROVE  Goes(s, HeadGoes(s), old, new)
<1> DEFINE t == HeadGoes(s)
           x == s.oldHead
           p == OldPart(x)
           dom == WithoutPart(s.dom, p)
<1>1. /\ IsList(old) /\ IsList(new) /\ WalkInv(s, old, new)
      /\ s \in WalkStates /\ Found(s, old, new) /\ Page(s)
  BY GoingOn
<1>2. s.front \in Seq(Parts) /\ s.back \in Seq(Parts) /\ LeftOf(s) \in SUBSET Nat /\ x \in Nat
  BY <1>1, StatesAre
<1>6. PICK M \in Seq(Parts) : s.dom = PageOf(s.front, M, s.back) /\ InOrderOf(M, LeftOf(s))
  BY <1>1 DEF Page
<1>7. x \in LeftOf(s)
  BY <1>1, EndsAreLeft
<1>8. NotIn(p, s.front)
  BY <1>1, <1>7, LeftIsNotShown
<1>9. PICK N \in Seq(Parts) :
        InOrderOf(N, LeftOf(s) \ {x}) /\ dom = PageOf(s.front, N, s.back)
  <2>1. Removes(LeftOf(s), x, s.front, M, s.back)
    BY <1>2, <1>6, <1>7, <1>8, Removed
  <2> QED
    BY <1>6, <2>1 DEF Removes
<1>11. dom \in Seq(Parts)
  <2> HIDE DEF dom
  <2> QED
    BY <1>2, <1>9, PageIs
<1>12. StateIs(t, s.oldHead + 1, s.oldTail, s.newHead, s.newTail, s.front, s.back, s.taken, dom,
               s.oldMap, s.newMap)
  BY <1>1, <1>11, HeadGoesIs
<1> HIDE DEF t, dom
<1>13. /\ t \in WalkStates /\ t.taken = s.taken /\ t.oldMap = s.oldMap /\ t.newMap = s.newMap
       /\ t.dom = dom /\ t.front = s.front /\ t.back = s.back
       /\ t.newHead = s.newHead /\ t.newTail = s.newTail
       /\ OldHeadMoves(s, t) /\ NewStays(s, t)
  BY <1>12 DEF StateIs, OldHeadMoves, NewStays
<1>14. LeftOf(t) = LeftOf(s) \ {x} /\ Room(t) = Room(s) \ {}
  BY <1>13, LeftAfter
<1>15. ~ (OldStays(s, t) /\ NewStays(s, t))
  BY <1>2, <1>13 DEF OldHeadMoves, OldStays
<1>17. Found(t, old, new)
  BY <1>1, <1>13, FoundStays
<1>18. \A v \in 1..Len(old), w \in 1..Len(new) : old[v] = new[w] => (v \in {x} <=> w \in {})
  OBVIOUS
<1>19. Page(t)
  BY <1>9, <1>13, <1>14 DEF Page
<1>20. Goes(s, t, old, new)
  BY <1>13, <1>14, <1>15, <1>17, <1>18, <1>19, StepIs
<1> QED
  BY <1>20 DEF t

LEMMA LosesTail ==
  ASSUME NEW old, NEW new, NEW s, Going(s, old, new),
         s.oldHead <= s.oldTail, s.oldTail \notin s.taken,
         \A y \in 1..Len(new) : old[s.oldTail] # new[y]
  PROVE  Goes(s, TailGoes(s), old, new)
<1> DEFINE t == TailGoes(s)
           x == s.oldTail
           p == OldPart(x)
           dom == WithoutPart(s.dom, p)
<1>1. /\ IsList(old) /\ IsList(new) /\ WalkInv(s, old, new)
      /\ s \in WalkStates /\ Found(s, old, new) /\ Page(s)
  BY GoingOn
<1>2. s.front \in Seq(Parts) /\ s.back \in Seq(Parts) /\ LeftOf(s) \in SUBSET Nat /\ x \in Nat
  BY <1>1, StatesAre
<1>3. x > 0
  BY EndsAre
<1>6. PICK M \in Seq(Parts) : s.dom = PageOf(s.front, M, s.back) /\ InOrderOf(M, LeftOf(s))
  BY <1>1 DEF Page
<1>7. x \in LeftOf(s)
  BY <1>1, EndsAreLeft
<1>8. NotIn(p, s.front)
  BY <1>1, <1>7, LeftIsNotShown
<1>9. PICK N \in Seq(Parts) :
        InOrderOf(N, LeftOf(s) \ {x}) /\ dom = PageOf(s.front, N, s.back)
  <2>1. Removes(LeftOf(s), x, s.front, M, s.back)
    BY <1>2, <1>6, <1>7, <1>8, Removed
  <2> QED
    BY <1>6, <2>1 DEF Removes
<1>11. dom \in Seq(Parts)
  <2> HIDE DEF dom
  <2> QED
    BY <1>2, <1>9, PageIs
<1>12. StateIs(t, s.oldHead, s.oldTail - 1, s.newHead, s.newTail, s.front, s.back, s.taken, dom,
               s.oldMap, s.newMap)
  BY <1>1, <1>3, <1>11, TailGoesIs
<1> HIDE DEF t, dom
<1>13. /\ t \in WalkStates /\ t.taken = s.taken /\ t.oldMap = s.oldMap /\ t.newMap = s.newMap
       /\ t.dom = dom /\ t.front = s.front /\ t.back = s.back
       /\ t.newHead = s.newHead /\ t.newTail = s.newTail
       /\ OldTailMoves(s, t) /\ NewStays(s, t)
  BY <1>12 DEF StateIs, OldTailMoves, NewStays
<1>14. LeftOf(t) = LeftOf(s) \ {x} /\ Room(t) = Room(s) \ {}
  BY <1>13, LeftAfter
<1>15. ~ (OldStays(s, t) /\ NewStays(s, t))
  BY <1>2, <1>13 DEF OldTailMoves, OldStays
<1>17. Found(t, old, new)
  BY <1>1, <1>13, FoundStays
<1>18. \A v \in 1..Len(old), w \in 1..Len(new) : old[v] = new[w] => (v \in {x} <=> w \in {})
  OBVIOUS
<1>19. Page(t)
  BY <1>9, <1>13, <1>14 DEF Page
<1>20. Goes(s, t, old, new)
  BY <1>13, <1>14, <1>15, <1>17, <1>18, <1>19, StepIs
<1> QED
  BY <1>20 DEF t

(* An old place that was taken is passed by. *)
LEMMA PassesHead ==
  ASSUME NEW old, NEW new, NEW s, Going(s, old, new),
         s.oldHead <= s.oldTail, s.oldHead \in s.taken
  PROVE  Goes(s, [s EXCEPT !.oldHead = @ + 1], old, new)
<1> DEFINE t == [s EXCEPT !.oldHead = @ + 1]
<1>1. s \in WalkStates /\ Found(s, old, new) /\ Page(s)
  BY GoingOn
<1>2. StateIs(t, s.oldHead + 1, s.oldTail, s.newHead, s.newTail, s.front, s.back, s.taken, s.dom,
              s.oldMap, s.newMap)
  BY <1>1, HeadWasTakenIs
<1> HIDE DEF t
<1>3. /\ t \in WalkStates /\ t.taken = s.taken /\ t.oldMap = s.oldMap /\ t.newMap = s.newMap
      /\ t.dom = s.dom /\ t.front = s.front /\ t.back = s.back
      /\ t.newHead = s.newHead /\ t.newTail = s.newTail
      /\ OldHeadMoves(s, t) /\ NewStays(s, t)
  BY <1>2 DEF StateIs, OldHeadMoves, NewStays
<1>4. LeftOf(t) = LeftOf(s) \ {s.oldHead} /\ Room(t) = Room(s) \ {}
  BY <1>3, LeftAfter
<1>5. s.oldHead \notin LeftOf(s) /\ LeftOf(t) = LeftOf(s)
  BY <1>4 DEF LeftOf
<1>6. ~ (OldStays(s, t) /\ NewStays(s, t))
  <2>1. s.oldHead \in Nat
    BY <1>1, StatesAre
  <2> QED
    BY <1>3, <2>1 DEF OldHeadMoves, OldStays
<1>7. Found(t, old, new)
  BY <1>1, <1>3, FoundStays
<1>8. Page(t)
  BY <1>1, <1>3, <1>5 DEF Page
<1>9. LeftOf(t) = LeftOf(s) \ {}
  BY <1>5
<1>10. Goes(s, t, old, new)
  BY <1>3, <1>4, <1>6, <1>7, <1>8, <1>9, StepIs
<1> QED
  BY <1>10 DEF t

LEMMA PassesTail ==
  ASSUME NEW old, NEW new, NEW s, Going(s, old, new),
         s.oldHead <= s.oldTail, s.oldTail \in s.taken
  PROVE  Goes(s, [s EXCEPT !.oldTail = @ - 1], old, new)
<1> DEFINE t == [s EXCEPT !.oldTail = @ - 1]
<1>1. s \in WalkStates /\ Found(s, old, new) /\ Page(s) /\ s.oldTail > 0
  BY GoingOn, EndsAre
<1>2. StateIs(t, s.oldHead, s.oldTail - 1, s.newHead, s.newTail, s.front, s.back, s.taken, s.dom,
              s.oldMap, s.newMap)
  BY <1>1, TailWasTakenIs
<1> HIDE DEF t
<1>3. /\ t \in WalkStates /\ t.taken = s.taken /\ t.oldMap = s.oldMap /\ t.newMap = s.newMap
      /\ t.dom = s.dom /\ t.front = s.front /\ t.back = s.back
      /\ t.newHead = s.newHead /\ t.newTail = s.newTail
      /\ OldTailMoves(s, t) /\ NewStays(s, t)
  BY <1>2 DEF StateIs, OldTailMoves, NewStays
<1>4. LeftOf(t) = LeftOf(s) \ {s.oldTail} /\ Room(t) = Room(s) \ {}
  BY <1>3, LeftAfter
<1>5. s.oldTail \notin LeftOf(s) /\ LeftOf(t) = LeftOf(s)
  BY <1>4 DEF LeftOf
<1>6. ~ (OldStays(s, t) /\ NewStays(s, t))
  <2>1. s.oldTail \in Nat
    BY <1>1, StatesAre
  <2> QED
    BY <1>3, <2>1 DEF OldTailMoves, OldStays
<1>7. Found(t, old, new)
  BY <1>1, <1>3, FoundStays
<1>8. Page(t)
  BY <1>1, <1>3, <1>5 DEF Page
<1>9. LeftOf(t) = LeftOf(s) \ {}
  BY <1>5
<1>10. Goes(s, t, old, new)
  BY <1>3, <1>4, <1>6, <1>7, <1>8, <1>9, StepIs
<1> QED
  BY <1>10 DEF t

(* A place without an old part gets a new one, when the old list is used up. *)
LEMMA Adds ==
  ASSUME NEW old, NEW new, NEW s, Going(s, old, new),
         ~ (s.oldHead <= s.oldTail), s.newHead <= s.newTail
  PROVE  Goes(s, AddOne(s), old, new)
<1> DEFINE t == AddOne(s)
           y == s.newHead
           p == NewPart(y)
           F == Append(s.front, p)
           dom == InsertPart(s.dom, p, BeforeBack(s))
<1>1. /\ IsList(old) /\ IsList(new) /\ WalkInv(s, old, new)
      /\ s \in WalkStates /\ Places(s, old, new) /\ Found(s, old, new) /\ Page(s)
      /\ Matches(s, old, new) /\ Len(old) \in Nat /\ Len(new) \in Nat
  BY GoingOn
<1>2. /\ s.front \in Seq(Parts) /\ s.back \in Seq(Parts) /\ s.dom \in Seq(Parts) /\ y \in Nat
      /\ s.oldHead \in Nat /\ s.oldTail \in Nat
  BY <1>1, StatesAre
<1>3. y \in 1..Len(new) /\ y \in Room(s)
  BY EndsAre
<1>4. LeftOf(s) = {}
  BY <1>2 DEF LeftOf
<1>5. \A x \in 1..Len(old) : old[x] # new[y]
  BY <1>1, <1>3, <1>4 DEF Matches
<1>6. p \in Parts /\ NotIn(p, s.dom)
  BY <1>1, <1>3, NewIsNotShown
<1>7. F \in Seq(Parts)
  BY <1>2, <1>6
<1>8. PICK M \in Seq(Parts) : s.dom = PageOf(s.front, M, s.back) /\ InOrderOf(M, {})
  BY <1>1, <1>4 DEF Page
<1>9. M = <<>>
  BY <1>8 DEF InOrderOf
<1>10. WithoutPart(s.dom, p) = PageOf(s.front, M, s.back)
  BY <1>2, <1>6, <1>8, PartIsNotThere
<1>11. dom = PageOf(s.front, M, <<p>> \o s.back)
  <2>1. ASSUME s.back # <<>>
        PROVE  /\ NotIn(Head(s.back), s.front) /\ NotIn(Head(s.back), M)
               /\ NotIn(Head(s.back), Tail(s.back)) /\ Head(s.back) # AtEnd
    <3>1. {} \in SUBSET LeftOf(s)
      OBVIOUS
    <3> QED
      BY <1>1, <1>8, <2>1, <3>1, BackIsApart
  <2>2. InsertPart(s.dom, p, IF s.back = <<>> THEN AtEnd ELSE Head(s.back))
          = PageOf(s.front, M, <<p>> \o s.back)
    BY <1>2, <1>6, <1>10, <2>1, PutBehind
  <2> QED
    BY <2>2 DEF BeforeBack
<1>12. dom = PageOf(F, M, s.back)
  <2>1. /\ PageOf(s.front, <<p>> \o M, s.back) = PageOf(F, M, s.back)
        /\ PageOf(s.front, M \o <<p>>, s.back) = PageOf(s.front, M, <<p>> \o s.back)
    BY <1>2, <1>6, PageIsTheSame
  <2>2. <<p>> \o M = M \o <<p>>
    <3>1. <<p>> \in Seq(Parts)
      BY <1>6
    <3>2. <<p>> \o <<>> = <<p>> /\ <<>> \o <<p>> = <<p>>
      BY <3>1, ConcatEmptySeq
    <3> QED
      BY <3>2, <1>9
  <2> QED
    BY <1>11, <2>1, <2>2
<1>13. dom \in Seq(Parts)
  <2> HIDE DEF dom, F
  <2> QED
    BY <1>2, <1>7, <1>12, PageIs
<1>14. StateIs(t, s.oldHead, s.oldTail, s.newHead + 1, s.newTail, F, s.back, s.taken, dom,
               s.oldMap, s.newMap)
  BY <1>1, <1>7, <1>13, AddOneIs
<1> HIDE DEF t, F, dom
<1>15. /\ t \in WalkStates /\ t.taken = s.taken /\ t.oldMap = s.oldMap /\ t.newMap = s.newMap
       /\ t.dom = dom /\ t.front = F /\ t.back = s.back
       /\ t.newHead = s.newHead + 1 /\ t.newTail = s.newTail
       /\ OldStays(s, t) /\ NewHeadMoves(s, t)
  BY <1>14 DEF StateIs, OldStays, NewHeadMoves
<1>16. LeftOf(t) = LeftOf(s) \ {} /\ Room(t) = Room(s) \ {y}
  BY <1>15, LeftAfter
<1>17. ~ (OldStays(s, t) /\ NewStays(s, t))
  BY <1>2, <1>15 DEF NewHeadMoves, NewStays
<1>18. KeyedParts(old, new)[y] = p
  BY <1>1, <1>3, <1>5, KeyedPart
<1>19. Found(t, old, new)
  BY <1>1, <1>15, <1>18, FrontGrows DEF F
<1>20. \A v \in 1..Len(old), w \in 1..Len(new) : old[v] = new[w] => (v \in {} <=> w \in {y})
  BY <1>5
<1>21. Page(t)
  BY <1>4, <1>8, <1>12, <1>15, <1>16 DEF Page
<1>22. Goes(s, t, old, new)
  BY <1>15, <1>16, <1>17, <1>19, <1>20, <1>21, StepIs
<1> QED
  BY <1>22 DEF t

(* The maps are made for what is left of both lists. *)
Mapped(s, m) ==
  /\ m \in WalkStates /\ m.newMap # {}
  /\ OldStays(s, m) /\ NewStays(s, m) /\ m.taken = s.taken

LEMMA MapsMade ==
  ASSUME NEW old, NEW new, NEW s, Going(s, old, new),
         s.oldHead <= s.oldTail, s.newHead <= s.newTail
  PROVE  Going(WithMaps(s), old, new) /\ Mapped(s, WithMaps(s)) /\ Rem(WithMaps(s)) = Rem(s)
<1> DEFINE m == WithMaps(s)
<1>1. /\ IsList(old) /\ IsList(new)
      /\ s \in WalkStates /\ Places(s, old, new) /\ Found(s, old, new) /\ Page(s)
      /\ Matches(s, old, new) /\ Len(old) \in Nat /\ Len(new) \in Nat
  BY GoingOn
<1>2. CASE s.newMap # {}
  <2>1. m = s
    BY <1>2 DEF WithMaps
  <2> QED
    BY <1>1, <1>2, <2>1 DEF Mapped, OldStays, NewStays
<1>3. CASE s.newMap = {}
  <2> DEFINE om == OldRange(s)
             nm == Room(s)
  <2>1. /\ s.oldHead \in Nat /\ s.oldTail \in Nat /\ s.newHead \in Nat /\ s.newTail \in Nat
    BY <1>1, StatesAre
  <2>2. om \in SUBSET Nat /\ om \subseteq 1..Len(old)
    BY <1>1, <2>1 DEF OldRange, Places, OldPlaces
  <2>3. nm \in SUBSET Nat /\ nm \subseteq 1..Len(new) /\ nm # {}
    BY <1>1, <2>1 DEF Room, Places, NewPlaces
  <2>4. m = [s EXCEPT !.oldMap = om, !.newMap = nm]
    BY <1>3 DEF WithMaps, OldRange, Room
  <2> HIDE DEF m, om, nm
  <2>5. StateIs([s EXCEPT !.oldMap = om, !.newMap = nm],
                s.oldHead, s.oldTail, s.newHead, s.newTail, s.front, s.back, s.taken, s.dom, om, nm)
    BY <1>1, <2>2, <2>3 DEF StateIs, WalkStates
  <2>6. /\ m \in WalkStates
        /\ m.oldHead = s.oldHead /\ m.oldTail = s.oldTail
        /\ m.newHead = s.newHead /\ m.newTail = s.newTail
        /\ m.front = s.front /\ m.back = s.back /\ m.taken = s.taken /\ m.dom = s.dom
        /\ m.oldMap = om /\ m.newMap = nm
    BY <2>4, <2>5 DEF StateIs
  <2>7. LeftOf(m) = LeftOf(s) /\ Room(m) = Room(s) /\ OldRange(m) = OldRange(s)
    BY <2>6 DEF LeftOf, Room, OldRange
  <2>8. Places(m, old, new) /\ Rem(m) = Rem(s)
    BY <1>1, <2>6 DEF Places, OldPlaces, NewPlaces, Rem, OldRem, NewRem
  <2>9. Found(m, old, new)
    BY <1>1, <2>6, FoundStays
  <2>10. Matches(m, old, new)
    BY <1>1, <2>7 DEF Matches
  <2>11. Maps(m, old, new)
    BY <2>2, <2>3, <2>6, <2>7 DEF Maps, om, nm, OldRange
  <2>12. Page(m)
    BY <1>1, <2>6, <2>7 DEF Page
  <2>13. Going(m, old, new)
    BY <1>1, <2>6, <2>8, <2>9, <2>10, <2>11, <2>12 DEF Going, WalkInv
  <2>14. Mapped(s, m)
    BY <2>3, <2>6 DEF Mapped, OldStays, NewStays
  <2> QED
    BY <2>8, <2>13, <2>14 DEF m
<1> QED
  BY <1>2, <1>3

(* A new key takes its old part from the middle, or gets a new one. *)
LEMMA Takes ==
  ASSUME NEW old, NEW new, NEW s, Going(s, old, new), s.newMap # {},
         s.oldHead <= s.oldTail, s.newHead <= s.newTail,
         s.oldHead \notin s.taken, old[s.oldHead] # new[s.newHead]
  PROVE  Goes(s, TakeFromMiddle(s, old, new), old, new)
<1> DEFINE t == TakeFromMiddle(s, old, new)
           y == s.newHead
           h == s.oldHead
           found == {x \in s.oldMap \ s.taken : old[x] = new[y]}
           p == IF found = {} THEN NewPart(y) ELSE OldPart(CHOOSE x \in found : TRUE)
           F == Append(s.front, p)
           dom == InsertPart(s.dom, p, OldPart(h))
           T == s.taken \cup found
<1>1. /\ IsList(old) /\ IsList(new) /\ WalkInv(s, old, new)
      /\ s \in WalkStates /\ Places(s, old, new) /\ Found(s, old, new) /\ Page(s)
      /\ Matches(s, old, new) /\ Maps(s, old, new) /\ Len(old) \in Nat /\ Len(new) \in Nat
  BY GoingOn
<1>2. /\ s.front \in Seq(Parts) /\ s.back \in Seq(Parts) /\ s.dom \in Seq(Parts) /\ y \in Nat
      /\ LeftOf(s) \in SUBSET Nat /\ s.taken \in SUBSET Nat /\ s.oldMap \in SUBSET Nat
  BY <1>1, StatesAre
<1>3. y \in 1..Len(new) /\ y \in Room(s) /\ h \in 1..Len(old)
  BY EndsAre
<1>4. found \subseteq 1..Len(old) /\ \A x \in 1..Len(old) : x \in found <=> x \in LeftOf(s) /\ old[x] = new[y]
  <2>1. s.oldMap \subseteq 1..Len(old) /\ OldRange(s) \subseteq s.oldMap
    BY <1>1 DEF Maps, OldRange
  <2>2. \A x \in 1..Len(old) : old[x] = new[y] => x \in LeftOf(s)
    BY <1>1, <1>3 DEF Matches
  <2>3. \A x \in LeftOf(s) : x \in s.oldMap \ s.taken
    BY <2>1 DEF LeftOf, OldRange
  <2> QED
    BY <2>1, <2>2, <2>3
<1>5. \A x \in 1..Len(old) : old[x] = new[y] => x \in found
  BY <1>1, <1>3, <1>4 DEF Matches
<1>6. h \in LeftOf(s) \ found /\ \A k \in LeftOf(s) : h <= k
  BY <1>1, <1>4, EndsAreLeft
<1>7. PICK M \in Seq(Parts) : s.dom = PageOf(s.front, M, s.back) /\ InOrderOf(M, LeftOf(s))
  BY <1>1 DEF Page
<1> HIDE DEF found
<1>8. PICK N \in Seq(Parts) :
        /\ p \in Parts /\ KeyedParts(old, new)[y] = p
        /\ InOrderOf(N, LeftOf(s) \ found)
        /\ WithoutPart(s.dom, p) = PageOf(s.front, N, s.back)
  <2>1. CASE found = {}
    <3>1. p = NewPart(y)
      BY <2>1
    <3>2. p \in Parts /\ NotIn(p, s.dom)
      BY <1>1, <1>3, <3>1, NewIsNotShown
    <3>3. \A x \in 1..Len(old) : old[x] # new[y]
      BY <1>5, <2>1
    <3>4. KeyedParts(old, new)[y] = p
      <4>1. KeyedParts(old, new)[y] = NewPart(y)
        BY <1>1, <1>3, <3>3, KeyedPart
      <4> QED
        BY <4>1, <3>1
    <3> HIDE DEF p
    <3>5. WithoutPart(s.dom, p) = PageOf(s.front, M, s.back)
      BY <1>2, <1>7, <3>2, PartIsNotThere
    <3>6. LeftOf(s) \ found = LeftOf(s)
      BY <2>1
    <3> QED
      BY <1>7, <3>2, <3>4, <3>5, <3>6
  <2>2. CASE found # {}
    <3> DEFINE x == CHOOSE x \in found : TRUE
    <3>1. x \in found
      BY <2>2
    <3>2. p = OldPart(x)
      BY <2>2
    <3> HIDE DEF x, p
    <3>3. x \in 1..Len(old) /\ x \in LeftOf(s) /\ old[x] = new[y]
      BY <3>1, <1>4
    <3>4. found = {x}
      <4>1. \A v \in found : old[v] = old[x] /\ v \in 1..Len(old)
        BY <1>4, <3>3
      <4> QED
        <5>1. \A v, w \in 1..Len(old) : old[v] = old[w] => v = w
          BY <1>1 DEF IsList, NoDuplicates
        <5>2. \A v \in found : v = x
          BY <3>3, <4>1, <5>1
        <5> QED
          BY <3>1, <5>2
    <3>5. p \in Parts
      BY <1>2, <3>2, <3>3, OldPartIs
    <3>6. KeyedParts(old, new)[y] = p
      BY <1>1, <1>3, <3>2, <3>3, KeyedPart
    <3>7. NotIn(p, s.front)
      BY <1>1, <3>2, <3>3, LeftIsNotShown
    <3>8. Removes(LeftOf(s), x, s.front, M, s.back)
      BY <1>2, <1>7, <3>2, <3>3, <3>7, Removed
    <3> QED
      BY <1>7, <3>2, <3>4, <3>5, <3>6, <3>8 DEF Removes
  <2> QED
    BY <2>1, <2>2
<1> HIDE DEF p
<1>9. F \in Seq(Parts)
  BY <1>2, <1>8
<1>10. dom = PageOf(F, N, s.back)
  <2> DEFINE S == LeftOf(s) \ found
  <2>1. S \in SUBSET Nat /\ h \in S /\ \A k \in S : h <= k
    BY <1>2, <1>6
  <2>2. NotIn(OldPart(h), s.front) /\ NotIn(OldPart(h), s.back)
    BY <1>1, <1>6, LeftIsNotShown
  <2>3. p \in Parts /\ InOrderOf(N, S) /\ WithoutPart(s.dom, p) = PageOf(s.front, N, s.back)
    BY <1>8
  <2>4. s.front \in Seq(Parts) /\ s.back \in Seq(Parts)
    BY <1>2
  <2> HIDE DEF S
  <2>5. IsPutBefore(s.dom, p, h, s.front, N, s.back)
    BY <2>1, <2>2, <2>3, <2>4, PutBefore
  <2> QED
    BY <2>5 DEF IsPutBefore
<1>11. dom \in Seq(Parts)
  <2> HIDE DEF dom, F
  <2> QED
    BY <1>2, <1>8, <1>9, <1>10, PageIs
<1>12. T \in SUBSET Nat
  BY <1>2, <1>4
<1>13. t = [s EXCEPT !.front = F, !.dom = dom, !.taken = T, !.newHead = @ + 1]
  BY DEF TakeFromMiddle, p, found
<1> HIDE DEF F, dom, T
<1>14. StateIs(t, s.oldHead, s.oldTail, s.newHead + 1, s.newTail, F, s.back, T, dom,
               s.oldMap, s.newMap)
  BY <1>1, <1>9, <1>11, <1>12, <1>13, TakeFromMiddleIs
<1> HIDE DEF t
<1>15. /\ t \in WalkStates /\ t.taken = T /\ t.oldMap = s.oldMap /\ t.newMap = s.newMap
       /\ t.dom = dom /\ t.front = F /\ t.back = s.back
       /\ t.newHead = s.newHead + 1 /\ t.newTail = s.newTail
       /\ t.oldHead = s.oldHead /\ t.oldTail = s.oldTail
       /\ OldStays(s, t) /\ NewHeadMoves(s, t)
  BY <1>14 DEF StateIs, OldStays, NewHeadMoves
<1>16. LeftOf(t) = LeftOf(s) \ found
  BY <1>15 DEF LeftOf, T
<1>17. Room(t) = Room(s) \ {y}
  BY <1>1, <1>15, PlacesMove
<1>18. ~ (OldStays(s, t) /\ NewStays(s, t))
  BY <1>2, <1>15 DEF NewHeadMoves, NewStays
<1>19. Found(t, old, new)
  BY <1>1, <1>8, <1>15, FrontGrows DEF F
<1>20. \A v \in 1..Len(old), w \in 1..Len(new) : old[v] = new[w] => (v \in found <=> w \in {y})
  <2> TAKE v \in 1..Len(old), w \in 1..Len(new)
  <2> HAVE old[v] = new[w]
  <2>1. v \in found => old[v] = new[y]
    BY <1>4
  <2>2. old[v] = new[y] => w = y
    BY <1>1, <1>3 DEF IsList, NoDuplicates
  <2> QED
    BY <2>1, <2>2, <1>5
<1>21. Page(t)
  BY <1>8, <1>10, <1>15, <1>16 DEF Page
<1>22. Goes(s, t, old, new)
  BY <1>15, <1>16, <1>17, <1>18, <1>19, <1>20, <1>21, StepIs
<1> QED
  BY <1>22 DEF t

(* A key that is not used again has no place in the new list. *)
LEMMA NotUsedAgain ==
  ASSUME NEW old, NEW new, NEW s, Going(s, old, new), s.newMap # {}, NEW x \in LeftOf(s),
         ~ IsUsed(s, old[x], new)
  PROVE  \A y \in 1..Len(new) : old[x] # new[y]
<1>1. WalkInv(s, old, new) /\ IsList(old) /\ IsList(new) /\ Matches(s, old, new) /\ Maps(s, old, new)
  BY GoingOn
<1>2. x \in 1..Len(old)
  BY <1>1, LeftIsNotShown
<1>3. Room(s) \subseteq s.newMap
  BY <1>1 DEF Maps
<1> QED
  BY <1>1, <1>2, <1>3 DEF Matches, IsUsed

LEMMA DropsOne ==
  ASSUME NEW old, NEW new, NEW s, Going(s, old, new),
         s.oldHead <= s.oldTail, ~ (s.newHead <= s.newTail)
  PROVE  Goes(s, DropOne(s), old, new)
<1>1. s \in WalkStates /\ Matches(s, old, new) /\ Len(new) \in Nat
  BY GoingOn
<1>2. CASE s.oldHead \in s.taken
  BY <1>2, PassesHead DEF DropOne
<1>3. CASE s.oldHead \notin s.taken
  <2>1. s.oldHead \in LeftOf(s) /\ s.oldHead \in 1..Len(old)
    BY <1>1, <1>3, EndsAreLeft, EndsAre
  <2>2. Room(s) = {}
    <3>1. s.newHead \in Nat /\ s.newTail \in Nat
      BY <1>1, StatesAre
    <3> QED
      BY <3>1 DEF Room
  <2>3. \A y \in 1..Len(new) : old[s.oldHead] # new[y]
    BY <1>1, <2>1, <2>2 DEF Matches
  <2>4. Goes(s, HeadGoes(s), old, new)
    BY <1>3, <2>3, LosesHead
  <2> QED
    BY <1>3, <2>4 DEF DropOne
<1> QED
  BY <1>2, <1>3

LEMMA RoundGoes ==
  ASSUME NEW old, NEW new, NEW s, Going(s, old, new),
         s.oldHead <= s.oldTail, s.newHead <= s.newTail
  PROVE  Goes(s, Round(s, old, new), old, new)
<1> DEFINE m == WithMaps(s)
<1>1. CASE s.oldHead \in s.taken
  BY <1>1, PassesHead DEF Round
<1>2. CASE s.oldHead \notin s.taken /\ s.oldTail \in s.taken
  BY <1>2, PassesTail DEF Round
<1>3. CASE s.oldHead \notin s.taken /\ s.oldTail \notin s.taken
  <2>1. Going(m, old, new) /\ Mapped(s, m) /\ Rem(m) = Rem(s)
    BY MapsMade
  <2>2. CASE old[s.oldHead] = new[s.newHead]
    <3>1. Goes(s, HeadIsKept(s), old, new)
      BY <1>3, <2>2, KeepsHead
    <3> QED
      BY <1>3, <2>2, <3>1 DEF Round
  <2>3. CASE old[s.oldHead] # new[s.newHead] /\ old[s.oldTail] = new[s.newTail]
    <3>1. Goes(s, TailIsKept(s), old, new)
      BY <1>3, <2>3, KeepsTail
    <3> QED
      BY <1>3, <2>3, <3>1 DEF Round
  <2>4. CASE /\ old[s.oldHead] # new[s.newHead] /\ old[s.oldTail] # new[s.newTail]
             /\ old[s.oldHead] = new[s.newTail]
    <3>1. Goes(s, HeadToTail(s), old, new)
      BY <1>3, <2>4, MovesHead
    <3> QED
      BY <1>3, <2>4, <3>1 DEF Round
  <2>5. CASE /\ old[s.oldHead] # new[s.newHead] /\ old[s.oldTail] # new[s.newTail]
             /\ old[s.oldHead] # new[s.newTail] /\ old[s.oldTail] = new[s.newHead]
    <3>1. Goes(s, TailToHead(s), old, new)
      BY <1>3, <2>5, MovesTail
    <3> QED
      BY <1>3, <2>5, <3>1 DEF Round
  <2>6. CASE /\ old[s.oldHead] # new[s.newHead] /\ old[s.oldTail] # new[s.newTail]
             /\ old[s.oldHead] # new[s.newTail] /\ old[s.oldTail] # new[s.newHead]
    <3> DEFINE r == IF ~ IsUsed(m, old[s.oldHead], new) THEN HeadGoes(m)
                    ELSE IF ~ IsUsed(m, old[s.oldTail], new) THEN TailGoes(m)
                    ELSE TakeFromMiddle(m, old, new)
    <3>1. Round(s, old, new) = r
      BY <1>3, <2>6 DEF Round
    <3> HIDE DEF m
    <3>2. /\ m \in WalkStates /\ m.newMap # {} /\ m.oldHead = s.oldHead /\ m.oldTail = s.oldTail
          /\ m.newHead = s.newHead /\ m.newTail = s.newTail /\ m.taken = s.taken
      BY <2>1 DEF Mapped, OldStays, NewStays
    <3>3. m.oldHead \in LeftOf(m) /\ m.oldTail \in LeftOf(m)
      BY <1>3, <3>2, EndsAreLeft
    <3>4. Goes(m, r, old, new)
      <4>1. CASE ~ IsUsed(m, old[s.oldHead], new)
        <5>1. \A y \in 1..Len(new) : old[m.oldHead] # new[y]
          BY <2>1, <3>2, <3>3, <4>1, NotUsedAgain
        <5>2. Goes(m, HeadGoes(m), old, new)
          BY <1>3, <2>1, <3>2, <5>1, LosesHead
        <5> QED
          BY <4>1, <5>2
      <4>2. CASE IsUsed(m, old[s.oldHead], new) /\ ~ IsUsed(m, old[s.oldTail], new)
        <5>1. \A y \in 1..Len(new) : old[m.oldTail] # new[y]
          BY <2>1, <3>2, <3>3, <4>2, NotUsedAgain
        <5>2. Goes(m, TailGoes(m), old, new)
          BY <1>3, <2>1, <3>2, <5>1, LosesTail
        <5> QED
          BY <4>2, <5>2
      <4>3. CASE IsUsed(m, old[s.oldHead], new) /\ IsUsed(m, old[s.oldTail], new)
        <5>1. Goes(m, TakeFromMiddle(m, old, new), old, new)
          BY <1>3, <2>1, <2>6, <3>2, Takes
        <5> QED
          BY <4>3, <5>1
      <4> QED
        BY <4>1, <4>2, <4>3
    <3> HIDE DEF r
    <3>5. Goes(s, r, old, new)
      BY <2>1, <3>4 DEF Goes
    <3> QED
      BY <3>1, <3>5
  <2> QED
    BY <2>2, <2>3, <2>4, <2>5, <2>6
<1> QED
  BY <1>1, <1>2, <1>3

LEMMA WalkGoes ==
  ASSUME NEW old, NEW new, NEW s, Going(s, old, new),
         s.oldHead <= s.oldTail \/ s.newHead <= s.newTail
  PROVE  Goes(s, WalkStep(s, old, new), old, new)
<1>1. CASE s.oldHead <= s.oldTail /\ s.newHead <= s.newTail
  BY <1>1, RoundGoes DEF WalkStep
<1>2. CASE ~ (s.oldHead <= s.oldTail) /\ s.newHead <= s.newTail
  BY <1>2, Adds DEF WalkStep
<1>3. CASE s.oldHead <= s.oldTail /\ ~ (s.newHead <= s.newTail)
  BY <1>3, DropsOne DEF WalkStep
<1> QED
  BY <1>1, <1>2, <1>3

-----------------------------------------------------------------------------
(* The walk as a whole *)

(* A function of Nat is made from its first value and a step. *)
Follows(f, a, g, n) == f[0] = a /\ \A k \in 1..n : f[k] = g[f[k - 1]]

LEMMA OneFollows ==
  ASSUME NEW a, NEW g, NEW n \in Nat
  PROVE  \E f : Follows(f, a, g, n)
<1> DEFINE S == {k \in Nat : ~ \E f : Follows(f, a, g, k)}
<1>1. S = {}
  <2> SUFFICES ASSUME S # {} PROVE FALSE
    OBVIOUS
  <2>1. PICK k \in S : \A j \in S : k <= j
    BY Smallest
  <2>2. k \in Nat /\ ~ \E f : Follows(f, a, g, k)
    OBVIOUS
  <2>3. CASE k = 0
    <3>1. Follows([j \in {0} |-> a], a, g, 0)
      BY DEF Follows
    <3> QED
      BY <2>2, <2>3, <3>1
  <2>4. CASE k # 0
    <3>1. k - 1 \in Nat /\ k - 1 < k
      BY <2>2, <2>4
    <3>2. k - 1 \notin S
      <4> SUFFICES ASSUME k - 1 \in S PROVE FALSE
        OBVIOUS
      <4>1. k <= k - 1
        BY <2>1
      <4> QED
        BY <4>1, <2>2
    <3>3. PICK f : Follows(f, a, g, k - 1)
      BY <3>1, <3>2
    <3> DEFINE h == [j \in 0..k |-> IF j = k THEN g[f[k - 1]] ELSE f[j]]
    <3>4. h[0] = a
      BY <2>2, <2>4, <3>3 DEF Follows
    <3>5. ASSUME NEW j \in 1..k PROVE h[j] = g[h[j - 1]]
      <4>1. j \in 0..k /\ j - 1 \in 0..k /\ j - 1 # k
        BY <2>2
      <4>2. h[j - 1] = f[j - 1]
        BY <4>1
      <4>3. CASE j = k
        <5>1. h[j] = g[f[k - 1]]
          BY <4>1, <4>3
        <5> QED
          BY <5>1, <4>2, <4>3
      <4>4. CASE j # k
        <5>1. j \in 1..(k - 1)
          BY <2>2, <4>4
        <5>2. h[j] = f[j]
          BY <4>1, <4>4
        <5>3. f[j] = g[f[j - 1]]
          BY <3>3, <5>1 DEF Follows
        <5> QED
          BY <5>2, <5>3, <4>2
      <4> QED
        BY <4>3, <4>4
    <3> HIDE DEF h
    <3>6. Follows(h, a, g, k)
      BY <3>4, <3>5 DEF Follows
    <3> QED
      BY <2>2, <3>6
  <2> QED
    BY <2>3, <2>4
<1> QED
  BY <1>1

LEMMA SameFollows ==
  ASSUME NEW a, NEW g, NEW m \in Nat, NEW n \in Nat, m <= n,
         NEW f, NEW h, Follows(f, a, g, m), Follows(h, a, g, n)
  PROVE  f[m] = h[m]
<1> DEFINE S == {k \in Nat : k <= m /\ f[k] # h[k]}
<1>1. S = {}
  <2> SUFFICES ASSUME S # {} PROVE FALSE
    OBVIOUS
  <2>1. PICK k \in S : \A j \in S : k <= j
    BY Smallest
  <2>2. k \in Nat /\ k <= m /\ f[k] # h[k]
    OBVIOUS
  <2>3. k # 0
    BY <2>2 DEF Follows
  <2>4. k \in 1..m /\ k \in 1..n /\ k - 1 \in Nat /\ k - 1 <= m /\ ~ (k <= k - 1)
    BY <2>2, <2>3
  <2>5. f[k - 1] = h[k - 1]
    BY <2>1, <2>4
  <2>6. f[k] = g[f[k - 1]] /\ h[k] = g[h[k - 1]]
    BY <2>4 DEF Follows
  <2> QED
    BY <2>2, <2>5, <2>6
<1> QED
  BY <1>1

IsRecursive(f, a, g) == f = [n \in Nat |-> IF n = 0 THEN a ELSE g[f[n - 1]]]

LEMMA RecursiveOne ==
  ASSUME NEW a, NEW g
  PROVE  \E f : IsRecursive(f, a, g)
<1> DEFINE c(n) == CHOOSE f : Follows(f, a, g, n)
           F == [n \in Nat |-> c(n)[n]]
<1>1. \A n \in Nat : Follows(c(n), a, g, n)
  BY OneFollows
<1>2. ASSUME NEW n \in Nat PROVE F[n] = IF n = 0 THEN a ELSE g[F[n - 1]]
  <2>1. F[n] = c(n)[n]
    OBVIOUS
  <2>2. CASE n = 0
    BY <1>1, <2>1, <2>2 DEF Follows
  <2>3. CASE n # 0
    <3>1. n - 1 \in Nat /\ n - 1 <= n /\ n \in 1..n
      BY <2>3
    <3>2. F[n - 1] = c(n - 1)[n - 1]
      BY <3>1
    <3>3. Follows(c(n), a, g, n) /\ Follows(c(n - 1), a, g, n - 1)
      BY <1>1, <3>1
    <3> HIDE DEF c, F
    <3>4. c(n - 1)[n - 1] = c(n)[n - 1]
      BY <3>1, <3>3, SameFollows
    <3>5. c(n)[n] = g[c(n)[n - 1]]
      BY <3>1, <3>3 DEF Follows
    <3> QED
      BY <2>1, <2>3, <3>2, <3>4, <3>5
  <2> QED
    BY <2>2, <2>3
<1>3. F = [n \in Nat |-> F[n]]
  OBVIOUS
<1> HIDE DEF F
<1>4. [n \in Nat |-> F[n]] = [n \in Nat |-> IF n = 0 THEN a ELSE g[F[n - 1]]]
  BY <1>2
<1>5. IsRecursive(F, a, g)
  BY <1>3, <1>4 DEF IsRecursive
<1> QED
  BY <1>5

LEMMA WalkIs ==
  ASSUME NEW old, NEW new
  PROVE  LET walk == WalkFrom(old, new) IN
         /\ walk[0] = StartOf(old, new)
         /\ \A n \in Nat : walk[n] \in WalkStates => walk[n + 1] = WalkStep(walk[n], old, new)
<1> DEFINE walk == WalkFrom(old, new)
           a == StartOf(old, new)
           g == [s \in WalkStates |-> WalkStep(s, old, new)]
<1>1. walk = CHOOSE f : IsRecursive(f, a, g)
  BY DEF WalkFrom, IsRecursive
<1> HIDE DEF walk, a
<1>2. \A s \in WalkStates : g[s] = WalkStep(s, old, new)
  OBVIOUS
<1> HIDE DEF g
<1>3. IsRecursive(walk, a, g)
  BY <1>1, RecursiveOne
<1>4. \A n \in Nat : walk[n] = IF n = 0 THEN a ELSE g[walk[n - 1]]
  BY <1>3 DEF IsRecursive
<1>5. walk[0] = a
  BY <1>4
<1>6. ASSUME NEW n \in Nat, walk[n] \in WalkStates PROVE walk[n + 1] = WalkStep(walk[n], old, new)
  <2>1. n + 1 \in Nat /\ n + 1 # 0 /\ (n + 1) - 1 = n
    OBVIOUS
  <2>2. walk[n + 1] = g[walk[n]]
    BY <1>4, <2>1
  <2> QED
    BY <1>2, <1>6, <2>2
<1> QED
  BY <1>5, <1>6 DEF walk, a

-----------------------------------------------------------------------------
(* Where the walk starts *)

(* A function of 1..n is a sequence of that length. *)
LEMMA FirstPlaces ==
  ASSUME NEW n \in Nat, NEW S, NEW f \in [1..n -> S]
  PROVE  f \in Seq(S) /\ Len(f) = n /\ DOMAIN f = 1..n
<1>1. f \in Seq(S)
  OBVIOUS
<1>2. Len(f) \in Nat /\ 1..n = 1..Len(f)
  BY <1>1, LenProperties
<1>3. PICK l \in Nat : l = Len(f)
  BY <1>2
<1>4. \A k \in Int : k \in 1..n <=> k \in 1..l
  BY <1>2, <1>3
<1>5. ASSUME l < n PROVE FALSE
  BY <1>4, <1>5
<1>6. ASSUME n < l PROVE FALSE
  BY <1>4, <1>6
<1>7. l = n
  BY <1>5, <1>6
<1> QED
  BY <1>1, <1>3, <1>7

LEMMA StartIs ==
  ASSUME NEW old, NEW new, IsList(old), IsList(new)
  PROVE  \E M \in Seq(Parts) :
           /\ M = [x \in DOMAIN old |-> OldPart(x)]
           /\ DOMAIN M = 1..Len(old)
           /\ \A x \in 1..Len(old) : M[x] = OldPart(x)
           /\ StateIs(StartOf(old, new), 1, Len(old), 1, Len(new), <<>>, <<>>, {}, M, {}, {})
<1> DEFINE m == Len(old)
           M == [x \in 1..m |-> OldPart(x)]
           none == <<>>
<1>1. m \in Nat /\ Len(new) \in Nat /\ DOMAIN old = 1..m
  BY DEF IsList
<1>2. \A x \in 1..m : OldPart(x) \in Parts
  BY OldPartIs, <1>1
<1>3. M \in Seq(Parts) /\ DOMAIN M = 1..m
  BY <1>1, <1>2, FirstPlaces
<1>4. none \in Seq(Parts)
  OBVIOUS
<1>5. 1 \in Nat /\ {} \in SUBSET Nat
  OBVIOUS
<1>6. StartOf(old, new) =
        [oldHead |-> 1, oldTail |-> m, newHead |-> 1, newTail |-> Len(new),
         front |-> none, back |-> none, taken |-> {}, dom |-> M, oldMap |-> {}, newMap |-> {}]
  BY <1>1 DEF StartOf
<1>7. \A x \in 1..m : M[x] = OldPart(x)
  OBVIOUS
<1>8. M = [x \in DOMAIN old |-> OldPart(x)]
  BY <1>1
<1> HIDE DEF m, M, none
<1>9. StateIs(StartOf(old, new), 1, m, 1, Len(new), none, none, {}, M, {}, {})
  BY <1>1, <1>3, <1>4, <1>5, <1>6 DEF StateIs, WalkStates
<1>10. StateIs(StartOf(old, new), 1, m, 1, Len(new), <<>>, <<>>, {}, M, {}, {})
  BY <1>9 DEF none
<1> QED
  BY <1>3, <1>7, <1>8, <1>10 DEF m

LEMMA EmptyEnds ==
  ASSUME NEW M \in Seq(Parts)
  PROVE  PageOf(<<>>, M, <<>>) = M
<1>1. <<>> \o M = M
  OBVIOUS
<1>2. M \o <<>> = M
  OBVIOUS
<1> QED
  BY <1>1, <1>2 DEF PageOf

LEMMA StartGoes ==
  ASSUME NEW old, NEW new, IsList(old), IsList(new)
  PROVE  /\ Going(StartOf(old, new), old, new)
         /\ Rem(StartOf(old, new)) = Len(old) + Len(new)
<1> DEFINE m == Len(old)
           n == Len(new)
           none == <<>>
<1>1. m \in Nat /\ n \in Nat
  BY DEF IsList
<1>2. PICK M \in Seq(Parts) :
        /\ DOMAIN M = 1..m /\ \A x \in 1..m : M[x] = OldPart(x)
        /\ StateIs(StartOf(old, new), 1, m, 1, n, none, none, {}, M, {}, {})
  BY StartIs
<1>3. PICK s : s = StartOf(old, new)
  OBVIOUS
<1>4. PageOf(none, M, none) = M /\ Len(none) = 0
  BY EmptyEnds
<1> HIDE DEF m, n, none
<1>5. /\ s \in WalkStates /\ s.oldHead = 1 /\ s.oldTail = m /\ s.newHead = 1 /\ s.newTail = n
      /\ s.front = none /\ s.back = none /\ s.taken = {} /\ s.dom = M
      /\ s.oldMap = {} /\ s.newMap = {}
  BY <1>2, <1>3 DEF StateIs
<1>6. LeftOf(s) = 1..m /\ Room(s) = 1..n
  BY <1>5 DEF LeftOf, Room
<1>7. Places(s, old, new)
  <2>1. 1 \in 1..(m + 1) /\ m \in 0..m /\ 1 <= m + 1 /\ 1 \in 1..(n + 1) /\ n \in 0..n /\ 1 <= n + 1
    BY <1>1
  <2> QED
    BY <1>5, <2>1 DEF Places, OldPlaces, NewPlaces, m, n
<1>8. Found(s, old, new)
  <2>1. 1 - 1 = 0 /\ n - n = 0 /\ 1..(1 - 1) = {} /\ (n + 1)..n = {}
    BY <1>1
  <2>2. Found(s, old, new) <=>
          /\ Len(none) = 1 - 1
          /\ \A y \in 1..(1 - 1) : none[y] = KeyedParts(old, new)[y]
          /\ Len(none) = n - n
          /\ \A y \in (n + 1)..n : none[y - n] = KeyedParts(old, new)[y]
    BY <1>5 DEF Found, n
  <2> QED
    BY <2>1, <2>2, <1>4
<1>9. Matches(s, old, new)
  BY <1>6 DEF Matches, m, n
<1>10. Maps(s, old, new)
  BY <1>5 DEF Maps
<1>11. InOrderOf(M, 1..m)
  <2>1. \A x \in 1..m : M[x][2] = x
    BY <1>1, <1>2, OldPartIs
  <2> QED
    BY <1>1, <1>2, <2>1 DEF InOrderOf
<1>12. Page(s)
  BY <1>4, <1>5, <1>6, <1>11 DEF Page
<1>13. Going(s, old, new)
  BY <1>5, <1>7, <1>8, <1>9, <1>10, <1>12 DEF Going, WalkInv
<1>14. Rem(s) = m + n
  <2>1. (m - 1) + 1 + ((n - 1) + 1) = m + n
    BY <1>1
  <2> QED
    BY <2>1, <1>5 DEF Rem, OldRem, NewRem
<1> QED
  BY <1>3, <1>13, <1>14 DEF m, n

(* How far it has come *)
Reached(s, n, k) == Rem(s) <= n - k \/ Rem(s) = 0

LEMMA OneFurther ==
  ASSUME NEW n \in Nat, NEW k \in Nat, NEW a \in Nat, NEW b \in Nat, b < a, a <= n - k
  PROVE  b <= n - (k + 1)
OBVIOUS

LEMMA RemIs ==
  ASSUME NEW old, NEW new, NEW s, Going(s, old, new)
  PROVE  /\ Rem(s) \in Nat
         /\ s.oldHead <= s.oldTail \/ s.newHead <= s.newTail <=> Rem(s) # 0
         /\ Rem(s) = 0 => s.oldHead = s.oldTail + 1 /\ s.newHead = s.newTail + 1
<1>1. Places(s, old, new) /\ s \in WalkStates
  BY GoingOn
<1>2. s.oldHead \in Nat /\ s.oldTail \in Nat /\ s.newHead \in Nat /\ s.newTail \in Nat
  BY <1>1, StatesAre
<1>3. s.oldHead <= s.oldTail + 1 /\ s.newHead <= s.newTail + 1
  BY <1>1 DEF Places, OldPlaces, NewPlaces
<1> QED
  BY <1>2, <1>3 DEF Rem, OldRem, NewRem

LEMMA GoesOn ==
  ASSUME NEW old, NEW new, NEW s, Going(s, old, new), NEW n \in Nat, NEW k \in Nat, Reached(s, n, k)
  PROVE  Going(WalkStep(s, old, new), old, new) /\ Reached(WalkStep(s, old, new), n, k + 1)
<1> DEFINE t == WalkStep(s, old, new)
<1>1. CASE Rem(s) = 0
  <2>1. ~ (s.oldHead <= s.oldTail) /\ ~ (s.newHead <= s.newTail)
    BY <1>1, RemIs
  <2>2. t = s
    BY <2>1 DEF WalkStep
  <2> QED
    BY <1>1, <2>2 DEF Reached
<1>2. CASE Rem(s) # 0
  <2>1. s.oldHead <= s.oldTail \/ s.newHead <= s.newTail
    BY <1>2, RemIs
  <2>2. Goes(s, t, old, new)
    BY <2>1, WalkGoes
  <2> HIDE DEF t
  <2>3. Going(t, old, new)
    BY <2>2 DEF Going, Goes
  <2>4. Rem(s) \in Nat /\ Rem(t) \in Nat
    BY <2>3, RemIs
  <2>5. Rem(t) < Rem(s) /\ Rem(s) <= n - k
    BY <1>2, <2>2 DEF Goes, Reached
  <2>6. Rem(t) <= n - (k + 1)
    BY <2>4, <2>5, OneFurther
  <2>7. Going(t, old, new) /\ Reached(t, n, k + 1)
    BY <2>3, <2>6 DEF Reached
  <2> QED
    BY <2>7 DEF t
<1> QED
  BY <1>1, <1>2

(* Every state of the walk is as WalkInv says, and the walk is over after  *)
(* as many steps as both lists have places.                                *)
LEMMA WalkIsOver ==
  ASSUME NEW old, NEW new, IsList(old), IsList(new)
  PROVE  LET last == WalkFrom(old, new)[Len(old) + Len(new)] IN
         Going(last, old, new) /\ Rem(last) = 0
<1> DEFINE walk == WalkFrom(old, new)
           n == Len(old) + Len(new)
           Good(k) == Going(walk[k], old, new) /\ Reached(walk[k], n, k)
           S == {k \in Nat : ~ Good(k)}
<1>1. n \in Nat
  BY DEF IsList
<1>2. walk[0] = StartOf(old, new)
  BY WalkIs
<1>3. \A k \in Nat : walk[k] \in WalkStates => walk[k + 1] = WalkStep(walk[k], old, new)
  BY WalkIs
<1>4. Good(0)
  <2>1. Going(walk[0], old, new) /\ Rem(walk[0]) = n
    BY <1>2, StartGoes
  <2> HIDE DEF n, walk
  <2>2. n <= n - 0
    BY <1>1
  <2> QED
    BY <2>1, <2>2 DEF Reached
<1>5. ASSUME NEW k \in Nat, Good(k) PROVE Good(k + 1)
  <2> HIDE DEF n, walk
  <2>1. walk[k] \in WalkStates
    BY <1>5, GoingOn
  <2>2. walk[k + 1] = WalkStep(walk[k], old, new)
    BY <1>3, <2>1
  <2>3. Going(WalkStep(walk[k], old, new), old, new) /\ Reached(WalkStep(walk[k], old, new), n, k + 1)
    BY <1>1, <1>5, GoesOn
  <2> QED
    BY <2>2, <2>3
<1> HIDE DEF Good
<1>6. S = {}
  <2> SUFFICES ASSUME S # {} PROVE FALSE
    OBVIOUS
  <2>1. PICK k \in S : \A j \in S : k <= j
    BY Smallest
  <2>2. k \in Nat /\ ~ Good(k) /\ k # 0
    BY <1>4
  <2>3. k - 1 \in Nat /\ (k - 1) + 1 = k /\ ~ (k <= k - 1)
    BY <2>2
  <2>4. Good(k - 1)
    BY <2>1, <2>3
  <2>5. Good((k - 1) + 1)
    BY <1>5, <2>3, <2>4
  <2> QED
    BY <2>2, <2>3, <2>5
<1>7. Good(n)
  BY <1>1, <1>6
<1>8. Going(walk[n], old, new) /\ Reached(walk[n], n, n)
  BY <1>7 DEF Good
<1> HIDE DEF n, walk
<1>9. Rem(walk[n]) = 0
  <2>1. Rem(walk[n]) \in Nat
    BY <1>8, RemIs
  <2>2. Rem(walk[n]) <= n - n \/ Rem(walk[n]) = 0
    BY <1>8 DEF Reached
  <2> QED
    BY <1>1, <2>1, <2>2
<1> QED
  BY <1>8, <1>9 DEF n, walk

-----------------------------------------------------------------------------
(* What repeat returns *)

LEMMA NothingBetween ==
  ASSUME NEW M \in Seq(Parts), InOrderOf(M, {})
  PROVE  M = <<>>
<1>1. Len(M) \in Nat /\ DOMAIN M = 1..Len(M)
  OBVIOUS
<1>2. \A i \in DOMAIN M : FALSE
  BY DEF InOrderOf
<1>3. ~ (1 \in 1..Len(M))
  BY <1>1, <1>2
<1>4. Len(M) = 0
  BY <1>1, <1>3
<1> QED
  BY <1>4

Joins(F, G, K) == F \o G = K

(* The parts found for the first places and the ones for the last are all. *)
LEMMA BothHalves ==
  ASSUME NEW n \in Nat, NEW u \in 0..n, NEW F \in Seq(Parts), NEW G \in Seq(Parts),
         NEW K \in Seq(Parts), Len(K) = n, Len(F) = u, Len(G) = n - u,
         \A y \in 1..u : F[y] = K[y],
         \A y \in (u + 1)..n : G[y - u] = K[y]
  PROVE  Joins(F, G, K)
<1> DEFINE D == F \o G
<1>1. /\ D \in Seq(Parts) /\ Len(D) = Len(F) + Len(G)
      /\ \A i \in 1..(Len(F) + Len(G)) : D[i] = IF i <= Len(F) THEN F[i] ELSE G[i - Len(F)]
  BY ConcatProperties
<1> HIDE DEF D
<1>2. Len(F) + Len(G) = n /\ u \in Nat
  OBVIOUS
<1>3. Len(D) = n
  BY <1>1, <1>2
<1>4. ASSUME NEW i \in 1..n PROVE D[i] = K[i]
  <2>1. D[i] = IF i <= u THEN F[i] ELSE G[i - u]
    BY <1>1, <1>2
  <2>2. CASE i <= u
    <3>1. i \in 1..u
      BY <2>2, <1>2
    <3> QED
      BY <2>1, <2>2, <3>1
  <2>3. CASE ~ (i <= u)
    <3>1. i \in (u + 1)..n
      BY <2>3, <1>2
    <3> QED
      BY <2>1, <2>3, <3>1
  <2> QED
    BY <2>2, <2>3
<1>5. D = K
  BY <1>1, <1>3, <1>4, SeqEqual
<1> QED
  BY <1>5 DEF D, Joins

LEMMA KeyedPartsAre ==
  ASSUME NEW old, NEW new, IsList(old), IsList(new)
  PROVE  KeyedParts(old, new) \in Seq(Parts) /\ Len(KeyedParts(old, new)) = Len(new)
         /\ DOMAIN KeyedParts(old, new) = 1..Len(new)
<1> DEFINE K == KeyedParts(old, new)
           n == Len(new)
<1>1. n \in Nat /\ DOMAIN new = 1..n
  BY DEF IsList
<1>2. \A y \in 1..n : K[y] \in Parts
  BY KeyedPartIs
<1>3. K = [y \in 1..n |-> K[y]]
  BY <1>1 DEF KeyedParts
<1> HIDE DEF K, n
<1>4. K \in [1..n -> Parts]
  BY <1>2, <1>3
<1>5. K \in Seq(Parts) /\ Len(K) = n /\ DOMAIN K = 1..n
  BY <1>1, <1>4, FirstPlaces
<1> QED
  BY <1>5 DEF K, n

(* The directive repeat (agent.js:650-680), for any two lists without      *)
(* duplicates: a key that stays keeps the nodes it has, a key that comes   *)
(* gets new ones, the nodes of a key that goes leave the page, and the     *)
(* page shows them in the order of the new list.                           *)
THEOREM RepeatIsKeyed ==
  ASSUME NEW old, NEW new, IsList(old), IsList(new)
  PROVE  /\ Repeat(old, new).parts = KeyedParts(old, new)
         /\ Repeat(old, new).dom = KeyedParts(old, new)
<1> DEFINE K == KeyedParts(old, new)
           n == Len(new)
<1>1. PICK s : s = WalkFrom(old, new)[Len(old) + Len(new)]
  OBVIOUS
<1>2. Going(s, old, new) /\ Rem(s) = 0
  BY <1>1, WalkIsOver
<1>3. s \in WalkStates /\ Found(s, old, new) /\ Page(s) /\ Places(s, old, new)
  BY <1>2, GoingOn
<1>4. n \in Nat /\ K \in Seq(Parts) /\ Len(K) = n
  BY KeyedPartsAre DEF IsList
<1>5. /\ s.front \in Seq(Parts) /\ s.back \in Seq(Parts)
      /\ s.oldHead \in Nat /\ s.oldTail \in Nat /\ s.newHead \in Nat /\ s.newTail \in Nat
  BY <1>3, StatesAre
<1>6. s.oldHead = s.oldTail + 1 /\ s.newHead = s.newTail + 1
  BY <1>2, RemIs
<1> HIDE DEF K, n
<1>7. s.newTail \in 0..n /\ s.newHead - 1 = s.newTail
  BY <1>3, <1>5, <1>6 DEF Places, NewPlaces, n
<1>8. /\ Len(s.front) = s.newTail /\ Len(s.back) = n - s.newTail
      /\ \A y \in 1..s.newTail : s.front[y] = K[y]
      /\ \A y \in (s.newTail + 1)..n : s.back[y - s.newTail] = K[y]
  BY <1>3, <1>7 DEF Found, K, n
<1>9. s.front \o s.back = K
  <2>1. PICK u \in 0..n : u = s.newTail
    BY <1>7
  <2>2. PICK F \in Seq(Parts) : F = s.front
    BY <1>5
  <2>3. PICK G \in Seq(Parts) : G = s.back
    BY <1>5
  <2>4. /\ Len(F) = u /\ Len(G) = n - u
        /\ \A y \in 1..u : F[y] = K[y]
        /\ \A y \in (u + 1)..n : G[y - u] = K[y]
    BY <1>8, <2>1, <2>2, <2>3
  <2>5. Joins(F, G, K)
    BY <1>4, <2>4, BothHalves
  <2> QED
    BY <2>2, <2>3, <2>5 DEF Joins
<1>10. LeftOf(s) = {}
  <2>1. s.oldHead..s.oldTail = {}
    BY <1>5, <1>6
  <2> QED
    BY <2>1 DEF LeftOf
<1>11. PICK M \in Seq(Parts) : s.dom = PageOf(s.front, M, s.back) /\ InOrderOf(M, LeftOf(s))
  BY <1>3 DEF Page
<1>12. M = <<>>
  BY <1>10, <1>11, NothingBetween
<1>13. s.front \o <<>> = s.front
  BY <1>5
<1>14. s.dom = K
  BY <1>9, <1>11, <1>12, <1>13 DEF PageOf
<1>15. Repeat(old, new) = [parts |-> s.front \o s.back, dom |-> s.dom]
  BY <1>1 DEF Repeat
<1> QED
  BY <1>9, <1>14, <1>15 DEF K

(* The rows that an update makes *)
RowIs(row, rows, old, new, y, v, flags) ==
  /\ \A x \in 1..Len(old) : old[x] = new[y] => row = SetValue(rows[x], v, flags)
  /\ (\A x \in 1..Len(old) : old[x] # new[y]) => row = NewRow(new[y], v, flags)

RowsAre(r, rows, old, new, values, flags) ==
  /\ Len(r) = Len(new) /\ DOMAIN r = 1..Len(new)
  /\ \A y \in 1..Len(new) : RowIs(r[y], rows, old, new, y, values[y], flags[y])

LEMMA PlaceOfKey ==
  ASSUME NEW keys, IsList(keys), NEW y \in 1..Len(keys), NEW k, keys[y] = k
  PROVE  (CHOOSE z \in DOMAIN keys : keys[z] = k) = y
<1>1. y \in DOMAIN keys /\ \A z \in DOMAIN keys : keys[z] = keys[y] => z = y
  BY DEF IsList, NoDuplicates
<1> QED
  BY <1>1

LEMMA RowsAreUpdated ==
  ASSUME NEW rows, NEW old, NEW new, NEW values, NEW flags, IsList(old), IsList(new)
  PROVE  RowsAre(UpdateRows(rows, old, new, values, flags), rows, old, new, values, flags)
<1> DEFINE placeOf(x) == CHOOSE y \in DOMAIN new : new[y] = old[x]
           rowOf(p) == IF p[1] = "old"
                       THEN SetValue(rows[p[2]], values[placeOf(p[2])], flags[placeOf(p[2])])
                       ELSE NewRow(new[p[2]], values[p[2]], flags[p[2]])
           rowsOf == [dom \in Seq(Parts) |-> [i \in DOMAIN dom |-> rowOf(dom[i])]]
           K == KeyedParts(old, new)
           r == UpdateRows(rows, old, new, values, flags)
<1>1. r = rowsOf[Repeat(old, new).dom]
  BY DEF UpdateRows
<1>2. K \in Seq(Parts) /\ DOMAIN K = 1..Len(new)
  BY KeyedPartsAre
<1>3. r = rowsOf[K]
  <2> HIDE DEF rowsOf, r
  <2>1. Repeat(old, new).dom = K
    BY RepeatIsKeyed
  <2> QED
    BY <1>1, <2>1
<1>4. \A y \in 1..Len(new), x \in 1..Len(old) : old[x] = new[y] => K[y] = OldPart(x)
  BY KeyedPart
<1>5. \A y \in 1..Len(new) : (\A x \in 1..Len(old) : old[x] # new[y]) => K[y] = NewPart(y)
  BY KeyedPart
<1>6. ASSUME NEW y \in 1..Len(new), NEW x, old[x] = new[y] PROVE placeOf(x) = y
  <2>1. PICK k : k = old[x]
    OBVIOUS
  <2>2. (CHOOSE z \in DOMAIN new : new[z] = k) = y
    BY <1>6, <2>1, PlaceOfKey
  <2> QED
    BY <2>1, <2>2
<1> HIDE DEF K, r, placeOf
<1>7. /\ Len(r) = Len(new) /\ DOMAIN r = 1..Len(new)
      /\ \A y \in 1..Len(new) : r[y] = rowOf(K[y])
  <2> HIDE DEF rowOf
  <2>1. r = [i \in 1..Len(new) |-> rowOf(K[i])]
    BY <1>2, <1>3
  <2> DEFINE S == {rowOf(K[i]) : i \in 1..Len(new)}
  <2>2. r \in [1..Len(new) -> S] /\ Len(new) \in Nat
    BY <2>1 DEF IsList
  <2> HIDE DEF S
  <2>3. Len(r) = Len(new) /\ DOMAIN r = 1..Len(new)
    BY <2>2, FirstPlaces
  <2> QED
    BY <2>1, <2>3
<1>8. ASSUME NEW y \in 1..Len(new) PROVE RowIs(r[y], rows, old, new, y, values[y], flags[y])
  <2>1. ASSUME NEW x \in 1..Len(old), old[x] = new[y]
        PROVE  r[y] = SetValue(rows[x], values[y], flags[y])
    <3>1. K[y] = <<"old", x>>
      BY <1>4, <2>1 DEF OldPart
    <3>2. K[y][1] = "old" /\ K[y][2] = x
      BY <3>1
    <3>3. placeOf(x) = y
      BY <1>6, <2>1
    <3> QED
      BY <1>7, <3>2, <3>3
  <2>2. ASSUME \A x \in 1..Len(old) : old[x] # new[y]
        PROVE  r[y] = NewRow(new[y], values[y], flags[y])
    <3>1. K[y] = <<"new", y>>
      BY <1>5, <2>2 DEF NewPart
    <3>2. K[y][1] # "old" /\ K[y][2] = y
      BY <3>1
    <3> QED
      BY <1>7, <3>2
  <2> QED
    BY <2>1, <2>2 DEF RowIs
<1>9. RowsAre(r, rows, old, new, values, flags)
  BY <1>7, <1>8 DEF RowsAre
<1> QED
  BY <1>9 DEF r

-----------------------------------------------------------------------------
(* What the handlers keep of the bubbles *)

(* The draft is a text that no turn was begun with, and only turns that    *)
(* were shown can be cleared.                                              *)
ElementInv ==
  /\ ElementTypeOK
  /\ abortStream \in Turns \cup {None}
  /\ draft # None => draft \notin HostTexts /\ pc[draft] = "new"
  /\ \A t \in cleared : pc[t] \in {"stream", "over"}
  /\ ClearedStaysCleared

-----------------------------------------------------------------------------
(* The operators on the list of bubbles *)

LEMMA MinIsMember ==
  ASSUME NEW S \in SUBSET Nat, S # {}
  PROVE  Min(S) \in S
<1>1. PICK n \in S : \A m \in S : n =< m
  BY Smallest
<1> QED
  BY <1>1 DEF Min

(* RemoveFirstMatch, here: there is no answer of t, or the one at k goes.  *)
NoAnswer(t) == WithoutAnswer(t) = messages /\ \A i \in 1..Len(messages) : ~ Answers(messages[i], t)

TakenAt(t, k) ==
  /\ k \in 1..Len(messages) /\ Answers(messages[k], t)
  /\ WithoutAnswer(t) \in Seq(Bubbles) /\ Len(WithoutAnswer(t)) = Len(messages) - 1
  /\ \A i \in 1..Len(messages) - 1 :
       WithoutAnswer(t)[i] = IF i < k THEN messages[i] ELSE messages[i + 1]

LEMMA AnswerIsTaken ==
  ASSUME messages \in Seq(Bubbles), NEW t
  PROVE  NoAnswer(t) \/ \E k : TakenAt(t, k)
<1> DEFINE places == {i \in 1..Len(messages) : Answers(messages[i], t)}
           k == Min(places)
<1>1. CASE places = {}
  <2>1. \A i \in 1..Len(messages) : ~ Answers(messages[i], t)
    BY <1>1
  <2>2. WithoutAnswer(t) = messages
    BY <2>1 DEF WithoutAnswer, RemoveFirstMatch
  <2> QED
    BY <2>1, <2>2 DEF NoAnswer
<1>2. CASE places # {}
  <2>1. k \in places
    BY <1>2, MinIsMember, SMTT(30)
  <2>2. WithoutAnswer(t) = SubSeq(messages, 1, k - 1) \o SubSeq(messages, k + 1, Len(messages))
    <3>1. SelectInSeq(messages, LAMBDA b : Answers(b, t)) = k
      BY <1>2 DEF SelectInSeq
    <3>2. \E i \in 1..Len(messages) : Answers(messages[i], t)
      BY <1>2
    <3> QED
      BY <3>1, <3>2 DEF WithoutAnswer, RemoveFirstMatch, RemoveAt
  <2> DEFINE rest == SubSeq(messages, 1, k - 1) \o SubSeq(messages, k + 1, Len(messages))
  <2>3. k \in 1..Len(messages) /\ Answers(messages[k], t) /\ Len(messages) \in Nat
    BY <2>1
  <2> HIDE DEF k, places
  <2>4. /\ rest \in Seq(Bubbles)
        /\ Len(rest) = Len(messages) - 1
        /\ \A i \in 1..Len(messages) - 1 :
             rest[i] = IF i < k THEN messages[i] ELSE messages[i + 1]
    <3> DEFINE front == SubSeq(messages, 1, k - 1)
               back == SubSeq(messages, k + 1, Len(messages))
    <3>1. /\ front \in Seq(Bubbles) /\ Len(front) = k - 1
          /\ \A i \in 1..k - 1 : front[i] = messages[i]
      BY <2>3, SubSeqProperties
    <3>2. /\ back \in Seq(Bubbles) /\ Len(back) = Len(messages) - k
          /\ \A i \in 1..Len(messages) - k : back[i] = messages[k + i]
      BY <2>3, SubSeqProperties
    <3> HIDE DEF front, back
    <3>3. /\ front \o back \in Seq(Bubbles)
          /\ Len(front \o back) = Len(front) + Len(back)
          /\ \A i \in 1..Len(front) + Len(back) :
               (front \o back)[i] = IF i <= Len(front) THEN front[i] ELSE back[i - Len(front)]
      BY <3>1, <3>2, ConcatProperties
    <3>4. Len(front \o back) = Len(messages) - 1
      BY <3>1, <3>2, <3>3, <2>3
    <3>5. ASSUME NEW i \in 1..Len(messages) - 1
          PROVE  (front \o back)[i] = IF i < k THEN messages[i] ELSE messages[i + 1]
      <4>1. CASE i < k
        BY <4>1, <3>1, <3>2, <3>3, <2>3
      <4>2. CASE ~ (i < k)
        <5>1. (front \o back)[i] = back[i - (k - 1)]
          BY <4>2, <3>1, <3>2, <3>3, <2>3
        <5>2. i - (k - 1) \in 1..Len(messages) - k /\ k + (i - (k - 1)) = i + 1
          BY <4>2, <2>3
        <5> QED
          BY <5>1, <5>2, <3>2, <4>2
      <4> QED
        BY <4>1, <4>2
    <3> QED
      BY <3>3, <3>4, <3>5 DEF front, back
  <2>5. TakenAt(t, k)
    BY <2>2, <2>3, <2>4 DEF TakenAt
  <2> QED
    BY <2>5
<1> QED
  BY <1>1, <1>2

(* The answer of t goes, every other bubble stays.                         *)
LEMMA OneBubbleGoes ==
  ASSUME messages \in Seq(Bubbles), NEW t
  PROVE  /\ WithoutAnswer(t) \in Seq(Bubbles)
         /\ \A j \in DOMAIN WithoutAnswer(t) :
              \E i \in DOMAIN messages : WithoutAnswer(t)[j] = messages[i]
         /\ \A i \in DOMAIN messages :
              ~ Answers(messages[i], t) =>
                \E j \in DOMAIN WithoutAnswer(t) : WithoutAnswer(t)[j] = messages[i]
<1> DEFINE rest == WithoutAnswer(t)
<1>1. CASE NoAnswer(t)
  BY <1>1 DEF NoAnswer
<1>2. ASSUME NEW k, TakenAt(t, k)
      PROVE  /\ rest \in Seq(Bubbles)
             /\ \A j \in DOMAIN rest : \E i \in DOMAIN messages : rest[j] = messages[i]
             /\ \A i \in DOMAIN messages :
                  ~ Answers(messages[i], t) => \E j \in DOMAIN rest : rest[j] = messages[i]
  <2>3. k \in 1..Len(messages) /\ Answers(messages[k], t) /\ Len(messages) \in Nat
    BY <1>2 DEF TakenAt
  <2>4. /\ rest \in Seq(Bubbles) /\ Len(rest) = Len(messages) - 1
        /\ \A i \in 1..Len(messages) - 1 :
             rest[i] = IF i < k THEN messages[i] ELSE messages[i + 1]
    BY <1>2 DEF TakenAt
  <2> HIDE DEF rest
  <2>5. ASSUME NEW i \in DOMAIN messages, ~ Answers(messages[i], t)
        PROVE  \E j \in DOMAIN rest : rest[j] = messages[i]
    <3>1. i \in 1..Len(messages) /\ i # k
      BY <2>3, <2>5
    <3>2. CASE i < k
      <4>1. i \in 1..Len(messages) - 1 /\ rest[i] = messages[i]
        BY <3>1, <3>2, <2>3, <2>4
      <4> QED
        BY <4>1, <2>4
    <3>3. CASE i > k
      <4>1. i - 1 \in 1..Len(messages) - 1 /\ rest[i - 1] = messages[i]
        BY <3>1, <3>3, <2>3, <2>4
      <4> QED
        BY <4>1, <2>4
    <3> QED
      BY <3>1, <3>2, <3>3, <2>3
  <2>6. ASSUME NEW j \in DOMAIN rest
        PROVE  \E i \in DOMAIN messages : rest[j] = messages[i]
    <3>1. j \in 1..Len(messages) - 1
      BY <2>4
    <3>2. j \in DOMAIN messages /\ j + 1 \in DOMAIN messages
      BY <3>1, <2>3
    <3> QED
      BY <3>1, <3>2, <2>4
  <2> QED
    BY <2>4, <2>5, <2>6
<1> QED
  BY <1>1, <1>2, AnswerIsTaken

(* bumpMessage: as many bubbles as before, and only the answer of t is     *)
(* another.                                                                *)
LEMMA BumpOnlyAnswer ==
  ASSUME messages \in Seq(Bubbles), NEW t \in Turns, NEW b \in Bubbles
  PROVE  /\ Bump(t, b) \in Seq(Bubbles)
         /\ DOMAIN Bump(t, b) = DOMAIN messages
         /\ \A i \in DOMAIN messages :
              Bump(t, b)[i] = IF Answers(messages[i], t) THEN b ELSE messages[i]
<1>1. DOMAIN Bump(t, b) = 1..Len(messages)
  BY DEF Bump
<1>2. \A i \in 1..Len(messages) : Bump(t, b)[i] \in Bubbles
  BY DEF Bump
<1>3. Bump(t, b) = [i \in 1..Len(messages) |-> Bump(t, b)[i]]
  BY DEF Bump
<1>4. Bump(t, b) \in [1..Len(messages) -> Bubbles]
  BY <1>1, <1>2, <1>3
<1> QED
  BY <1>1, <1>4, SeqDef DEF Bump

LEMMA BubbleType ==
  ASSUME NEW kind \in {"greeting", "user", "assistant", "noConfig", "failure"}, NEW c \in Calls
  PROVE  /\ Bubble(kind, c) \in Bubbles
         /\ Bubble(kind, c).kind = kind /\ Bubble(kind, c).of = c
BY ElementAssumption DEF Bubble, Bubbles

-----------------------------------------------------------------------------
(* What the handlers keep *)

(* A step of the widget, as Element has it *)
MakesClient ==
  /\ Bootstrap
  /\ UNCHANGED <<messages, streaming, abortStream, sessionConfig, open_, draft, pc,
                 aborted, content, cleared>>

ElementNext ==
  \/ \E c \in Calls : Configured(c)
  \/ \E t \in Turns : Send(t) \/ Input(t) \/ Begin(t) \/ StreamStep(t)
  \/ \E p \in Opens : Open(p)
  \/ \E p \in Resets : Reset(p)
  \/ Close \/ Submit \/ Disconnected \/ MakesClient

LEMMA WidgetSteps == [Next]_vars => [ElementNext]_elementVars
BY DEF Next, vars, ElementNext, Handler, Task, TypeText, SubmitText, Toggle,
       ResetByHost, PutOnPage, SetAttribute, Update, MakesClient, elementVars

(* A call that goes on, or is dropped *)
LEMMA CallMoves ==
  ASSUME ElementInv, NEW c \in Calls, pc[c] \in {"new", "config"}, abortStream # c,
         NEW step \in {"new", "config", "ready", "over"},
         c \in Turns => step # "over",
         pc' = pc \/ pc' = [pc EXCEPT ![c] = step]
  PROVE  /\ pc' \in [Calls -> {"new", "config", "ready", "stream", "over"}]
         /\ abortStream # None => pc'[abortStream] = "stream"
         /\ \A t \in cleared : pc'[t] \in {"stream", "over"}
         /\ \A d \in Calls : d # c => pc'[d] = pc[d]
<1> USE ElementAssumption DEF ElementInv, ElementTypeOK, Calls
<1>1. c \notin cleared
  OBVIOUS
<1> QED
  BY <1>1

LEMMA EnsureMoves ==
  ASSUME ElementInv, NEW c \in Calls, NEW has \in BOOLEAN, EnsureConfig(c, has)
  PROVE  \E step \in {"config", "ready", "over"} :
           /\ pc' = [pc EXCEPT ![c] = step]
           /\ c \in Turns => step # "over"
           /\ c \in Turns => pc'[c] # "new"
BY DEF EnsureConfig, GoTo, AfterConfig, ElementInv, ElementTypeOK

LEMMA ConfiguredKeeps ==
  ASSUME ElementInv, NEW c \in Calls, Configured(c)
  PROVE  ElementInv'
<1>1. messages' \in Seq(Bubbles) /\ ClearedStaysCleared'
  <2>0. /\ cleared' = cleared
        /\ messages \in Seq(Bubbles) /\ ClearedStaysCleared
        /\ Bubble("greeting", c) \in Bubbles /\ Bubble("greeting", c).kind = "greeting"
        /\ Bubble("noConfig", c) \in Bubbles /\ Bubble("noConfig", c).kind = "noConfig"
    BY BubbleType, ZenonT(30) DEF Configured, ElementInv, ElementTypeOK
  <2>1. CASE messages' = Seeded(c)
    <3>1. \/ messages' = messages
          \/ Len(messages') = 1 /\ messages' \in Seq(Bubbles) /\ messages'[1].kind = "greeting"
      BY <2>0, <2>1 DEF Seeded
    <3> QED
      BY <2>0, <3>1 DEF ClearedStaysCleared
  <2>2. CASE messages' = Append(messages, Bubble("noConfig", c))
    <3>1. /\ messages' \in Seq(Bubbles) /\ Len(messages') = Len(messages) + 1
          /\ \A i \in 1..Len(messages) : messages'[i] = messages[i]
          /\ messages'[Len(messages) + 1].kind = "noConfig"
      BY <2>0, <2>2, AppendProperties
    <3>2. \A i \in DOMAIN messages' : i \in DOMAIN messages \/ i = Len(messages) + 1
      BY <2>0, <3>1
    <3> QED
      BY <2>0, <3>1, <3>2 DEF ClearedStaysCleared
  <2> QED
    BY <2>1, <2>2 DEF Configured
<1>2. /\ pc[c] = "config"
      /\ \E step \in {"ready", "over"} :
           pc' = [pc EXCEPT ![c] = step] /\ (c \in Turns => step # "over")
  BY DEF Configured, GoTo, AfterConfig
<1>3. abortStream # c
  BY <1>2, ElementAssumption DEF ElementInv, ElementTypeOK
<1>4. /\ pc' \in [Calls -> {"new", "config", "ready", "stream", "over"}]
      /\ abortStream # None => pc'[abortStream] = "stream"
      /\ \A t \in cleared : pc'[t] \in {"stream", "over"}
      /\ \A d \in Calls : d # c => pc'[d] = pc[d]
  BY <1>2, <1>3, CallMoves
<1> QED
  BY <1>1, <1>2, <1>4 DEF Configured, ElementInv, ElementTypeOK, Calls

LEMMA SendKeeps ==
  ASSUME ElementInv, NEW t \in Turns, Send(t)
  PROVE  ElementInv'
<1>1. \E step \in {"new", "config", "ready"} : pc' = pc \/ pc' = [pc EXCEPT ![t] = step]
  BY EnsureMoves DEF Send, SendMessage, Calls, ElementInv, ElementTypeOK
<1>2. abortStream # t
  BY ElementAssumption DEF Send, ElementInv, ElementTypeOK, Calls
<1>3. /\ pc' \in [Calls -> {"new", "config", "ready", "stream", "over"}]
      /\ abortStream # None => pc'[abortStream] = "stream"
      /\ \A u \in cleared : pc'[u] \in {"stream", "over"}
      /\ \A d \in Calls : d # t => pc'[d] = pc[d]
  BY <1>1, <1>2, CallMoves DEF Send, Calls
<1> QED
  BY <1>3 DEF Send, shell, ElementInv, ElementTypeOK, ClearedStaysCleared, Calls

LEMMA SubmitKeeps ==
  ASSUME ElementInv, Submit
  PROVE  ElementInv'
<1>1. draft \in Turns /\ pc[draft] = "new"
  BY DEF Submit, ElementInv, ElementTypeOK
<1>2. \E step \in {"new", "config", "ready"} : pc' = pc \/ pc' = [pc EXCEPT ![draft] = step]
  BY <1>1, EnsureMoves DEF Submit, SendMessage, Calls, ElementInv, ElementTypeOK
<1>3. abortStream # draft
  BY <1>1, ElementAssumption DEF ElementInv, ElementTypeOK, Calls
<1>4. /\ pc' \in [Calls -> {"new", "config", "ready", "stream", "over"}]
      /\ abortStream # None => pc'[abortStream] = "stream"
      /\ \A u \in cleared : pc'[u] \in {"stream", "over"}
  BY <1>1, <1>2, <1>3, CallMoves DEF Calls
<1> QED
  BY <1>4 DEF Submit, ElementInv, ElementTypeOK, ClearedStaysCleared

LEMMA InputKeeps ==
  ASSUME ElementInv, NEW t \in Turns, Input(t)
  PROVE  ElementInv'
BY DEF Input, ElementInv, ElementTypeOK, ClearedStaysCleared

LEMMA BeginKeeps ==
  ASSUME ElementInv, NEW t \in Turns, Begin(t)
  PROVE  ElementInv'
<1>1. t \in Calls /\ t \notin cleared
  BY DEF Begin, ElementInv, Calls
<1>2. /\ Bubble("user", t) \in Bubbles /\ Bubble("user", t).of = t
      /\ Bubble("assistant", t) \in Bubbles /\ Bubble("assistant", t).of = t
  BY <1>1, BubbleType
<1>3. messages' \in Seq(Bubbles) /\ ClearedStaysCleared'
  <2> DEFINE new == <<Bubble("user", t), Bubble("assistant", t)>>
  <2>1. new \in Seq(Bubbles) /\ Len(new) = 2 /\ \A i \in 1..2 : new[i].of = t
    BY <1>2
  <2> HIDE DEF new
  <2>2. messages \in Seq(Bubbles) /\ messages' = messages \o new /\ cleared' = cleared
    BY DEF Begin, new, ElementInv, ElementTypeOK
  <2>t. messages \in Seq(Bubbles) /\ new \in Seq(Bubbles)
    BY <2>1, <2>2
  <2>c. /\ messages \o new \in Seq(Bubbles)
        /\ Len(messages \o new) = Len(messages) + Len(new)
        /\ \A i \in 1..Len(messages) + Len(new) :
             (messages \o new)[i] = IF i <= Len(messages) THEN messages[i]
                                    ELSE new[i - Len(messages)]
    BY <2>t, ConcatProperties
  <2>3. /\ messages' \in Seq(Bubbles)
        /\ Len(messages') = Len(messages) + 2
        /\ \A i \in 1..Len(messages) + 2 :
             messages'[i] = IF i <= Len(messages) THEN messages[i] ELSE new[i - Len(messages)]
    BY <2>1, <2>2, <2>c
  <2>4. ASSUME NEW i \in DOMAIN messages', messages'[i].kind \in {"user", "assistant"}
        PROVE  messages'[i].of \notin cleared
    <3>1. i \in 1..Len(messages) + 2 /\ Len(messages) \in Nat
      BY <2>2, <2>3
    <3>2. CASE i <= Len(messages)
      BY <3>1, <3>2, <2>2, <2>3, <2>4 DEF ElementInv, ClearedStaysCleared
    <3>3. CASE ~ (i <= Len(messages))
      <4>1. i - Len(messages) \in 1..2 /\ messages'[i] = new[i - Len(messages)]
        BY <3>1, <3>3, <2>3
      <4> QED
        BY <4>1, <2>1, <1>1
    <3> QED
      BY <3>2, <3>3
  <2> QED
    BY <2>2, <2>3, <2>4 DEF ClearedStaysCleared
<1>4. /\ pc' = [pc EXCEPT ![t] = "stream"] /\ abortStream' = t /\ cleared' = cleared
      /\ pc[t] = "ready"
  BY DEF Begin, GoTo
<1> QED
  BY <1>1, <1>3, <1>4, ElementAssumption DEF Begin, shell, ElementInv, ElementTypeOK, Calls

(* A bubble that is not the one of a cleared turn's answer does not become *)
(* one by growing.                                                         *)
LEMMA BumpKeepsCleared ==
  ASSUME ElementInv, NEW t \in Turns, NEW b \in Bubbles, Key(b) = <<"assistant", t>>,
         messages' = Bump(t, b), cleared' = cleared
  PROVE  messages' \in Seq(Bubbles) /\ ClearedStaysCleared'
<1>1. messages \in Seq(Bubbles) /\ ClearedStaysCleared
  BY DEF ElementInv, ElementTypeOK
<1>2. /\ messages' \in Seq(Bubbles) /\ DOMAIN messages' = DOMAIN messages
      /\ \A i \in DOMAIN messages :
           messages'[i] = IF Answers(messages[i], t) THEN b ELSE messages[i]
  BY <1>1, BumpOnlyAnswer
<1>3. ASSUME NEW i \in DOMAIN messages
      PROVE  messages'[i].kind = messages[i].kind /\ messages'[i].of = messages[i].of
  BY <1>2 DEF Answers, Key
<1> QED
  BY <1>1, <1>2, <1>3 DEF ClearedStaysCleared

(* Its content is that of a stream that runs.                              *)
LEMMA DeltaKeeps ==
  ASSUME ElementInv, NEW t \in Turns, Delta(t)
  PROVE  ElementInv'
<1> DEFINE b == [Bubble("assistant", t) EXCEPT !.content = content'[t]]
<1>1. content' \in [Turns -> 0..MaxDeltas] /\ content'[t] \in 0..MaxDeltas
  <2>1. MaxDeltas \in Nat /\ content \in [Turns -> 0..MaxDeltas]
    BY ElementAssumption DEF ElementInv, ElementTypeOK
  <2>2. content' = [content EXCEPT ![t] = @ + 1] /\ content[t] < MaxDeltas
    BY DEF Delta
  <2>3. content[t] + 1 \in 0..MaxDeltas
    BY <2>1, <2>2
  <2> QED
    BY <2>1, <2>2, <2>3
<1>2. b \in Bubbles /\ Key(b) = <<"assistant", t>>
  BY <1>1, BubbleType DEF Bubble, Bubbles, Key, Calls
<1>3. messages' \in Seq(Bubbles) /\ ClearedStaysCleared'
  BY <1>2, BumpKeepsCleared DEF Delta
<1> QED
  BY <1>1, <1>3 DEF Delta, shell, ElementInv, ElementTypeOK

(* Handle and flag, when a stream is over *)
LEMMA FinallyKeeps ==
  ASSUME ElementInv, NEW t \in Turns, pc[t] = "stream", Finally(t), content' = content,
         messages' \in Seq(Bubbles), ClearedStaysCleared'
  PROVE  ElementInv'
<1>1. pc' = [pc EXCEPT ![t] = "over"] /\ abortStream' = None /\ cleared' = cleared
  BY DEF Finally, GoTo
<1>2. /\ pc' \in [Calls -> {"new", "config", "ready", "stream", "over"}]
      /\ \A u \in cleared : pc'[u] \in {"stream", "over"}
      /\ draft # None => draft \notin HostTexts /\ pc'[draft] = "new"
  BY <1>1 DEF ElementInv, ElementTypeOK, Calls
<1> QED
  BY <1>1, <1>2 DEF Finally, shell, ElementInv, ElementTypeOK

LEMMA DeltaAfterAbortKeeps ==
  ASSUME ElementInv, NEW t \in Turns, DeltaAfterAbort(t)
  PROVE  ElementInv'
<1>1. messages' \in Seq(Bubbles) /\ ClearedStaysCleared'
  BY DEF DeltaAfterAbort, Finally, ElementInv, ElementTypeOK, ClearedStaysCleared
<1> QED
  BY <1>1, FinallyKeeps DEF DeltaAfterAbort

LEMMA StreamEndsKeeps ==
  ASSUME ElementInv, NEW t \in Turns, StreamEnds(t)
  PROVE  ElementInv'
<1> DEFINE b == [Bubble("assistant", t) EXCEPT !.content = content[t], !.streaming = FALSE]
<1>1. b \in Bubbles /\ Key(b) = <<"assistant", t>>
  BY BubbleType, ZenonT(30) DEF Bubble, Bubbles, Key, Calls, ElementInv, ElementTypeOK
<1>2. cleared' = cleared /\ (messages' = messages \/ messages' = Bump(t, b))
  BY DEF StreamEnds, Finally
<1>3. messages' \in Seq(Bubbles) /\ ClearedStaysCleared'
  <2>1. CASE messages' = messages
    BY <1>2, <2>1 DEF ElementInv, ElementTypeOK, ClearedStaysCleared
  <2>2. CASE messages' = Bump(t, b)
    BY <1>1, <1>2, <2>2, BumpKeepsCleared
  <2> QED
    BY <1>2, <2>1, <2>2
<1> QED
  BY <1>3, FinallyKeeps DEF StreamEnds

(* What the list is made of when a stream fails: bubbles from before, and  *)
(* the failure.                                                            *)
LEMMA FailureIsShown ==
  ASSUME ElementInv, NEW t \in Turns, StreamFails(t)
  PROVE  /\ messages' \in Seq(Bubbles)
         /\ \A j \in DOMAIN messages' :
              \/ messages'[j].kind = "failure"
              \/ \E i \in DOMAIN messages : messages'[j] = messages[i]
         /\ \A i \in DOMAIN messages :
              ~ Answers(messages[i], t) =>
                \E j \in DOMAIN messages' : messages'[j] = messages[i]
<1> DEFINE rest == WithoutAnswer(t)
<1>1. messages \in Seq(Bubbles)
  BY DEF ElementInv, ElementTypeOK
<1>2. /\ rest \in Seq(Bubbles)
      /\ \A j \in DOMAIN rest : \E i \in DOMAIN messages : rest[j] = messages[i]
      /\ \A i \in DOMAIN messages :
           ~ Answers(messages[i], t) => \E j \in DOMAIN rest : rest[j] = messages[i]
  BY <1>1, OneBubbleGoes
<1>3. messages' = Append(rest, Bubble("failure", t))
  BY DEF StreamFails
<1> HIDE DEF rest
<1>4. Bubble("failure", t) \in Bubbles /\ Bubble("failure", t).kind = "failure"
  BY BubbleType DEF Calls
<1>5. /\ messages' \in Seq(Bubbles) /\ Len(messages') = Len(rest) + 1
      /\ \A j \in 1..Len(rest) : messages'[j] = rest[j]
      /\ messages'[Len(rest) + 1].kind = "failure"
  BY <1>2, <1>3, <1>4, AppendProperties
<1>6. /\ \A j \in DOMAIN messages' : j \in DOMAIN rest \/ j = Len(rest) + 1
      /\ \A j \in DOMAIN rest : j \in DOMAIN messages' /\ messages'[j] = rest[j]
  BY <1>2, <1>5
<1> QED
  BY <1>2, <1>5, <1>6

LEMMA StreamFailsKeeps ==
  ASSUME ElementInv, NEW t \in Turns, StreamFails(t)
  PROVE  ElementInv'
<1>1. messages' \in Seq(Bubbles) /\ ClearedStaysCleared'
  BY FailureIsShown DEF StreamFails, Finally, ElementInv, ClearedStaysCleared
<1> QED
  BY <1>1, FinallyKeeps DEF StreamFails

LEMMA OpenKeeps ==
  ASSUME ElementInv, NEW p \in Opens, Open(p)
  PROVE  ElementInv'
<1>1. p \in Calls /\ p \notin Turns /\ abortStream # p /\ pc[p] = "new"
  BY ElementAssumption DEF Open, ElementInv, ElementTypeOK, Calls
<1>2. \E step \in {"config", "ready", "over"} : pc' = [pc EXCEPT ![p] = step]
  BY <1>1, EnsureMoves DEF Open, ElementInv, ElementTypeOK
<1>3. /\ pc' \in [Calls -> {"new", "config", "ready", "stream", "over"}]
      /\ abortStream # None => pc'[abortStream] = "stream"
      /\ \A u \in cleared : pc'[u] \in {"stream", "over"}
      /\ \A d \in Calls : d # p => pc'[d] = pc[d]
  BY <1>1, <1>2, CallMoves
<1> QED
  BY <1>1, <1>3 DEF Open, ElementInv, ElementTypeOK, ClearedStaysCleared, Calls

LEMMA ResetKeeps ==
  ASSUME ElementInv, NEW p \in Resets, Reset(p)
  PROVE  ElementInv'
<1>1. p \in Calls /\ p \notin Turns /\ abortStream # p /\ pc[p] = "new"
  BY ElementAssumption DEF Reset, ElementInv, ElementTypeOK, Calls
<1>2. \E step \in {"config", "ready", "over"} : pc' = [pc EXCEPT ![p] = step]
  BY <1>1, EnsureMoves DEF Reset
<1>3. /\ pc' \in [Calls -> {"new", "config", "ready", "stream", "over"}]
      /\ abortStream # None => pc'[abortStream] = "stream"
      /\ \A d \in Calls : d # p => pc'[d] = pc[d]
  BY <1>1, <1>2, CallMoves
<1>4. /\ messages' = <<>> /\ messages' \in Seq(Bubbles) /\ ClearedStaysCleared'
      /\ aborted' \in [Turns -> BOOLEAN]
  <2>1. messages' = <<>>
    BY DEF Reset
  <2>2. messages' \in Seq(Bubbles) /\ ClearedStaysCleared'
    BY <2>1 DEF ClearedStaysCleared
  <2>3. aborted' = [t \in Turns |-> aborted[t] \/ t = abortStream]
    BY DEF Reset, Aborting
  <2>4. \A t \in Turns : (aborted[t] \/ t = abortStream) \in BOOLEAN
    OBVIOUS
  <2> QED
    BY <2>1, <2>2, <2>3, <2>4
<1>5. cleared' \subseteq Turns /\ \A t \in cleared' : pc'[t] \in {"stream", "over"}
  BY <1>1, <1>3 DEF Reset, ElementInv, ElementTypeOK, Calls
<1>6. draft' \in Turns \cup {None}
      /\ (draft' # None => draft' \notin HostTexts /\ pc'[draft'] = "new")
  BY <1>1, <1>3 DEF Reset, shell, ElementInv, ElementTypeOK, Calls
<1>7. abortStream' \in Turns \cup {None} /\ (abortStream' # None => pc'[abortStream'] = "stream")
  BY <1>3 DEF Reset, ElementInv
<1> QED
  BY <1>3, <1>4, <1>5, <1>6, <1>7 DEF Reset, shell, ElementInv, ElementTypeOK

LEMMA OtherStepsKeep ==
  ASSUME ElementInv, Close \/ Disconnected \/ MakesClient \/ UNCHANGED elementVars
  PROVE  ElementInv'
<1> USE DEF ElementInv, ElementTypeOK, ClearedStaysCleared
<1>1. CASE Close
  BY <1>1 DEF Close
<1>2. CASE Disconnected
  BY <1>2 DEF Disconnected, Aborting, shell
<1>3. CASE MakesClient
  BY <1>3 DEF MakesClient, Bootstrap
<1>4. CASE UNCHANGED elementVars
  BY <1>4 DEF elementVars
<1> QED
  BY <1>1, <1>2, <1>3, <1>4

LEMMA ElementInitInv == Init => ElementInv
<1> SUFFICES ASSUME Init PROVE ElementInv
  OBVIOUS
<1>0. messages = <<>> /\ cleared = {}
  BY DEF Init, ElementInit
<1>1. messages \in Seq(Bubbles)
  BY <1>0
<1>2. content \in [Turns -> 0..MaxDeltas]
  <2>1. content = [t \in Turns |-> 0] /\ MaxDeltas \in Nat
    BY ElementAssumption DEF Init, ElementInit
  <2> QED
    BY <2>1
<1>3. pc \in [Calls -> {"new", "config", "ready", "stream", "over"}] /\ aborted \in [Turns -> BOOLEAN]
  BY DEF Init, ElementInit
<1> QED
  BY <1>0, <1>1, <1>2, <1>3 DEF Init, ElementInit, ElementInv, ElementTypeOK, ClearedStaysCleared

LEMMA ElementStepInv ==
  ASSUME ElementInv, [ElementNext]_elementVars
  PROVE  ElementInv'
<1>1. ASSUME NEW c \in Calls, Configured(c) PROVE ElementInv'
  BY <1>1, ConfiguredKeeps
<1>2. ASSUME NEW t \in Turns, Send(t) \/ Input(t) \/ Begin(t) PROVE ElementInv'
  BY <1>2, SendKeeps, InputKeeps, BeginKeeps
<1>3. ASSUME NEW t \in Turns, StreamStep(t) PROVE ElementInv'
  BY <1>3, DeltaKeeps, DeltaAfterAbortKeeps, StreamEndsKeeps, StreamFailsKeeps
     DEF StreamStep
<1>4. ASSUME NEW p \in Opens, Open(p) PROVE ElementInv'
  BY <1>4, OpenKeeps
<1>5. ASSUME NEW p \in Resets, Reset(p) PROVE ElementInv'
  BY <1>5, ResetKeeps
<1>6. CASE Submit
  BY <1>6, SubmitKeeps
<1>7. CASE Close \/ Disconnected \/ MakesClient \/ UNCHANGED elementVars
  BY <1>7, OtherStepsKeep
<1> QED
  BY <1>1, <1>2, <1>3, <1>4, <1>5, <1>6, <1>7 DEF ElementNext

(* Types, and what the draft, the handle and the cleared turns are.        *)
THEOREM HandlersKeep == Spec => []ElementInv
BY ElementInitInv, WidgetSteps, ElementStepInv, PTL DEF Spec

(* The variables of the element have their types, and the handle is that   *)
(* of a stream that runs (clankstack-agent.ts:600 and :625).               *)
THEOREM WidgetTypes == Spec => []ElementTypeOK
BY HandlersKeep, PTL DEF ElementInv

(* No stream, failure or late config brings a bubble of a turn from before *)
(* a reset back (clankstack-agent.ts:569-576, 605-634).                    *)
THEOREM TranscriptIsCleared == Spec => []ClearedStaysCleared
BY HandlersKeep, PTL DEF ElementInv

-----------------------------------------------------------------------------
(* What a step may never do *)

StepQuestions ==
  messages' # <<>> =>
    \A i \in DOMAIN messages :
      messages[i].kind = "user" => \E j \in DOMAIN messages' : messages'[j] = messages[i]

LEMMA QuestionsConfigured ==
  ASSUME ElementInv, NEW c \in Calls, Configured(c)
  PROVE  StepQuestions
<1>1. messages \in Seq(Bubbles) /\ Bubble("noConfig", c) \in Bubbles
  BY BubbleType DEF ElementInv, ElementTypeOK
<1>2. CASE messages' = Seeded(c)
  BY <1>1, <1>2 DEF Seeded, StepQuestions
<1>3. CASE messages' = Append(messages, Bubble("noConfig", c))
  <2>1. \A i \in DOMAIN messages : i \in DOMAIN messages' /\ messages'[i] = messages[i]
    BY <1>1, <1>3
  <2> QED
    BY <2>1 DEF StepQuestions
<1> QED
  BY <1>2, <1>3 DEF Configured

LEMMA QuestionsBegin ==
  ASSUME ElementInv, NEW t \in Turns, Begin(t)
  PROVE  StepQuestions
<1> DEFINE new == <<Bubble("user", t), Bubble("assistant", t)>>
<1>1. messages \in Seq(Bubbles) /\ messages' = messages \o new
  BY DEF Begin, ElementInv, ElementTypeOK
<1>2. new \in Seq(Bubbles)
  BY BubbleType DEF Calls
<1> HIDE DEF new
<1>3. \A i \in DOMAIN messages : i \in DOMAIN messages' /\ messages'[i] = messages[i]
  BY <1>1, <1>2
<1> QED
  BY <1>3 DEF StepQuestions

(* The answer of a turn is no question. *)
LEMMA QuestionsBump ==
  ASSUME ElementInv, NEW t \in Turns, NEW b \in Bubbles, messages' = Bump(t, b)
  PROVE  StepQuestions
<1>1. /\ DOMAIN messages' = DOMAIN messages
      /\ \A i \in DOMAIN messages :
           messages'[i] = IF Answers(messages[i], t) THEN b ELSE messages[i]
  BY BumpOnlyAnswer DEF ElementInv, ElementTypeOK
<1> QED
  BY <1>1 DEF StepQuestions, Answers, Key

LEMMA QuestionsStream ==
  ASSUME ElementInv, NEW t \in Turns, StreamStep(t)
  PROVE  StepQuestions
<1>1. CASE Delta(t)
  <2> DEFINE b == [Bubble("assistant", t) EXCEPT !.content = content'[t]]
  <2>1. ElementInv'
    BY <1>1, DeltaKeeps
  <2>2. content'[t] \in 0..MaxDeltas
    BY <2>1 DEF ElementInv, ElementTypeOK
  <2>3. b \in Bubbles
    BY <2>2, BubbleType DEF Bubble, Bubbles, Calls
  <2> QED
    BY <1>1, <2>3, QuestionsBump DEF Delta
<1>2. CASE DeltaAfterAbort(t)
  BY <1>2 DEF DeltaAfterAbort, StepQuestions
<1>3. CASE StreamEnds(t)
  <2> DEFINE b == [Bubble("assistant", t) EXCEPT !.content = content[t], !.streaming = FALSE]
  <2>1. b \in Bubbles
    BY BubbleType, ZenonT(30) DEF Bubble, Bubbles, Calls, ElementInv, ElementTypeOK
  <2>2. messages' = messages \/ messages' = Bump(t, b)
    BY <1>3 DEF StreamEnds
  <2>3. CASE messages' = messages
    BY <2>3 DEF StepQuestions
  <2> QED
    BY <2>1, <2>2, <2>3, QuestionsBump
<1>4. CASE StreamFails(t)
  <2>1. \A i \in DOMAIN messages :
          ~ Answers(messages[i], t) => \E j \in DOMAIN messages' : messages'[j] = messages[i]
    BY <1>4, FailureIsShown
  <2> QED
    BY <2>1 DEF StepQuestions, Answers, Key
<1> QED
  BY <1>1, <1>2, <1>3, <1>4 DEF StreamStep

LEMMA QuestionsStep ==
  ASSUME ElementInv, [ElementNext]_elementVars
  PROVE  StepQuestions
<1>1. ASSUME NEW c \in Calls, Configured(c) PROVE StepQuestions
  BY <1>1, QuestionsConfigured
<1>2. ASSUME NEW t \in Turns, Begin(t) PROVE StepQuestions
  BY <1>2, QuestionsBegin
<1>3. ASSUME NEW t \in Turns, StreamStep(t) PROVE StepQuestions
  BY <1>3, QuestionsStream
<1>4. CASE messages' = messages \/ messages' = <<>>
  BY <1>4 DEF StepQuestions
<1> QED
  BY <1>1, <1>2, <1>3, <1>4
     DEF ElementNext, Send, Input, Open, Reset, Close, Submit, Disconnected, MakesClient, elementVars

(* A question stays in the list as it is until reset clears the list,      *)
(* whichever turn fails and however late the greeting comes                *)
(* (clankstack-agent.ts:543, 589, 622 and 632).                            *)
THEOREM QuestionsAreKept == Spec => QuestionsStay
<1>1. ElementInv /\ [Next]_vars =>
        [messages' # <<>> =>
           \A i \in DOMAIN messages :
             messages[i].kind = "user" =>
               \E j \in DOMAIN messages' : messages'[j] = messages[i]]_elementVars
  BY WidgetSteps, QuestionsStep DEF StepQuestions
<1> QED
  BY <1>1, HandlersKeep, PTL DEF Spec, QuestionsStay

-----------------------------------------------------------------------------
(* The bubbles and the calls that made them *)

(* What a bubble says is that of its own call: it was made behind the      *)
(* await of ensureConfig, an answer has the deltas of its stream, and it   *)
(* types or grows only while that runs, or when it was aborted.            *)
BubbleOK(b) ==
  /\ pc[b.of] \notin {"new", "config"}
  /\ b.kind \in {"user", "assistant", "failure"} => b.of \in Turns /\ pc[b.of] \in {"stream", "over"}
  /\ b.kind = "failure" => pc[b.of] = "over"
  /\ b.content = IF b.kind = "assistant" THEN content[b.of] ELSE 0
  /\ b.streaming => b.kind = "assistant" /\ (pc[b.of] = "stream" \/ aborted[b.of])

Distinct(ms) == \A i, j \in DOMAIN ms : Key(ms[i]) = Key(ms[j]) => i = j
OneOfEach == Distinct(messages)
BubblesOK == \A i \in DOMAIN messages : BubbleOK(messages[i])
NotBegun == \A t \in Turns : pc[t] \notin {"stream", "over"} => content[t] = 0

BubblesInv == OneOfEach /\ BubblesOK /\ NotBegun

LEMMA BubblesAre ==
  ASSUME ElementInv
  PROVE  /\ messages \in Seq(Bubbles) /\ Len(messages) \in Nat /\ DOMAIN messages = 1..Len(messages)
         /\ \A i \in DOMAIN messages : messages[i] \in Bubbles
         /\ pc \in [Calls -> {"new", "config", "ready", "stream", "over"}]
         /\ aborted \in [Turns -> BOOLEAN] /\ content \in [Turns -> 0..MaxDeltas]
<1>1. /\ messages \in Seq(Bubbles)
      /\ pc \in [Calls -> {"new", "config", "ready", "stream", "over"}]
      /\ aborted \in [Turns -> BOOLEAN] /\ content \in [Turns -> 0..MaxDeltas]
  BY DEF ElementInv, ElementTypeOK
<1>2. Len(messages) \in Nat /\ DOMAIN messages = 1..Len(messages)
  BY <1>1
<1>3. \A i \in DOMAIN messages : messages[i] \in Bubbles
  BY <1>1, <1>2
<1> QED
  BY <1>1, <1>2, <1>3

LEMMA BubbleIs ==
  ASSUME NEW b \in Bubbles
  PROVE  /\ b.kind \in {"greeting", "user", "assistant", "noConfig", "failure"}
         /\ b.of \in Calls /\ b.streaming \in BOOLEAN
BY DEF Bubbles

LEMMA BubbleStays ==
  ASSUME NEW b \in Bubbles, BubbleOK(b),
         pc'[b.of] \notin {"new", "config"},
         pc[b.of] \in {"stream", "over"} => pc'[b.of] \in {"stream", "over"},
         pc[b.of] = "over" => pc'[b.of] = "over",
         b.kind = "assistant" => content'[b.of] = content[b.of],
         b.streaming => pc'[b.of] = "stream" \/ aborted'[b.of]
  PROVE  BubbleOK(b)'
BY DEF BubbleOK

(* A call that has made no bubble yet goes on. *)
OnlyMoves(c) ==
  /\ \A d \in Calls : d # c => pc'[d] = pc[d]
  /\ content' = content /\ \A t \in Turns : aborted[t] => aborted'[t]

LEMMA OthersStay ==
  ASSUME NEW b \in Bubbles, BubbleOK(b), NEW c, pc[c] \in {"new", "config"}, OnlyMoves(c)
  PROVE  BubbleOK(b)' /\ b.of # c
<1>1. b.of # c /\ b.of \in Calls
  BY BubbleIs DEF BubbleOK
<1>2. pc'[b.of] = pc[b.of] /\ content' = content
  BY <1>1 DEF OnlyMoves
<1>3. b.streaming => b.of \in Turns /\ (pc[b.of] = "stream" \/ aborted[b.of])
  BY DEF BubbleOK
<1>4. b.streaming => pc'[b.of] = "stream" \/ aborted'[b.of]
  BY <1>2, <1>3 DEF OnlyMoves
<1>5. pc[b.of] \notin {"new", "config"}
  BY DEF BubbleOK
<1>6. BubbleOK(b)'
  BY <1>2, <1>4, <1>5, BubbleStays
<1> QED
  BY <1>1, <1>6

LEMMA ListStays ==
  ASSUME ElementInv, BubblesInv, messages' = messages,
         NEW c, pc[c] \in {"new", "config"}, OnlyMoves(c),
         c \in Turns => pc'[c] \notin {"stream", "over"}
  PROVE  BubblesInv'
<1>1. OneOfEach'
  BY DEF BubblesInv, OneOfEach, Distinct
<1>2. BubblesOK'
  <2>1. \A i \in DOMAIN messages : messages[i] \in Bubbles /\ BubbleOK(messages[i])
    BY BubblesAre DEF BubblesInv, BubblesOK
  <2>2. ASSUME NEW i \in DOMAIN messages PROVE BubbleOK(messages[i])'
    <3>1. PICK b : b = messages[i]
      OBVIOUS
    <3>2. b \in Bubbles /\ BubbleOK(b)
      BY <2>1, <3>1
    <3>3. BubbleOK(b)'
      BY <3>2, OthersStay
    <3> QED
      BY <3>1, <3>3 DEF BubbleOK
  <2> QED
    BY <2>2 DEF BubblesOK
<1>3. NotBegun'
  BY DEF BubblesInv, NotBegun, OnlyMoves, Calls
<1> QED
  BY <1>1, <1>2, <1>3 DEF BubblesInv

LEMMA NothingMoves ==
  ASSUME ElementInv, BubblesInv, messages' = messages, pc' = pc, content' = content,
         \A t \in Turns : aborted[t] => aborted'[t]
  PROVE  BubblesInv'
<1>1. OneOfEach'
  BY DEF BubblesInv, OneOfEach, Distinct
<1>2. BubblesOK'
  <2>1. \A i \in DOMAIN messages : messages[i] \in Bubbles /\ BubbleOK(messages[i])
    BY BubblesAre DEF BubblesInv, BubblesOK
  <2>2. ASSUME NEW i \in DOMAIN messages PROVE BubbleOK(messages[i])'
    BY <2>1 DEF BubbleOK
  <2> QED
    BY <2>2 DEF BubblesOK
<1>3. NotBegun'
  BY DEF BubblesInv, NotBegun
<1> QED
  BY <1>1, <1>2, <1>3 DEF BubblesInv

LEMMA EntriesOK ==
  ASSUME \A j \in DOMAIN messages' : \E b : messages'[j] = b /\ BubbleOK(b)'
  PROVE  BubblesOK'
<1>1. ASSUME NEW j \in DOMAIN messages' PROVE BubbleOK(messages[j])'
  BY DEF BubbleOK
<1> QED
  BY <1>1 DEF BubblesOK

LEMMA NewBubbleIs ==
  ASSUME NEW kind \in {"greeting", "user", "assistant", "noConfig", "failure"}, NEW c \in Calls
  PROVE  /\ Bubble(kind, c) \in Bubbles
         /\ Bubble(kind, c).kind = kind /\ Bubble(kind, c).of = c
         /\ Bubble(kind, c).content = 0 /\ Bubble(kind, c).streaming = (kind = "assistant")
         /\ Key(Bubble(kind, c)) = <<kind, c>>
<1>1. Bubble(kind, c) \in Bubbles
  BY BubbleType
<1> QED
  BY <1>1 DEF Bubble, Key

LEMMA OneMore ==
  ASSUME NEW ms \in Seq(Bubbles), NEW b \in Bubbles
  PROVE  /\ Append(ms, b) \in Seq(Bubbles)
         /\ \A j \in DOMAIN Append(ms, b) :
              Append(ms, b)[j] = b \/ \E i \in DOMAIN ms : Append(ms, b)[j] = ms[i]
         /\ Distinct(ms) /\ (\A i \in DOMAIN ms : Key(ms[i]) # Key(b)) => Distinct(Append(ms, b))
<1> DEFINE n == Len(ms)
           new == Append(ms, b)
<1>1. /\ new \in Seq(Bubbles) /\ Len(new) = n + 1 /\ n \in Nat
      /\ \A i \in 1..n : new[i] = ms[i]
      /\ new[n + 1] = b
  BY AppendProperties
<1> HIDE DEF new
<1>2. DOMAIN ms = 1..n /\ DOMAIN new = 1..(n + 1)
  BY <1>1
<1>3. \A j \in DOMAIN new : (j \in DOMAIN ms /\ new[j] = ms[j]) \/ (j = n + 1 /\ new[j] = b)
  BY <1>1, <1>2
<1>4. ASSUME Distinct(ms), \A i \in DOMAIN ms : Key(ms[i]) # Key(b) PROVE Distinct(new)
  <2> SUFFICES ASSUME NEW i \in DOMAIN new, NEW j \in DOMAIN new, Key(new[i]) = Key(new[j])
               PROVE  i = j
    BY DEF Distinct
  <2> HIDE DEF n
  <2>1. CASE i \in DOMAIN ms /\ new[i] = ms[i] /\ j \in DOMAIN ms /\ new[j] = ms[j]
    BY <2>1, <1>4 DEF Distinct
  <2>2. CASE i \in DOMAIN ms /\ new[i] = ms[i] /\ j = n + 1 /\ new[j] = b
    BY <2>2, <1>4
  <2>3. CASE i = n + 1 /\ new[i] = b /\ j \in DOMAIN ms /\ new[j] = ms[j]
    BY <2>3, <1>4
  <2> QED
    BY <2>1, <2>2, <2>3, <1>3
<1>5. \A j \in DOMAIN new : new[j] = b \/ \E i \in DOMAIN ms : new[j] = ms[i]
  BY <1>3
<1> QED
  BY <1>1, <1>4, <1>5 DEF new

LEMMA ConfiguredBubbles ==
  ASSUME ElementInv, BubblesInv, NEW c \in Calls, Configured(c)
  PROVE  BubblesInv'
<1> DEFINE g == Bubble("greeting", c)
           e == Bubble("noConfig", c)
<1>1. /\ pc[c] = "config" /\ content' = content /\ aborted' = aborted
      /\ messages' = Seeded(c) \/ messages' = Append(messages, e)
      /\ pc' = [pc EXCEPT ![c] = IF c \in Turns THEN "ready" ELSE "over"]
  BY DEF Configured, GoTo, AfterConfig
<1>2. OnlyMoves(c) /\ pc'[c] \in {"ready", "over"} /\ (c \in Turns => pc'[c] = "ready")
  BY <1>1, BubblesAre DEF OnlyMoves
<1>3. /\ messages \in Seq(Bubbles) /\ \A i \in DOMAIN messages : messages[i] \in Bubbles
      /\ Distinct(messages) /\ \A i \in DOMAIN messages : BubbleOK(messages[i])
  BY BubblesAre DEF BubblesInv, OneOfEach, BubblesOK
<1>4. NotBegun'
  BY <1>1, <1>2 DEF BubblesInv, NotBegun, OnlyMoves, Calls
<1>5. /\ g \in Bubbles /\ g.kind = "greeting" /\ g.of = c /\ g.content = 0 /\ g.streaming = FALSE
      /\ e \in Bubbles /\ e.kind = "noConfig" /\ e.of = c /\ e.content = 0 /\ e.streaming = FALSE
  BY NewBubbleIs, ZenonT(30)
<1> HIDE DEF g, e
<1>6. BubbleOK(g)' /\ BubbleOK(e)'
  BY <1>2, <1>5 DEF BubbleOK
<1>7. CASE messages' = messages
  BY <1>1, <1>2, <1>7, ListStays
<1>8. CASE messages' = <<g>>
  <2>1. DOMAIN messages' = {1} /\ messages'[1] = g
    BY <1>8
  <2>2. OneOfEach'
    BY <2>1 DEF OneOfEach, Distinct
  <2>3. BubblesOK'
    BY <2>1, <1>6, EntriesOK
  <2> QED
    BY <2>2, <2>3, <1>4 DEF BubblesInv
<1>9. CASE messages' = Append(messages, e)
  <2>1. ASSUME NEW i \in DOMAIN messages
        PROVE  \E b : b = messages[i] /\ BubbleOK(b)' /\ b.of # c
    <3>1. PICK b : b = messages[i]
      OBVIOUS
    <3>2. b \in Bubbles /\ BubbleOK(b)
      BY <1>3, <3>1
    <3>3. BubbleOK(b)' /\ b.of # c
      BY <1>1, <1>2, <3>2, OthersStay
    <3> QED
      BY <3>1, <3>3
  <2>2. /\ \A j \in DOMAIN messages' : messages'[j] = e \/ \E i \in DOMAIN messages : messages'[j] = messages[i]
        /\ (\A i \in DOMAIN messages : Key(messages[i]) # Key(e)) => Distinct(messages')
    BY <1>3, <1>5, <1>9, OneMore
  <2>3. BubblesOK'
    <3>1. ASSUME NEW j \in DOMAIN messages' PROVE \E b : messages'[j] = b /\ BubbleOK(b)'
      BY <1>6, <2>1, <2>2
    <3> QED
      BY <3>1, EntriesOK
  <2>4. \A i \in DOMAIN messages : Key(messages[i]) # Key(e)
    <3> TAKE i \in DOMAIN messages
    <3>1. messages[i].of # c
      BY <2>1
    <3> QED
      BY <3>1, <1>5 DEF Key
  <2>5. Distinct(messages')
    BY <2>2, <2>4
  <2>6. OneOfEach'
    BY <2>5 DEF OneOfEach, Distinct
  <2> QED
    BY <2>3, <2>6, <1>4 DEF BubblesInv
<1> QED
  BY <1>1, <1>7, <1>8, <1>9 DEF Seeded, g

(* A turn that is shown goes on. *)
TurnGoes(t) ==
  /\ pc[t] \in {"ready", "stream"} /\ pc'[t] \in {"stream", "over"}
  /\ \A d \in Calls : d # t => pc'[d] = pc[d]
  /\ \A u \in Turns : u # t => content'[u] = content[u]
  /\ aborted' = aborted

LEMMA KeptBubble ==
  ASSUME NEW t \in Turns, TurnGoes(t), NEW b \in Bubbles, BubbleOK(b), ~ Answers(b, t)
  PROVE  BubbleOK(b)'
<1>1. b.of \in Calls /\ (b.of = t => b.kind # "assistant")
  BY BubbleIs DEF Answers, Key
<1>2. CASE b.of # t
  <2>1. pc'[b.of] = pc[b.of] /\ aborted' = aborted
    BY <1>1, <1>2 DEF TurnGoes
  <2>2. b.kind = "assistant" => content'[b.of] = content[b.of]
    BY <1>2 DEF TurnGoes, BubbleOK
  <2>3. /\ pc[b.of] \notin {"new", "config"}
        /\ b.streaming => pc[b.of] = "stream" \/ aborted[b.of]
    BY DEF BubbleOK
  <2> QED
    BY <2>1, <2>2, <2>3, BubbleStays
<1>3. CASE b.of = t
  <2>1. ~ b.streaming /\ b.kind # "assistant"
    BY <1>1, <1>3 DEF BubbleOK
  <2>2. pc'[b.of] \in {"stream", "over"} /\ pc[b.of] # "over"
    BY <1>3 DEF TurnGoes
  <2> QED
    BY <2>1, <2>2, BubbleStays
<1> QED
  BY <1>2, <1>3

LEMMA TurnsBegun ==
  ASSUME BubblesInv, NEW t \in Turns, TurnGoes(t)
  PROVE  NotBegun'
BY DEF BubblesInv, NotBegun, TurnGoes, Calls

LEMMA BubblesNow ==
  ASSUME ElementInv, BubblesInv
  PROVE  /\ messages \in Seq(Bubbles) /\ Distinct(messages)
         /\ \A i \in DOMAIN messages : messages[i] \in Bubbles /\ BubbleOK(messages[i])
BY BubblesAre DEF BubblesInv, OneOfEach, BubblesOK

LEMMA NowDistinct ==
  ASSUME Distinct(messages'), BubblesOK', NotBegun'
  PROVE  BubblesInv'
BY DEF BubblesInv, OneOfEach, Distinct

LEMMA BeginBubbles ==
  ASSUME ElementInv, BubblesInv, NEW t \in Turns, Begin(t)
  PROVE  BubblesInv'
<1> DEFINE u == Bubble("user", t)
           a == Bubble("assistant", t)
           first == Append(messages, u)
<1>1. /\ pc[t] = "ready" /\ pc' = [pc EXCEPT ![t] = "stream"]
      /\ content' = content /\ aborted' = aborted /\ messages' = messages \o <<u, a>>
  BY DEF Begin, GoTo
<1>2. t \in Calls /\ pc'[t] = "stream" /\ \A d \in Calls : d # t => pc'[d] = pc[d]
  BY <1>1, BubblesAre DEF Calls
<1>3. TurnGoes(t)
  BY <1>1, <1>2 DEF TurnGoes
<1>4. /\ u \in Bubbles /\ u.kind = "user" /\ u.of = t /\ u.content = 0 /\ u.streaming = FALSE
      /\ a \in Bubbles /\ a.kind = "assistant" /\ a.of = t /\ a.content = 0 /\ a.streaming = TRUE
      /\ Key(u) = <<"user", t>> /\ Key(a) = <<"assistant", t>>
  BY <1>2, NewBubbleIs, ZenonT(30)
<1>5. content'[t] = 0
  BY <1>1 DEF BubblesInv, NotBegun
<1> HIDE DEF u, a
<1>6. BubbleOK(u)' /\ BubbleOK(a)'
  BY <1>2, <1>4, <1>5 DEF BubbleOK
<1>7. ASSUME NEW i \in DOMAIN messages
      PROVE  /\ \E b : b = messages[i] /\ BubbleOK(b)'
             /\ Key(messages[i]) # Key(u) /\ Key(messages[i]) # Key(a)
  <2>1. PICK b : b = messages[i]
    OBVIOUS
  <2>2. b \in Bubbles /\ BubbleOK(b)
    BY <2>1, BubblesNow
  <2>3. ~ (b.of = t /\ b.kind \in {"user", "assistant"})
    BY <1>1, <2>2 DEF BubbleOK
  <2>4. Key(b) # Key(u) /\ Key(b) # Key(a) /\ ~ Answers(b, t)
    BY <1>4, <2>3 DEF Key, Answers
  <2>5. BubbleOK(b)'
    BY <1>3, <2>2, <2>4, KeptBubble
  <2> QED
    BY <2>1, <2>4, <2>5
<1>8. messages \in Seq(Bubbles) /\ Distinct(messages)
  BY BubblesNow
<1>9. /\ first \in Seq(Bubbles) /\ Distinct(first)
      /\ \A j \in DOMAIN first : first[j] = u \/ \E i \in DOMAIN messages : first[j] = messages[i]
  BY <1>4, <1>7, <1>8, OneMore
<1>10. messages' = Append(first, a)
  BY <1>1, <1>4, <1>8
<1> HIDE DEF first
<1>11. \A j \in DOMAIN first : Key(first[j]) # Key(a)
  BY <1>4, <1>7, <1>9
<1>12. /\ Distinct(messages')
       /\ \A j \in DOMAIN messages' : messages'[j] = a \/ \E i \in DOMAIN first : messages'[j] = first[i]
  BY <1>4, <1>9, <1>10, <1>11, OneMore
<1>13. BubblesOK'
  <2>1. ASSUME NEW j \in DOMAIN messages' PROVE \E b : messages'[j] = b /\ BubbleOK(b)'
    BY <1>6, <1>7, <1>9, <1>12
  <2> QED
    BY <2>1, EntriesOK
<1> QED
  BY <1>3, <1>12, <1>13, TurnsBegun, NowDistinct

LEMMA BumpedBubbles ==
  ASSUME ElementInv, BubblesInv, NEW t \in Turns, TurnGoes(t),
         NEW a \in Bubbles, Key(a) = <<"assistant", t>>, BubbleOK(a)', messages' = Bump(t, a)
  PROVE  BubblesInv'
<1>1. /\ DOMAIN messages' = DOMAIN messages
      /\ \A i \in DOMAIN messages : messages'[i] = IF Answers(messages[i], t) THEN a ELSE messages[i]
  BY BubblesAre, BumpOnlyAnswer
<1>2. \A i \in DOMAIN messages : Key(messages'[i]) = Key(messages[i])
  BY <1>1 DEF Answers
<1>3. Distinct(messages')
  BY <1>1, <1>2, BubblesNow DEF Distinct
<1>4. ASSUME NEW j \in DOMAIN messages' PROVE \E b : messages'[j] = b /\ BubbleOK(b)'
  <2>1. PICK b : b = messages[j]
    OBVIOUS
  <2>2. b \in Bubbles /\ BubbleOK(b)
    BY <1>1, <2>1, BubblesNow
  <2>3. CASE Answers(b, t)
    BY <1>1, <2>1, <2>3
  <2>4. CASE ~ Answers(b, t)
    <3>1. BubbleOK(b)'
      BY <2>2, <2>4, KeptBubble
    <3> QED
      BY <1>1, <2>1, <2>4, <3>1
  <2> QED
    BY <2>3, <2>4
<1>5. BubblesOK'
  BY <1>4, EntriesOK
<1> QED
  BY <1>3, <1>5, TurnsBegun, NowDistinct

LEMMA DeltaBubbles ==
  ASSUME ElementInv, BubblesInv, NEW t \in Turns, Delta(t)
  PROVE  BubblesInv'
<1>0. PICK a : a = [Bubble("assistant", t) EXCEPT !.content = content'[t]]
  OBVIOUS
<1>1. /\ pc[t] = "stream" /\ pc' = pc /\ aborted' = aborted
      /\ content' = [content EXCEPT ![t] = @ + 1] /\ messages' = Bump(t, a)
  BY <1>0 DEF Delta
<1>2. TurnGoes(t)
  BY <1>1, BubblesAre DEF TurnGoes
<1>3. content'[t] \in 0..MaxDeltas
  <2>1. ElementInv'
    BY DeltaKeeps
  <2> QED
    BY <2>1 DEF ElementInv, ElementTypeOK
<1>4. /\ a \in Bubbles /\ a.kind = "assistant" /\ a.of = t /\ a.content = content'[t]
      /\ Key(a) = <<"assistant", t>>
  BY <1>0, <1>3, BubbleType DEF Bubble, Bubbles, Key, Calls
<1>5. BubbleOK(a)'
  BY <1>1, <1>4 DEF BubbleOK
<1> QED
  BY <1>1, <1>2, <1>4, <1>5, BumpedBubbles

LEMMA FinallyGoes ==
  ASSUME ElementInv, NEW t \in Turns, pc[t] = "stream", Finally(t), content' = content
  PROVE  TurnGoes(t) /\ pc'[t] = "over" /\ aborted' = aborted
<1>1. pc' = [pc EXCEPT ![t] = "over"] /\ aborted' = aborted
  BY DEF Finally, GoTo
<1>2. t \in Calls /\ pc'[t] = "over" /\ \A d \in Calls : d # t => pc'[d] = pc[d]
  BY <1>1, BubblesAre DEF Calls
<1> QED
  BY <1>1, <1>2 DEF TurnGoes

(* The bubble of an answer that was aborted types on, if it did.           *)
LEMMA AbortedBubbles ==
  ASSUME ElementInv, BubblesInv, NEW t \in Turns, pc[t] = "stream", aborted[t],
         Finally(t), content' = content, messages' = messages
  PROVE  BubblesInv'
<1>1. TurnGoes(t) /\ pc'[t] = "over" /\ aborted' = aborted
  BY FinallyGoes
<1>2. ASSUME NEW j \in DOMAIN messages' PROVE \E b : messages'[j] = b /\ BubbleOK(b)'
  <2>1. PICK b : b = messages[j]
    OBVIOUS
  <2>2. b \in Bubbles /\ BubbleOK(b)
    BY <2>1, BubblesNow
  <2>3. CASE Answers(b, t)
    <3>1. b.of = t /\ b.kind = "assistant"
      BY <2>3 DEF Answers, Key
    <3>2. pc'[b.of] = "over" /\ aborted'[b.of] /\ content'[b.of] = content[b.of]
      BY <1>1, <3>1
    <3>3. BubbleOK(b)'
      BY <2>2, <3>2, BubbleStays
    <3> QED
      BY <2>1, <3>3
  <2>4. CASE ~ Answers(b, t)
    <3>1. BubbleOK(b)'
      BY <1>1, <2>2, <2>4, KeptBubble
    <3> QED
      BY <2>1, <3>1
  <2> QED
    BY <2>3, <2>4
<1>3. BubblesOK'
  BY <1>2, EntriesOK
<1>4. Distinct(messages')
  BY BubblesNow
<1> QED
  BY <1>1, <1>3, <1>4, TurnsBegun, NowDistinct

LEMMA EndsBubbles ==
  ASSUME ElementInv, BubblesInv, NEW t \in Turns, DeltaAfterAbort(t) \/ StreamEnds(t)
  PROVE  BubblesInv'
<1>0. PICK a : a = [Bubble("assistant", t) EXCEPT !.content = content[t], !.streaming = FALSE]
  OBVIOUS
<1>1. pc[t] = "stream" /\ Finally(t) /\ content' = content
  BY DEF DeltaAfterAbort, StreamEnds
<1>2. aborted[t] => messages' = messages
  BY DEF DeltaAfterAbort, StreamEnds
<1>3. ~ aborted[t] => messages' = Bump(t, a)
  BY <1>0 DEF DeltaAfterAbort, StreamEnds
<1>4. TurnGoes(t) /\ pc'[t] = "over"
  BY <1>1, FinallyGoes
<1>5. /\ Bubble("assistant", t) \in Bubbles /\ Bubble("assistant", t).kind = "assistant"
      /\ Bubble("assistant", t).of = t /\ content[t] \in 0..MaxDeltas
  BY BubbleType, BubblesAre DEF Calls
<1>6. /\ a \in Bubbles /\ a.kind = "assistant" /\ a.of = t /\ a.content = content[t]
      /\ a.streaming = FALSE
  BY <1>0, <1>5 DEF Bubbles
<1>7. BubbleOK(a)' /\ Key(a) = <<"assistant", t>>
  BY <1>1, <1>4, <1>6 DEF BubbleOK, Key
<1>8. CASE aborted[t]
  BY <1>1, <1>2, <1>8, AbortedBubbles
<1>9. CASE ~ aborted[t]
  BY <1>3, <1>4, <1>6, <1>7, <1>9, BumpedBubbles
<1> QED
  BY <1>8, <1>9

(* What is left without the answer of t *)
LEMMA AnswerIsGone ==
  ASSUME messages \in Seq(Bubbles), Distinct(messages), NEW t
  PROVE  /\ Distinct(WithoutAnswer(t))
         /\ \A j \in DOMAIN WithoutAnswer(t) : ~ Answers(WithoutAnswer(t)[j], t)
<1> DEFINE rest == WithoutAnswer(t)
           n == Len(messages)
<1>1. CASE NoAnswer(t)
  BY <1>1 DEF NoAnswer
<1>2. ASSUME NEW k, TakenAt(t, k)
      PROVE  Distinct(rest) /\ \A j \in DOMAIN rest : ~ Answers(rest[j], t)
  <2> DEFINE place(j) == IF j < k THEN j ELSE j + 1
  <2>1. /\ k \in 1..n /\ Answers(messages[k], t) /\ n \in Nat /\ DOMAIN messages = 1..n
        /\ rest \in Seq(Bubbles) /\ Len(rest) = n - 1
        /\ \A i \in 1..n - 1 : rest[i] = IF i < k THEN messages[i] ELSE messages[i + 1]
    BY <1>2 DEF TakenAt
  <2>2. DOMAIN rest = 1..n - 1
    BY <2>1
  <2> HIDE DEF rest, n
  <2>3. \A j \in 1..n - 1 : place(j) \in 1..n /\ place(j) # k
    BY <2>1
  <2>4. \A i, j \in 1..n - 1 : place(i) = place(j) => i = j
    BY <2>1
  <2>5. \A j \in 1..n - 1 : rest[j] = messages[place(j)]
    BY <2>1
  <2> HIDE DEF place
  <2>6. \A i, j \in 1..n : Key(messages[i]) = Key(messages[j]) => i = j
    BY <2>1 DEF Distinct
  <2>7. Distinct(rest)
    BY <2>2, <2>3, <2>4, <2>5, <2>6 DEF Distinct
  <2>8. \A j \in DOMAIN rest : ~ Answers(rest[j], t)
    <3> SUFFICES ASSUME NEW j \in DOMAIN rest, Answers(rest[j], t) PROVE FALSE
      OBVIOUS
    <3>1. j \in 1..n - 1 /\ rest[j] = messages[place(j)] /\ place(j) \in 1..n /\ place(j) # k
      BY <2>2, <2>3, <2>5
    <3>2. Key(messages[place(j)]) = Key(messages[k])
      BY <2>1, <3>1 DEF Answers
    <3> QED
      BY <2>1, <2>6, <3>1, <3>2
  <2> QED
    BY <2>7, <2>8
<1> QED
  BY <1>1, <1>2, AnswerIsTaken

LEMMA FailsBubbles ==
  ASSUME ElementInv, BubblesInv, NEW t \in Turns, StreamFails(t)
  PROVE  BubblesInv'
<1>0. PICK f : f = Bubble("failure", t)
  OBVIOUS
<1>1. PICK rest : rest = WithoutAnswer(t)
  OBVIOUS
<1>2. /\ pc[t] = "stream" /\ Finally(t) /\ content' = content /\ messages' = Append(rest, f)
  BY <1>0, <1>1 DEF StreamFails
<1>3. TurnGoes(t) /\ pc'[t] = "over" /\ aborted' = aborted
  BY <1>2, FinallyGoes
<1>4. /\ f \in Bubbles /\ f.kind = "failure" /\ f.of = t /\ f.content = 0 /\ f.streaming = FALSE
      /\ Key(f) = <<"failure", t>>
  BY <1>0, NewBubbleIs, ZenonT(30) DEF Calls
<1>5. BubbleOK(f)'
  BY <1>3, <1>4 DEF BubbleOK
<1>6. /\ rest \in Seq(Bubbles) /\ Distinct(rest)
      /\ \A j \in DOMAIN rest : ~ Answers(rest[j], t)
      /\ \A j \in DOMAIN rest : \E i \in DOMAIN messages : rest[j] = messages[i]
  BY <1>1, BubblesNow, OneBubbleGoes, AnswerIsGone
<1>7. ASSUME NEW j \in DOMAIN rest
      PROVE  Key(rest[j]) # Key(f) /\ \E b : b = rest[j] /\ BubbleOK(b)'
  <2>1. PICK b : b = rest[j]
    OBVIOUS
  <2>2. b \in Bubbles /\ BubbleOK(b) /\ ~ Answers(b, t)
    BY <2>1, <1>6, BubblesNow
  <2>3. BubbleOK(b)'
    BY <1>3, <2>2, KeptBubble
  <2>4. ~ (b.kind = "failure" /\ b.of = t)
    BY <1>2, <2>2 DEF BubbleOK
  <2>5. Key(b) # Key(f)
    BY <1>4, <2>4 DEF Key
  <2> QED
    BY <2>1, <2>3, <2>5
<1>8. /\ Distinct(messages')
      /\ \A j \in DOMAIN messages' : messages'[j] = f \/ \E i \in DOMAIN rest : messages'[j] = rest[i]
  BY <1>2, <1>4, <1>6, <1>7, OneMore
<1>9. BubblesOK'
  <2>1. ASSUME NEW j \in DOMAIN messages' PROVE \E b : messages'[j] = b /\ BubbleOK(b)'
    BY <1>5, <1>7, <1>8
  <2> QED
    BY <2>1, EntriesOK
<1> QED
  BY <1>3, <1>8, <1>9, TurnsBegun, NowDistinct

(* ensureConfig, up to its await *)
LEMMA EnsureOnlyMoves ==
  ASSUME ElementInv, NEW c \in Calls, pc[c] = "new", NEW has \in BOOLEAN, EnsureConfig(c, has),
         content' = content, \A t \in Turns : aborted[t] => aborted'[t]
  PROVE  OnlyMoves(c) /\ (c \in Turns => pc'[c] \notin {"stream", "over"})
<1>1. PICK step \in {"config", "ready", "over"} :
        pc' = [pc EXCEPT ![c] = step] /\ (c \in Turns => step # "over")
  BY EnsureMoves
<1>2. pc'[c] = step /\ \A d \in Calls : d # c => pc'[d] = pc[d]
  BY <1>1, BubblesAre
<1> QED
  BY <1>1, <1>2 DEF OnlyMoves

LEMMA AsksBubbles ==
  ASSUME ElementInv, BubblesInv, NEW c \in Calls, pc[c] = "new", NEW has \in BOOLEAN,
         pc' = pc \/ EnsureConfig(c, has),
         messages' = messages, content' = content, aborted' = aborted
  PROVE  BubblesInv'
<1>1. CASE pc' = pc
  BY <1>1, NothingMoves
<1>2. CASE EnsureConfig(c, has)
  <2>1. OnlyMoves(c) /\ (c \in Turns => pc'[c] \notin {"stream", "over"})
    BY <1>2, EnsureOnlyMoves
  <2> QED
    BY <2>1, ListStays
<1> QED
  BY <1>1, <1>2

LEMMA ResetBubbles ==
  ASSUME ElementInv, BubblesInv, NEW p \in Resets, Reset(p)
  PROVE  BubblesInv'
<1>1. /\ pc[p] = "new" /\ EnsureConfig(p, FALSE) /\ content' = content
      /\ aborted' = Aborting /\ messages' = <<>>
  BY DEF Reset
<1>2. \A t \in Turns : aborted[t] => aborted'[t]
  BY <1>1 DEF Aborting
<1>3. p \in Calls
  BY DEF Calls
<1>4. OnlyMoves(p) /\ (p \in Turns => pc'[p] \notin {"stream", "over"})
  <2>1. PICK has \in BOOLEAN : has = FALSE /\ EnsureConfig(p, has)
    BY <1>1
  <2> QED
    BY <1>1, <1>2, <1>3, <2>1, EnsureOnlyMoves
<1>5. NotBegun'
  <2>1. pc[p] = "new"
    BY <1>1
  <2> QED
    BY <1>4, <2>1 DEF BubblesInv, NotBegun, OnlyMoves, Calls
<1>6. DOMAIN messages' = {}
  BY <1>1
<1>7. Distinct(messages') /\ BubblesOK'
  BY <1>6 DEF Distinct, BubblesOK
<1> QED
  BY <1>5, <1>7, NowDistinct

LEMMA BubblesStep ==
  ASSUME ElementInv, BubblesInv, [ElementNext]_elementVars
  PROVE  BubblesInv'
<1>0. sessionConfig \in BOOLEAN /\ draft \in Turns \cup {None}
  BY DEF ElementInv, ElementTypeOK
<1>1. ASSUME NEW c \in Calls, Configured(c) PROVE BubblesInv'
  BY <1>1, ConfiguredBubbles
<1>2. ASSUME NEW t \in Turns, Send(t) PROVE BubblesInv'
  <2>1. t \in Calls /\ pc[t] = "new" /\ (pc' = pc \/ EnsureConfig(t, sessionConfig))
    BY <1>2 DEF Send, SendMessage, Calls
  <2>2. messages' = messages /\ content' = content /\ aborted' = aborted
    BY <1>2 DEF Send
  <2> QED
    BY <1>0, <2>1, <2>2, AsksBubbles
<1>3. CASE Submit
  <2>1. draft \in Turns /\ pc[draft] = "new"
    BY <1>0, <1>3 DEF Submit, ElementInv
  <2>2. PICK t : t = draft
    OBVIOUS
  <2>3. t \in Calls /\ pc[t] = "new" /\ (pc' = pc \/ EnsureConfig(t, sessionConfig))
    BY <1>3, <2>1, <2>2 DEF Submit, SendMessage, Calls
  <2>4. messages' = messages /\ content' = content /\ aborted' = aborted
    BY <1>3 DEF Submit
  <2> QED
    BY <1>0, <2>3, <2>4, AsksBubbles
<1>4. ASSUME NEW p \in Opens, Open(p) PROVE BubblesInv'
  <2>1. p \in Calls /\ pc[p] = "new" /\ EnsureConfig(p, sessionConfig)
    BY <1>4 DEF Open, Calls
  <2>2. messages' = messages /\ content' = content /\ aborted' = aborted
    BY <1>4 DEF Open
  <2> QED
    BY <1>0, <2>1, <2>2, AsksBubbles
<1>5. ASSUME NEW t \in Turns, Begin(t) PROVE BubblesInv'
  BY <1>5, BeginBubbles
<1>6. ASSUME NEW t \in Turns, StreamStep(t) PROVE BubblesInv'
  BY <1>6, DeltaBubbles, EndsBubbles, FailsBubbles DEF StreamStep
<1>7. ASSUME NEW p \in Resets, Reset(p) PROVE BubblesInv'
  BY <1>7, ResetBubbles
<1>8. ASSUME \/ Close \/ Disconnected \/ MakesClient \/ UNCHANGED elementVars
             \/ \E t \in Turns : Input(t)
      PROVE  BubblesInv'
  <2>1. messages' = messages /\ pc' = pc /\ content' = content
    BY <1>8 DEF Close, Disconnected, MakesClient, elementVars, Input
  <2>2. \A t \in Turns : aborted[t] => aborted'[t]
    BY <1>8 DEF Close, Disconnected, Aborting, MakesClient, elementVars, Input
  <2> QED
    BY <2>1, <2>2, NothingMoves
<1> QED
  BY <1>1, <1>2, <1>3, <1>4, <1>5, <1>6, <1>7, <1>8 DEF ElementNext

LEMMA BubblesInit == Init => BubblesInv
<1> SUFFICES ASSUME Init PROVE BubblesInv
  OBVIOUS
<1>1. messages = <<>> /\ content = [t \in Turns |-> 0]
  BY DEF Init, ElementInit
<1>2. DOMAIN messages = {}
  BY <1>1
<1> QED
  BY <1>1, <1>2 DEF BubblesInv, OneOfEach, Distinct, BubblesOK, NotBegun

(* No two bubbles have the same id, and what a bubble says is that of its  *)
(* own call: no stream writes into the answer of another, and an answer    *)
(* types only while its own stream runs or after it was aborted            *)
(* (clankstack-agent.ts:589, 605-634).                                     *)
THEOREM BubblesAreTheirOwn == Spec => []BubblesInv
<1>1. ElementInv /\ BubblesInv /\ [Next]_vars => BubblesInv'
  BY WidgetSteps, BubblesStep
<1> QED
  BY <1>1, BubblesInit, HandlersKeep, PTL DEF Spec

-----------------------------------------------------------------------------
(* A row of the page *)

RowFields == {"node", "shows", "classes", "made"}

(* A row shows a bubble. *)
RowShows(row, b) == row.shows = Shows(b) /\ ("error" \in row.classes <=> IsError(b))
RowFits(row, b) == DOMAIN row = RowFields /\ row.node = Key(b) /\ RowShows(row, b)

(* A row that stays *)
RowKept(row, old) ==
  /\ row.node = old.node /\ row.made # "row"
  /\ row.shows = old.shows => row.made = "nothing"

LEMMA ClassesSay ==
  ASSUME NEW b
  PROVE  "error" \in DOMAIN Classes(b) /\ (Classes(b)["error"] <=> IsError(b))
BY DEF Classes, IsError

LEMMA ErrorIsShown ==
  ASSUME NEW b
  PROVE  /\ "error" \in FirstClasses(Classes(b)) <=> IsError(b)
         /\ \A classes : "error" \in ClassMap(classes, Classes(b)) <=> IsError(b)
<1> DEFINE flags == Classes(b)
<1>1. "error" \in DOMAIN flags /\ (flags["error"] <=> IsError(b))
  BY ClassesSay
<1> HIDE DEF flags
<1>2. "error" \in FirstClasses(flags) <=> IsError(b)
  BY <1>1 DEF FirstClasses
<1>3. \A classes : "error" \in ClassMap(classes, flags) <=> IsError(b)
  BY <1>1, <1>2 DEF ClassMap
<1> QED
  BY <1>2, <1>3 DEF flags

LEMMA RowIsNew ==
  ASSUME NEW b
  PROVE  RowFits(NewRow(Key(b), Shows(b), Classes(b)), b)
<1> DEFINE k == Key(b)
           v == Shows(b)
           first == FirstClasses(Classes(b))
           row == NewRow(k, v, Classes(b))
<1>1. row = [node |-> k, shows |-> v, classes |-> first, made |-> "row"]
  BY DEF NewRow
<1>2. "error" \in first <=> IsError(b)
  BY ErrorIsShown
<1> HIDE DEF k, v, first
<1>3. /\ DOMAIN row = RowFields /\ row.node = k /\ row.shows = v /\ row.classes = first
  BY <1>1 DEF RowFields
<1> HIDE DEF row
<1>4. RowFits(row, b)
  BY <1>2, <1>3 DEF RowFits, RowShows, k, v
<1> QED
  BY <1>4 DEF row, k, v

LEMMA ShowsAs ==
  ASSUME NEW b
  PROVE  Shows(b).as \in {"text", "template", "html"}
BY DEF Shows, Template, Html, Text

LEMMA RowIsSet ==
  ASSUME NEW b, NEW row, DOMAIN row = RowFields, NEW r, r = SetValue(row, Shows(b), Classes(b))
  PROVE  /\ DOMAIN r = RowFields /\ RowShows(r, b) /\ RowKept(r, row)
         /\ DOMAIN row = RowFields /\ row.node = Key(b) => RowFits(r, b)
<1> DEFINE v == Shows(b)
           map == ClassMap(row.classes, Classes(b))
           made == IF \/ SameText(row.shows, v) \/ SameTemplate(row.shows, v)
                      \/ SameHtml(row.shows, v)
                   THEN "nothing" ELSE "content"
<1>1. r = [row EXCEPT !.shows = v, !.classes = map, !.made = made]
  BY DEF SetValue
<1>2. "error" \in map <=> IsError(b)
  BY ErrorIsShown
<1>3. v.as \in {"text", "template", "html"}
  BY ShowsAs
<1> HIDE DEF v, map
<1>4. made # "row" /\ (v = row.shows => made = "nothing")
  BY <1>3 DEF SameText, SameTemplate, SameHtml
<1> HIDE DEF made
<1>5. /\ DOMAIN r = RowFields /\ r.node = row.node /\ r.shows = v /\ r.classes = map
      /\ r.made = made
  BY <1>1 DEF RowFields
<1>6. RowShows(r, b)
  BY <1>2, <1>5 DEF RowShows, v
<1>7. RowKept(r, row)
  BY <1>4, <1>5 DEF RowKept
<1> QED
  BY <1>5, <1>6, <1>7 DEF RowFits

-----------------------------------------------------------------------------
(* The rows of the page *)

RowsFit(rows, ms) ==
  /\ Len(rows) = Len(ms) /\ DOMAIN rows = DOMAIN ms
  /\ \A i \in DOMAIN ms : RowFits(rows[i], ms[i])

(* The rows, and the keys they were made for *)
RowsHave(rows, keys) ==
  /\ IsList(keys) /\ DOMAIN rows = 1..Len(keys)
  /\ \A i \in 1..Len(keys) : DOMAIN rows[i] = RowFields /\ rows[i].node = keys[i]

LEMMA KeysAre ==
  ASSUME NEW ms \in Seq(Bubbles), Distinct(ms)
  PROVE  /\ IsList(Keys(ms)) /\ Len(Keys(ms)) = Len(ms) /\ DOMAIN ms = 1..Len(ms)
         /\ \A i \in 1..Len(ms) : Keys(ms)[i] = Key(ms[i])
<1> DEFINE n == Len(ms)
           K == Keys(ms)
           S == {Key(ms[i]) : i \in 1..n}
<1>1. n \in Nat /\ DOMAIN ms = 1..n
  OBVIOUS
<1>2. K = [i \in 1..n |-> Key(ms[i])]
  BY <1>1 DEF Keys
<1>3. K \in [1..n -> S] /\ \A i \in 1..n : K[i] = Key(ms[i])
  BY <1>2
<1> HIDE DEF K, S, n
<1>4. Len(K) = n /\ DOMAIN K = 1..n
  BY <1>1, <1>3, FirstPlaces
<1>5. NoDuplicates(K)
  BY <1>1, <1>3, <1>4 DEF NoDuplicates, Distinct
<1>6. IsList(K)
  BY <1>1, <1>4, <1>5 DEF IsList
<1> QED
  BY <1>1, <1>3, <1>4, <1>6 DEF K, n

LEMMA FitRowsHave ==
  ASSUME NEW ms \in Seq(Bubbles), Distinct(ms), NEW rows, RowsFit(rows, ms)
  PROVE  RowsHave(rows, Keys(ms))
BY KeysAre DEF RowsFit, RowsHave, RowFits

(* A list that is drawn for the first time *)
LEMMA FirstRowsFit ==
  ASSUME NEW ms \in Seq(Bubbles), Distinct(ms),
         NEW values, values = [i \in DOMAIN ms |-> Shows(ms[i])],
         NEW flags, flags = [i \in DOMAIN ms |-> Classes(ms[i])]
  PROVE  RowsFit(FirstRows(Keys(ms), values, flags), ms)
<1> DEFINE n == Len(ms)
           rows == FirstRows(Keys(ms), values, flags)
           row(i) == NewRow(Key(ms[i]), Shows(ms[i]), Classes(ms[i]))
           S == {row(i) : i \in 1..n}
<1>1. /\ IsList(Keys(ms)) /\ DOMAIN Keys(ms) = 1..n /\ DOMAIN ms = 1..n /\ n \in Nat
      /\ \A i \in 1..n : Keys(ms)[i] = Key(ms[i])
  BY KeysAre DEF IsList
<1>2. \A i \in 1..n : values[i] = Shows(ms[i]) /\ flags[i] = Classes(ms[i])
  BY <1>1
<1>3. rows = [i \in 1..n |-> row(i)]
  BY <1>1, <1>2 DEF FirstRows
<1>4. \A i \in 1..n : RowFits(row(i), ms[i])
  BY RowIsNew
<1> HIDE DEF rows, row, n
<1>5. rows \in [1..n -> S] /\ \A i \in 1..n : rows[i] = row(i)
  BY <1>3
<1> HIDE DEF S
<1>6. Len(rows) = n /\ DOMAIN rows = 1..n
  BY <1>1, <1>5, FirstPlaces
<1>7. RowsFit(rows, ms)
  BY <1>1, <1>4, <1>5, <1>6 DEF RowsFit, n
<1> QED
  BY <1>7 DEF rows

(* A list that is drawn again *)
RowsStay(rows, keys, old, oldKeys) ==
  \A i \in 1..Len(oldKeys), j \in DOMAIN rows : oldKeys[i] = keys[j] => RowKept(rows[j], old[i])

LEMMA NextRowsFit ==
  ASSUME NEW ms \in Seq(Bubbles), Distinct(ms), NEW old, NEW oldKeys, RowsHave(old, oldKeys),
         NEW values, values = [i \in DOMAIN ms |-> Shows(ms[i])],
         NEW flags, flags = [i \in DOMAIN ms |-> Classes(ms[i])],
         NEW rows, rows = UpdateRows(old, oldKeys, Keys(ms), values, flags)
  PROVE  RowsFit(rows, ms) /\ RowsStay(rows, Keys(ms), old, oldKeys)
<1> DEFINE n == Len(ms)
           K == Keys(ms)
<1>1. /\ IsList(K) /\ Len(K) = n /\ DOMAIN ms = 1..n
      /\ \A i \in 1..n : K[i] = Key(ms[i])
  BY KeysAre
<1>2. \A i \in 1..n : values[i] = Shows(ms[i]) /\ flags[i] = Classes(ms[i])
  BY <1>1
<1>3. IsList(oldKeys)
  BY DEF RowsHave
<1> HIDE DEF K, n
<1>4. RowsAre(rows, old, oldKeys, K, values, flags)
  <2>1. rows = UpdateRows(old, oldKeys, K, values, flags)
    BY DEF K
  <2> QED
    BY <1>1, <1>3, <2>1, RowsAreUpdated
<1>5. Len(rows) = n /\ DOMAIN rows = 1..n
  BY <1>1, <1>4 DEF RowsAre
<1>6. ASSUME NEW j \in 1..n
      PROVE  /\ \A i \in 1..Len(oldKeys) : oldKeys[i] = K[j] => rows[j] = SetValue(old[i], Shows(ms[j]), Classes(ms[j]))
             /\ (\A i \in 1..Len(oldKeys) : oldKeys[i] # K[j]) => rows[j] = NewRow(K[j], Shows(ms[j]), Classes(ms[j]))
  <2>1. RowIs(rows[j], old, oldKeys, K, j, values[j], flags[j])
    BY <1>1, <1>4 DEF RowsAre
  <2> QED
    BY <1>2, <2>1 DEF RowIs
<1>7. ASSUME NEW j \in 1..n, NEW i \in 1..Len(oldKeys), oldKeys[i] = K[j]
      PROVE  RowFits(rows[j], ms[j]) /\ RowKept(rows[j], old[i])
  <2>1. rows[j] = SetValue(old[i], Shows(ms[j]), Classes(ms[j]))
    BY <1>6, <1>7
  <2>2. DOMAIN old[i] = RowFields /\ old[i].node = Key(ms[j])
    BY <1>1, <1>7 DEF RowsHave
  <2> QED
    BY <2>1, <2>2, RowIsSet
<1>8. ASSUME NEW j \in 1..n, \A i \in 1..Len(oldKeys) : oldKeys[i] # K[j]
      PROVE  RowFits(rows[j], ms[j])
  <2>1. rows[j] = NewRow(Key(ms[j]), Shows(ms[j]), Classes(ms[j]))
    BY <1>1, <1>6, <1>8
  <2> QED
    BY <2>1, RowIsNew
<1>9. \A j \in 1..n : RowFits(rows[j], ms[j])
  BY <1>7, <1>8
<1>10. RowsFit(rows, ms)
  BY <1>1, <1>5, <1>9 DEF RowsFit, n
<1>11. RowsStay(rows, K, old, oldKeys)
  BY <1>5, <1>7 DEF RowsStay
<1> QED
  BY <1>10, <1>11 DEF K

-----------------------------------------------------------------------------
(* What is on the page *)

PanelFields ==
  {"panel", "launcher", "title", "badge", "input", "inputSet", "disabled", "keys", "rows"}

ScreenShape(s) ==
  /\ {"panel", "launcher"} \subseteq DOMAIN s /\ s.panel \in BOOLEAN
  /\ s.panel => PanelFields \subseteq DOMAIN s /\ RowsHave(s.rows, s.keys)

(* The page that render draws from the state of now *)
PanelDrawn(s) ==
  /\ s.title = resolvedTitle /\ s.input = draft /\ s.inputSet = draft
  /\ s.disabled \in BOOLEAN /\ (s.disabled <=> Disabled) /\ (s.badge => sessionConfig)
  /\ s.keys = Keys(messages) /\ RowsFit(s.rows, messages)

Drawn(s) ==
  /\ s.panel <=> ShowPanel
  /\ s.launcher = Launcher
  /\ s.panel => PanelDrawn(s)

(* What the visitor typed is the draft, and what the last update set in    *)
(* the input is no longer, unless both are the same.                       *)
InputIsDraft(s) == s.input = draft \/ draft # s.inputSet

ScreenInv ==
  /\ enabled \in BOOLEAN /\ isUpdatePending \in BOOLEAN
  /\ ScreenShape(screen)
  /\ screen.panel => enabled /\ InputIsDraft(screen)
  /\ ~ isUpdatePending => Drawn(screen)

LEMMA RowsAreDrawn ==
  ASSUME ElementInv, BubblesInv, ScreenInv
  PROVE  /\ RowsFit(Rows, messages)
         /\ screen.panel => RowsStay(Rows, Keys(messages), screen.rows, screen.keys)
<1> DEFINE values == [i \in DOMAIN messages |-> Shows(messages[i])]
           flags == [i \in DOMAIN messages |-> Classes(messages[i])]
<1>1. messages \in Seq(Bubbles) /\ Distinct(messages)
  BY BubblesNow
<1>2. screen.panel \in BOOLEAN /\ (screen.panel => RowsHave(screen.rows, screen.keys))
  BY DEF ScreenInv, ScreenShape
<1>3. CASE screen.panel
  <2>1. Rows = UpdateRows(screen.rows, screen.keys, Keys(messages), values, flags)
    BY <1>3 DEF Rows
  <2> HIDE DEF values, flags
  <2>2. values = [i \in DOMAIN messages |-> Shows(messages[i])]
    BY DEF values
  <2>3. flags = [i \in DOMAIN messages |-> Classes(messages[i])]
    BY DEF flags
  <2> QED
    BY <1>1, <1>2, <1>3, <2>1, <2>2, <2>3, NextRowsFit
<1>4. CASE ~ screen.panel
  <2>1. Rows = FirstRows(Keys(messages), values, flags)
    BY <1>4 DEF Rows
  <2> HIDE DEF values, flags
  <2>2. values = [i \in DOMAIN messages |-> Shows(messages[i])]
    BY DEF values
  <2>3. flags = [i \in DOMAIN messages |-> Classes(messages[i])]
    BY DEF flags
  <2> QED
    BY <1>1, <1>4, <2>1, <2>2, <2>3, FirstRowsFit
<1> QED
  BY <1>2, <1>3, <1>4

(* The panel that render returns *)
LEMMA RenderedIs ==
  /\ {"panel", "launcher"} \subseteq DOMAIN Rendered
  /\ Rendered.panel \in BOOLEAN /\ (Rendered.panel <=> ShowPanel) /\ Rendered.launcher = Launcher
  /\ Rendered.panel =>
       /\ PanelFields \subseteq DOMAIN Rendered
       /\ Rendered.title = resolvedTitle /\ Rendered.badge = sessionConfig
       /\ Rendered.input = (IF screen.panel THEN SetInput(screen) ELSE draft)
       /\ Rendered.inputSet = draft
       /\ Rendered.disabled \in BOOLEAN /\ (Rendered.disabled <=> Disabled)
       /\ Rendered.keys = Keys(messages) /\ Rendered.rows = Rows
<1> DEFINE rows == Rows
           keys == Keys(messages)
           input == IF screen.panel THEN SetInput(screen) ELSE draft
           launcher == Launcher
           off == Disabled
<1>1. CASE ShowPanel
  <2>1. Rendered =
          [panel |-> TRUE, launcher |-> launcher, title |-> resolvedTitle,
           badge |-> sessionConfig, input |-> input, inputSet |-> draft,
           disabled |-> off, keys |-> keys, rows |-> rows]
    BY <1>1 DEF Rendered, Panel
  <2> HIDE DEF rows, keys, input, launcher, off
  <2>2. /\ DOMAIN Rendered = PanelFields /\ Rendered.panel = TRUE /\ Rendered.launcher = launcher
        /\ Rendered.title = resolvedTitle /\ Rendered.badge = sessionConfig
        /\ Rendered.input = input /\ Rendered.inputSet = draft /\ Rendered.disabled = off
        /\ Rendered.keys = keys /\ Rendered.rows = rows
    BY <2>1 DEF PanelFields
  <2>3. {"panel", "launcher"} \subseteq PanelFields
    BY DEF PanelFields
  <2>4. off \in BOOLEAN
    BY DEF off, Disabled
  <2> QED
    BY <1>1, <2>2, <2>3, <2>4 DEF rows, keys, input, launcher, off
<1>2. CASE ~ ShowPanel
  <2>1. Rendered = [panel |-> FALSE, launcher |-> launcher]
    BY <1>2 DEF Rendered, NoPanel
  <2> HIDE DEF launcher
  <2>2. DOMAIN Rendered = {"panel", "launcher"} /\ Rendered.panel = FALSE /\ Rendered.launcher = launcher
    BY <2>1
  <2> QED
    BY <1>2, <2>2 DEF launcher
<1> QED
  BY <1>1, <1>2

LEMMA PageIsDrawn ==
  ASSUME ElementInv, BubblesInv, ScreenInv
  PROVE  ScreenShape(Rendered) /\ Drawn(Rendered)
<1>1. PICK s : s = Rendered
  OBVIOUS
<1>2. /\ {"panel", "launcher"} \subseteq DOMAIN s
      /\ s.panel \in BOOLEAN /\ (s.panel <=> ShowPanel) /\ s.launcher = Launcher
  BY <1>1, RenderedIs
<1>3. ASSUME s.panel
      PROVE  /\ PanelFields \subseteq DOMAIN s
             /\ s.title = resolvedTitle /\ s.badge = sessionConfig
             /\ s.input = (IF screen.panel THEN SetInput(screen) ELSE draft)
             /\ s.inputSet = draft /\ s.disabled \in BOOLEAN /\ (s.disabled <=> Disabled)
             /\ s.keys = Keys(messages) /\ s.rows = Rows
  BY <1>1, <1>3, RenderedIs
<1>4. (IF screen.panel THEN SetInput(screen) ELSE draft) = draft
  BY DEF SetInput, ScreenInv, InputIsDraft
<1>5. RowsFit(Rows, messages) /\ messages \in Seq(Bubbles) /\ Distinct(messages)
  BY RowsAreDrawn, BubblesNow
<1>6. RowsHave(Rows, Keys(messages))
  BY <1>5, FitRowsHave
<1>7. ScreenShape(s)
  BY <1>2, <1>3, <1>6 DEF ScreenShape
<1>8. s.panel => PanelDrawn(s)
  BY <1>3, <1>4, <1>5 DEF PanelDrawn
<1>9. Drawn(s)
  BY <1>2, <1>8 DEF Drawn
<1> QED
  BY <1>1, <1>7, <1>9

(* The page is as it must be as long as nothing that it shows is set.      *)
LEMMA DrawnStays ==
  ASSUME NEW s, Drawn(s), Shown = {}, sessionConfig => sessionConfig'
  PROVE  Drawn(s)'
<1>1. reactive' = reactive
  BY DEF Shown
<1>2. /\ messages' = messages /\ streaming' = streaming /\ open_' = open_ /\ ready' = ready
      /\ resolvedTitle' = resolvedTitle /\ draft' = draft
  BY <1>1 DEF reactive
<1>3. /\ ShowPanel' <=> ShowPanel
      /\ Launcher' = Launcher /\ (Disabled' <=> Disabled)
      /\ Keys(messages)' = Keys(messages)
      /\ RowsFit(s.rows, messages)' <=> RowsFit(s.rows, messages)
  BY <1>2 DEF ShowPanel, Launcher, Disabled, Keys, RowsFit
<1>4. s.panel => PanelDrawn(s)'
  BY <1>2, <1>3 DEF Drawn, PanelDrawn
<1> QED
  BY <1>3, <1>4 DEF Drawn

(* The handlers ask for an update when they set what the page shows. *)
LEMMA HandlerKeepsScreen ==
  ASSUME ScreenInv, RequestUpdate(Shown), screen' = screen,
         sessionConfig => sessionConfig',
         screen.panel => draft' = draft \/ draft' # screen.inputSet
  PROVE  ScreenInv'
<1>1. PICK s : s = screen
  OBVIOUS
<1>2. PICK asked \in BOOLEAN : asked = (Shown # {})
  OBVIOUS
<1>3. isUpdatePending' = (isUpdatePending \/ asked) /\ enabled' = enabled /\ screen' = s
  BY <1>1, <1>2 DEF RequestUpdate
<1>4. /\ isUpdatePending \in BOOLEAN /\ enabled \in BOOLEAN
      /\ ScreenShape(s) /\ (s.panel => enabled /\ InputIsDraft(s))
      /\ ~ isUpdatePending => Drawn(s)
  BY <1>1 DEF ScreenInv
<1>5. isUpdatePending' \in BOOLEAN /\ (~ isUpdatePending' => ~ isUpdatePending /\ ~ asked)
  BY <1>3, <1>4
<1>6. ASSUME ~ isUpdatePending' PROVE Drawn(s)'
  <2>1. Drawn(s) /\ Shown = {}
    BY <1>2, <1>4, <1>5, <1>6
  <2> QED
    BY <2>1, DrawnStays
<1>7. s.panel => InputIsDraft(s)'
  BY <1>1, <1>4 DEF InputIsDraft
<1>8. ScreenShape(s)'
  BY <1>4 DEF ScreenShape, RowsHave
<1>9. /\ ScreenShape(screen)' /\ (screen'.panel => enabled' /\ InputIsDraft(screen)')
      /\ ~ isUpdatePending' => Drawn(screen)'
  BY <1>3, <1>4, <1>6, <1>7, <1>8
<1> QED
  BY <1>3, <1>4, <1>5, <1>9 DEF ScreenInv

LEMMA UpdateKeepsScreen ==
  ASSUME ElementInv, BubblesInv, ScreenInv, Update
  PROVE  ScreenInv'
<1>1. PICK s : s = Rendered
  OBVIOUS
<1>2. PICK asked \in BOOLEAN : asked = (Shown # {})
  OBVIOUS
<1>3. isUpdatePending' = asked /\ enabled' = enabled /\ enabled = TRUE /\ screen' = s
  BY <1>1, <1>2 DEF Update, Updated, MayUpdate, ScreenInv
<1>4. ScreenShape(s) /\ Drawn(s)
  BY <1>1, PageIsDrawn
<1>5. sessionConfig' = sessionConfig /\ draft' = draft
  BY DEF Update
<1>6. ASSUME ~ isUpdatePending' PROVE Drawn(s)'
  <2>1. Shown = {}
    BY <1>2, <1>3, <1>6
  <2> QED
    BY <1>4, <1>5, <2>1, DrawnStays
<1>7. s.panel => InputIsDraft(s)'
  BY <1>4, <1>5 DEF Drawn, PanelDrawn, InputIsDraft
<1>8. ScreenShape(s)'
  BY <1>4 DEF ScreenShape, RowsHave
<1>9. /\ ScreenShape(screen)' /\ (screen'.panel => enabled' /\ InputIsDraft(screen)')
      /\ ~ isUpdatePending' => Drawn(screen)'
  BY <1>3, <1>6, <1>7, <1>8
<1> QED
  BY <1>3, <1>9 DEF ScreenInv

LEMMA TypeTextKeepsScreen ==
  ASSUME ScreenInv, NEW t \in Turns, TypeText(t)
  PROVE  ScreenInv'
<1>1. PICK s : s = screen
  OBVIOUS
<1>2. PICK r : r = [s EXCEPT !.input = t]
  OBVIOUS
<1>3. PICK asked \in BOOLEAN : asked = (Shown # {})
  OBVIOUS
<1>4. /\ s.panel /\ screen' = r /\ draft' = t /\ sessionConfig' = sessionConfig
      /\ isUpdatePending' = (isUpdatePending \/ asked) /\ enabled' = enabled
  BY <1>1, <1>2, <1>3 DEF TypeText, Input, RequestUpdate
<1>5. /\ isUpdatePending \in BOOLEAN /\ enabled \in BOOLEAN /\ enabled
      /\ ScreenShape(s) /\ (~ isUpdatePending => Drawn(s))
  BY <1>1, <1>4 DEF ScreenInv
<1>6. PanelFields \subseteq DOMAIN s /\ RowsHave(s.rows, s.keys) /\ s.panel \in BOOLEAN
  BY <1>4, <1>5 DEF ScreenShape
<1>7. /\ DOMAIN r = DOMAIN s /\ r.input = t /\ r.panel = s.panel /\ r.launcher = s.launcher
      /\ r.title = s.title /\ r.badge = s.badge /\ r.inputSet = s.inputSet
      /\ r.disabled = s.disabled /\ r.keys = s.keys /\ r.rows = s.rows
  BY <1>2, <1>6 DEF PanelFields
<1>8. ScreenShape(r)
  BY <1>5, <1>7 DEF ScreenShape
<1>9. ScreenShape(r)'
  BY <1>8 DEF ScreenShape, RowsHave
<1>10. InputIsDraft(r)'
  BY <1>4, <1>7 DEF InputIsDraft
<1>11. isUpdatePending' \in BOOLEAN /\ (~ isUpdatePending' => ~ isUpdatePending /\ ~ asked)
  BY <1>4, <1>5
<1>12. ASSUME ~ isUpdatePending' PROVE Drawn(r)'
  <2>1. Drawn(s) /\ Shown = {}
    BY <1>3, <1>5, <1>11, <1>12
  <2>2. draft = t
    BY <1>4, <2>1 DEF Shown, reactive
  <2>3. PanelDrawn(r)
    BY <1>4, <1>7, <2>1, <2>2 DEF Drawn, PanelDrawn
  <2>4. Drawn(r)
    BY <1>7, <2>1, <2>3 DEF Drawn
  <2> QED
    BY <1>4, <2>1, <2>4, DrawnStays
<1>13. /\ ScreenShape(screen)' /\ (screen'.panel => enabled' /\ InputIsDraft(screen)')
       /\ ~ isUpdatePending' => Drawn(screen)'
  BY <1>4, <1>5, <1>9, <1>10, <1>12
<1>14. enabled' \in BOOLEAN
  BY <1>4, <1>5
<1> QED
  BY <1>11, <1>13, <1>14 DEF ScreenInv

(* A step that asks for an update whatever it sets *)
LEMMA AskingKeepsScreen ==
  ASSUME ScreenInv, screen' = screen, draft' = draft,
         RequestUpdate({"shown"}) \/ RequestUpdate({"connection"})
  PROVE  ScreenInv'
<1>1. PICK s : s = screen
  OBVIOUS
<1>2. isUpdatePending' = TRUE /\ enabled' = enabled /\ screen' = s
  BY <1>1 DEF RequestUpdate
<1>3. ScreenShape(s) /\ (s.panel => enabled /\ InputIsDraft(s)) /\ enabled \in BOOLEAN
  BY <1>1 DEF ScreenInv
<1>4. ScreenShape(s)'
  BY <1>3 DEF ScreenShape, RowsHave
<1>5. s.panel => InputIsDraft(s)'
  BY <1>3 DEF InputIsDraft
<1>6. ScreenShape(screen)' /\ (screen'.panel => enabled' /\ InputIsDraft(screen)')
  BY <1>2, <1>3, <1>4, <1>5
<1> QED
  BY <1>2, <1>3, <1>6 DEF ScreenInv

(* A step that sets nothing the page shows *)
LEMMA NothingIsSet ==
  ASSUME ScreenInv, screen' = screen, reactive' = reactive, sessionConfig' = sessionConfig,
         isUpdatePending' = isUpdatePending,
         enabled' \in BOOLEAN, enabled => enabled'
  PROVE  ScreenInv'
<1>1. PICK s : s = screen
  OBVIOUS
<1>2. Shown = {} /\ draft' = draft /\ screen' = s
  BY <1>1 DEF Shown, reactive
<1>3. /\ ScreenShape(s) /\ (s.panel => enabled /\ InputIsDraft(s))
      /\ ~ isUpdatePending => Drawn(s)
  BY <1>1 DEF ScreenInv
<1>4. ~ isUpdatePending => Drawn(s)'
  BY <1>2, <1>3, DrawnStays
<1>5. ScreenShape(s)'
  BY <1>3 DEF ScreenShape, RowsHave
<1>6. s.panel => InputIsDraft(s)'
  BY <1>2, <1>3 DEF InputIsDraft
<1>7. /\ ScreenShape(screen)' /\ (screen'.panel => enabled' /\ InputIsDraft(screen)')
      /\ ~ isUpdatePending => Drawn(screen)'
  BY <1>2, <1>3, <1>4, <1>5, <1>6
<1> QED
  BY <1>7 DEF ScreenInv

(* What Enter takes out of the input was set there by the last update.     *)
LEMMA SubmitKeepsScreen ==
  ASSUME ScreenInv, SubmitText
  PROVE  ScreenInv'
<1>1. /\ screen.panel /\ ~ MayUpdate /\ Submit /\ RequestUpdate(Shown) /\ screen' = screen
  BY DEF SubmitText, Task, Handler
<1>2. sessionConfig' = sessionConfig /\ draft' = None /\ draft # None
  BY <1>1 DEF Submit
<1>3. ~ isUpdatePending /\ Drawn(screen)
  BY <1>1 DEF ScreenInv, MayUpdate
<1>4. screen.inputSet = draft
  BY <1>1, <1>3 DEF Drawn, PanelDrawn
<1> QED
  BY <1>1, <1>2, <1>4, HandlerKeepsScreen

(* The other handlers leave the input alone, and only reset drops a        *)
(* session.                                                                *)
LEMMA HandlersLeaveInput ==
  ASSUME ElementInv,
         \/ \E c \in Calls : Configured(c)
         \/ \E t \in Turns : Send(t) \/ Begin(t) \/ StreamStep(t)
         \/ \E p \in Opens : Toggle(p)
         \/ Disconnected
  PROVE  draft' = draft /\ (sessionConfig => sessionConfig')
<1>1. ASSUME NEW c \in Calls, Configured(c)
      PROVE  draft' = draft /\ (sessionConfig => sessionConfig')
  BY <1>1 DEF Configured
<1>2. ASSUME NEW t \in Turns, Send(t) \/ Begin(t)
      PROVE  draft' = draft /\ (sessionConfig => sessionConfig')
  BY <1>2 DEF Send, Begin, shell
<1>3. ASSUME NEW t \in Turns, StreamStep(t)
      PROVE  draft' = draft /\ (sessionConfig => sessionConfig')
  <2>1. UNCHANGED <<sessionConfig, shell>>
    BY <1>3 DEF StreamStep, Delta, DeltaAfterAbort, StreamEnds, StreamFails, Finally
  <2> QED
    BY <2>1 DEF shell
<1>4. ASSUME NEW p \in Opens, Toggle(p)
      PROVE  draft' = draft /\ (sessionConfig => sessionConfig')
  <2>1. Open(p) \/ Close
    BY <1>4 DEF Toggle
  <2> QED
    BY <2>1 DEF Open, Close
<1>5. CASE Disconnected
  BY <1>5 DEF Disconnected, shell
<1> QED
  BY <1>1, <1>2, <1>3, <1>4, <1>5

LEMMA ScreenStep ==
  ASSUME ElementInv, BubblesInv, ScreenInv, [Next]_vars
  PROVE  ScreenInv'
<1>1. ASSUME \/ \E c \in Calls : Configured(c)
             \/ \E t \in Turns : Send(t) \/ Begin(t) \/ StreamStep(t)
             \/ \E p \in Opens : Toggle(p)
             \/ Disconnected,
             RequestUpdate(Shown), screen' = screen
      PROVE  ScreenInv'
  <2>1. draft' = draft /\ (sessionConfig => sessionConfig')
    BY <1>1, HandlersLeaveInput
  <2> QED
    BY <1>1, <2>1, HandlerKeepsScreen
<1>2. ASSUME NEW t \in Turns, TypeText(t) PROVE ScreenInv'
  BY <1>2, TypeTextKeepsScreen
<1>3. ASSUME NEW p \in Resets, ResetByHost(p) PROVE ScreenInv'
  BY <1>3, AskingKeepsScreen DEF ResetByHost, Reset, shell
<1>4. CASE SubmitText
  BY <1>4, SubmitKeepsScreen
<1>5. CASE PutOnPage
  BY <1>5, NothingIsSet DEF PutOnPage, Connected, elementVars, reactive
<1>6. CASE SetAttribute
  BY <1>6, AskingKeepsScreen DEF SetAttribute, AttributeChanged, elementVars
<1>7. CASE Update
  BY <1>7, UpdateKeepsScreen
<1>8. CASE UNCHANGED vars
  BY <1>8, NothingIsSet DEF vars, elementVars, cycleVars, reactive, ScreenInv
<1> QED
  BY <1>1, <1>2, <1>3, <1>4, <1>5, <1>6, <1>7, <1>8 DEF Next, Handler, Task

LEMMA ScreenInit == Init => ScreenInv
<1> SUFFICES ASSUME Init PROVE ScreenInv
  OBVIOUS
<1>1. screen = [panel |-> FALSE, launcher |-> "none"] /\ enabled = FALSE /\ isUpdatePending = TRUE
  BY DEF Init, CycleInit
<1>2. DOMAIN screen = {"panel", "launcher"} /\ screen.panel = FALSE
  BY <1>1
<1> QED
  BY <1>1, <1>2 DEF ScreenInv, ScreenShape

(* The text of a bubble is that of its own stream. *)
LEMMA BubbleIsExpected ==
  ASSUME NEW b \in Bubbles, BubbleOK(b)
  PROVE  /\ Shows(b) = Expected(b)
         /\ Shows(b) = Template("typing") => pc[b.of] = "stream" \/ aborted[b.of]
<1>1. b.content = IF b.kind = "assistant" THEN content[b.of] ELSE 0
  BY DEF BubbleOK
<1>2. [b EXCEPT !.content = b.content] = b
  BY DEF Bubbles
<1>3. Expected(b) = Shows(b)
  BY <1>1, <1>2 DEF Expected
<1>4. ASSUME Shows(b) = Template("typing") PROVE b.streaming
  <2> SUFFICES ASSUME ~ b.streaming PROVE FALSE
    OBVIOUS
  <2>1. Shows(b) = Html(Says(b)) \/ Shows(b) = Text(Says(b))
    BY DEF Shows
  <2>2. Shows(b).as # "template"
    BY <2>1 DEF Html, Text
  <2> QED
    BY <1>4, <2>2 DEF Template
<1>5. b.streaming => pc[b.of] = "stream" \/ aborted[b.of]
  BY DEF BubbleOK
<1> QED
  BY <1>3, <1>4, <1>5

LEMMA CurrentScreen ==
  ASSUME ElementInv, BubblesInv, ScreenInv
  PROVE  ScreenIsCurrent
<1>1. ASSUME enabled, ~ isUpdatePending
      PROVE  /\ screen.panel = ShowPanel
             /\ screen.launcher = Launcher
  <2>1. (screen.panel <=> ShowPanel) /\ screen.launcher = Launcher
    BY <1>1 DEF ScreenInv, Drawn
  <2>2. screen.panel \in BOOLEAN /\ ShowPanel \in BOOLEAN
    BY DEF ScreenInv, ScreenShape, ShowPanel
  <2> QED
    BY <2>1, <2>2
<1>2. ASSUME enabled, ~ isUpdatePending, screen.panel
      PROVE  /\ screen.title = resolvedTitle
             /\ screen.input = draft
             /\ screen.disabled = Disabled
             /\ screen.badge => sessionConfig
             /\ RowsFit(screen.rows, messages)
  <2>1. PanelDrawn(screen)
    BY <1>2 DEF ScreenInv, Drawn
  <2>2. Disabled \in BOOLEAN
    BY DEF Disabled
  <2> QED
    BY <2>1, <2>2 DEF PanelDrawn
<1>3. ASSUME RowsFit(screen.rows, messages)
      PROVE  /\ Len(screen.rows) = Len(messages)
             /\ \A i \in DOMAIN messages :
                  /\ screen.rows[i].node = Key(messages[i])
                  /\ "error" \in screen.rows[i].classes <=> IsError(messages[i])
                  /\ screen.rows[i].shows = Expected(messages[i])
                  /\ screen.rows[i].shows = Template("typing") =>
                       pc[messages[i].of] = "stream" \/ aborted[messages[i].of]
  <2>1. Len(screen.rows) = Len(messages)
    BY <1>3 DEF RowsFit
  <2>2. ASSUME NEW i \in DOMAIN messages
        PROVE  /\ screen.rows[i].node = Key(messages[i])
               /\ "error" \in screen.rows[i].classes <=> IsError(messages[i])
               /\ screen.rows[i].shows = Expected(messages[i])
               /\ screen.rows[i].shows = Template("typing") =>
                    pc[messages[i].of] = "stream" \/ aborted[messages[i].of]
    <3>1. RowFits(screen.rows[i], messages[i])
      BY <1>3 DEF RowsFit
    <3>2. messages[i] \in Bubbles /\ BubbleOK(messages[i])
      BY BubblesNow
    <3>3. /\ Shows(messages[i]) = Expected(messages[i])
          /\ Shows(messages[i]) = Template("typing") =>
               pc[messages[i].of] = "stream" \/ aborted[messages[i].of]
      BY <3>2, BubbleIsExpected
    <3> QED
      BY <3>1, <3>3 DEF RowFits, RowShows
  <2> QED
    BY <2>1, <2>2
<1> QED
  BY <1>1, <1>2, <1>3 DEF ScreenIsCurrent

LEMMA ScreenKeeps == Spec => []ScreenInv
<1>1. ElementInv /\ BubblesInv /\ ScreenInv /\ [Next]_vars => ScreenInv'
  BY ScreenStep
<1> QED
  BY <1>1, ScreenInit, HandlersKeep, BubblesAreTheirOwn, PTL DEF Spec

(* When no update is to come the page is the state: the panel, its title,  *)
(* the input with its text and whether it can be used, and a row for each  *)
(* bubble, in the order of the list, with the text of its own stream       *)
(* (clankstack-agent.ts:713-831, and repeat in agent.js:650-680).          *)
THEOREM PageIsCurrent == Spec => []ScreenIsCurrent
<1>1. ElementInv /\ BubblesInv /\ ScreenInv => ScreenIsCurrent
  BY CurrentScreen
<1> QED
  BY <1>1, HandlersKeep, BubblesAreTheirOwn, ScreenKeeps, PTL

-----------------------------------------------------------------------------
(* What an update leaves alone *)

(* While an update is asked for, only the update leaves every call where   *)
(* it is.                                                                  *)
LEMMA OnlyUpdate ==
  ASSUME ElementInv, [Next]_vars, MayUpdate, pc' = pc
  PROVE  Update \/ UNCHANGED vars
<1>1. ASSUME NEW c \in Calls, Configured(c) PROVE FALSE
  <2>1. pc[c] = "config" /\ pc' = [pc EXCEPT ![c] = AfterConfig(c)] /\ AfterConfig(c) # "config"
    BY <1>1 DEF Configured, GoTo, AfterConfig
  <2>2. pc'[c] = AfterConfig(c)
    BY <2>1, BubblesAre
  <2> QED
    BY <2>1, <2>2
<1>2. ASSUME NEW t \in Turns, Begin(t) PROVE FALSE
  <2>1. t \in Calls /\ pc[t] = "ready" /\ pc' = [pc EXCEPT ![t] = "stream"]
    BY <1>2 DEF Begin, GoTo, Calls
  <2>2. pc'[t] = "stream"
    BY <2>1, BubblesAre
  <2> QED
    BY <2>1, <2>2
<1>3. ASSUME PutOnPage PROVE FALSE
  BY <1>3 DEF PutOnPage, Connected, MayUpdate
<1> QED
  BY <1>1, <1>2, <1>3
     DEF Next, Handler, Task, TypeText, SubmitText, ResetByHost, SetAttribute

StepKeepsNodes ==
  screen.panel /\ screen'.panel /\ MayUpdate /\ pc' = pc =>
    \A i \in DOMAIN screen.keys, j \in DOMAIN screen'.rows :
      screen.keys[i] = screen'.keys[j] =>
        /\ screen'.rows[j].node = screen.rows[i].node
        /\ screen'.rows[j].made # "row"
        /\ screen'.rows[j].shows = screen.rows[i].shows
             => screen'.rows[j].made = "nothing"

LEMMA UpdateKeepsNodes ==
  ASSUME ElementInv, BubblesInv, ScreenInv, Update
  PROVE  StepKeepsNodes
<1> SUFFICES ASSUME screen.panel, screen'.panel,
                    NEW i \in DOMAIN screen.keys, NEW j \in DOMAIN screen'.rows,
                    screen.keys[i] = screen'.keys[j]
             PROVE  /\ screen'.rows[j].node = screen.rows[i].node
                    /\ screen'.rows[j].made # "row"
                    /\ screen'.rows[j].shows = screen.rows[i].shows
                         => screen'.rows[j].made = "nothing"
  BY DEF StepKeepsNodes
<1>1. screen' = Rendered
  BY DEF Update
<1>2. screen'.rows = Rows /\ screen'.keys = Keys(messages)
  BY <1>1, RenderedIs
<1>3. RowsStay(Rows, Keys(messages), screen.rows, screen.keys)
  BY RowsAreDrawn
<1>4. i \in 1..Len(screen.keys)
  BY DEF ScreenInv, ScreenShape, RowsHave, IsList
<1>5. RowKept(screen'.rows[j], screen.rows[i])
  BY <1>2, <1>3, <1>4 DEF RowsStay
<1> QED
  BY <1>5 DEF RowKept

(* While the panel is there an update keeps the nodes of every bubble that *)
(* stays, and the nodes of its text when that is the same: repeat moves    *)
(* rows along with their keys, and unsafeHTML remembers its last result    *)
(* (agent.js:650-680, clankstack-agent.ts:771-775 and 822).                *)
THEOREM NodesAreKept == Spec => NodesKept
<1>1. ASSUME ElementInv, BubblesInv, ScreenInv, [Next]_vars
      PROVE  StepKeepsNodes \/ UNCHANGED vars
  <2>1. CASE MayUpdate /\ pc' = pc
    BY <1>1, <2>1, OnlyUpdate, UpdateKeepsNodes
  <2>2. CASE ~ (MayUpdate /\ pc' = pc)
    BY <2>2 DEF StepKeepsNodes
  <2> QED
    BY <2>1, <2>2
<1>2. ElementInv /\ BubblesInv /\ ScreenInv /\ [Next]_vars =>
        [screen.panel /\ screen'.panel /\ MayUpdate /\ pc' = pc =>
           \A i \in DOMAIN screen.keys, j \in DOMAIN screen'.rows :
             screen.keys[i] = screen'.keys[j] =>
               /\ screen'.rows[j].node = screen.rows[i].node
               /\ screen'.rows[j].made # "row"
               /\ screen'.rows[j].shows = screen.rows[i].shows
                    => screen'.rows[j].made = "nothing"]_vars
  BY <1>1 DEF StepKeepsNodes
<1> QED
  BY <1>2, HandlersKeep, BubblesAreTheirOwn, ScreenKeeps, PTL DEF Spec, NodesKept

-----------------------------------------------------------------------------
(* What Enter does *)

(* What the visitor hits Enter on goes into a turn: sendMessage drops a    *)
(* text while a stream runs or there is no client, and then the input is   *)
(* disabled (clankstack-agent.ts:578-580, 681-687 and 794).                *)
THEOREM SubmittedTurns == Spec => SubmittedIsSent
<1>1. ASSUME ElementInv, ScreenInv, [Next]_vars, draft # None, draft' = None
      PROVE  pc'[draft] # "new"
  <2>1. SubmitText
    <3>1. None \notin Turns
      BY ElementAssumption DEF Calls
    <3>2. draft' = draft => FALSE
      BY <1>1
    <3>3. ASSUME NEW t \in Turns, TypeText(t) PROVE FALSE
      BY <3>1, <3>3, <1>1 DEF TypeText, Input
    <3>4. ASSUME \/ \E c \in Calls : Configured(c)
                 \/ \E t \in Turns : Send(t) \/ Begin(t) \/ StreamStep(t)
                 \/ \E p \in Opens : Toggle(p)
                 \/ Disconnected
          PROVE  FALSE
      BY <1>1, <3>2, <3>4, HandlersLeaveInput
    <3>5. ASSUME NEW p \in Resets, Reset(p) PROVE FALSE
      BY <3>2, <3>5 DEF Reset, shell
    <3>6. CASE Update \/ UNCHANGED elementVars
      BY <3>2, <3>6 DEF Update, elementVars
    <3> QED
      BY <1>1, <3>3, <3>4, <3>5, <3>6
         DEF Next, Handler, Task, ResetByHost, PutOnPage, SetAttribute, vars
  <2>2. screen.panel /\ ~ screen.disabled /\ ~ MayUpdate /\ Submit
    BY <2>1 DEF SubmitText, Task, Handler
  <2>3. PanelDrawn(screen)
    BY <1>1, <2>2 DEF ScreenInv, Drawn, MayUpdate
  <2>4. ~ streaming /\ ready
    BY <2>2, <2>3 DEF PanelDrawn, Disabled
  <2>5. EnsureConfig(draft, sessionConfig)
    BY <2>2, <2>4 DEF Submit, SendMessage
  <2>6. draft \in Turns /\ sessionConfig \in BOOLEAN
    BY <1>1 DEF ElementInv, ElementTypeOK
  <2> QED
    BY <1>1, <2>5, <2>6, EnsureMoves DEF Calls
<1>2. ElementInv /\ ScreenInv /\ [Next]_vars =>
        [draft # None /\ draft' = None => pc'[draft] # "new"]_elementVars
  BY <1>1
<1> QED
  BY <1>2, HandlersKeep, ScreenKeeps, PTL DEF Spec, SubmittedIsSent
=============================================================================
