---------------------------- MODULE MeterProofs ----------------------------
(***************************************************************************)
(* BoundedOvershoot holds of every Meter: any number of accounts and       *)
(* requests, any caps and any sizes of prompts and pieces.                 *)
(***************************************************************************)
EXTENDS Meter, FiniteSetTheorems, TLAPS

(* Requests that are checked and requests that stream are different        *)
(* requests, so together they are no more than all of them; so are the     *)
(* prompts and the pieces under way.                                       *)
LEMMA DisjointPair ==
  ASSUME NEW S, IsFiniteSet(S), NEW A \in SUBSET S, NEW B \in SUBSET S,
         A \cap B = {}
  PROVE  /\ Cardinality(A) \in Nat
         /\ Cardinality(B) \in Nat
         /\ Cardinality(S) \in Nat
         /\ Cardinality(A) + Cardinality(B) <= Cardinality(S)
<1>1. IsFiniteSet(A) /\ IsFiniteSet(B) /\ IsFiniteSet(A \cup B)
  BY FS_Subset, FS_Union
<1>2. Cardinality(A \cup B) = Cardinality(A) + Cardinality(B) - Cardinality(A \cap B)
  BY <1>1, FS_Union
<1>3. Cardinality(A \cap B) = 0
  BY FS_EmptySet
<1>4. Cardinality(A \cup B) <= Cardinality(S)
  BY FS_Subset
<1>5. /\ Cardinality(A) \in Nat
      /\ Cardinality(B) \in Nat
      /\ Cardinality(S) \in Nat
  BY <1>1, FS_CardinalityType
<1> QED
  BY <1>2, <1>3, <1>4, <1>5

(* What m checked and n streaming requests may still charge is at most     *)
(* what k >= m + n freshly checked requests may.                           *)
LEMMA Weights ==
  ASSUME NEW m \in Nat, NEW n \in Nat, NEW k \in Nat, m + n <= k,
         NEW P \in Nat, NEW C \in Nat
  PROVE  /\ m * (P + C) \in Nat
         /\ n * C \in Nat
         /\ k * (P + C) \in Nat
         /\ m * (P + C) + n * C <= k * (P + C)
<1> DEFINE W == P + C
<1>1. W \in Nat /\ C <= W
  OBVIOUS
<1> HIDE DEF W
<1>2. /\ m * W \in Nat
      /\ n * W \in Nat
      /\ k * W \in Nat
      /\ n * C \in Nat
  BY <1>1
<1>3. n * C <= n * W
  BY <1>1
<1>4. (m + n) * W <= k * W
  BY <1>1
<1>5. (m + n) * W = m * W + n * W
  BY <1>1
<1>6. m * W + n * C <= k * W
  BY <1>2, <1>3, <1>4, <1>5
<1> QED
  BY <1>2, <1>6 DEF W

(* What k pairwise different charges, m prompts and n pieces, may cost *)
LEMMA LateWeights ==
  ASSUME NEW m \in Nat, NEW n \in Nat, NEW k \in Nat, m + n <= k,
         NEW P \in Nat, NEW C \in Nat, NEW W \in Nat, P <= W, C <= W
  PROVE  /\ m * P + n * C \in Nat
         /\ k * W \in Nat
         /\ m * P + n * C <= k * W
<1>1. /\ m * P \in Nat /\ n * C \in Nat
      /\ m * W \in Nat /\ n * W \in Nat /\ k * W \in Nat
  OBVIOUS
<1>2. m * P <= m * W
  OBVIOUS
<1>3. n * C <= n * W
  OBVIOUS
<1>4. (m + n) * W <= k * W
  OBVIOUS
<1>5. (m + n) * W = m * W + n * W
  OBVIOUS
<1> QED
  BY <1>1, <1>2, <1>3, <1>4, <1>5

LEMMA LateBound ==
  ASSUME MeterAssumption,
         NEW P \in SUBSET Slots, NEW C \in SUBSET Slots, P \cap C = {}
  PROVE  /\ LateOf(P, C) \in Nat
         /\ Cardinality(Slots) * Largest \in Nat
         /\ LateOf(P, C) <= Cardinality(Slots) * Largest
<1> DEFINE m == Cardinality(P)
           n == Cardinality(C)
           k == Cardinality(Slots)
<1>1. /\ MaxPrompt \in Nat /\ MaxChunk \in Nat /\ Largest \in Nat
      /\ MaxPrompt <= Largest /\ MaxChunk <= Largest
  BY MeterAssumption DEF MeterAssumption, Largest
<1>2. m \in Nat /\ n \in Nat /\ k \in Nat /\ m + n <= k
  BY DisjointPair, MeterAssumption DEF MeterAssumption
<1>3. LateOf(P, C) = m * MaxPrompt + n * MaxChunk
  BY DEF LateOf
<1> HIDE DEF m, n, k
<1>4. /\ m * MaxPrompt + n * MaxChunk \in Nat
      /\ k * Largest \in Nat
      /\ m * MaxPrompt + n * MaxChunk <= k * Largest
  BY <1>1, <1>2, LateWeights
<1> QED
  BY <1>3, <1>4 DEF k

(* The load is a number no smaller than what is recorded; while that is    *)
(* below the cap, what is in flight cannot pass the limit.                 *)
LEMMA LoadBound ==
  ASSUME MeterAssumption, NEW a \in Accounts, NEW u \in Nat,
         NEW A \in SUBSET Requests, NEW B \in SUBSET Requests, A \cap B = {},
         NEW P \in SUBSET Slots, NEW C \in SUBSET Slots, P \cap C = {}
  PROVE  /\ Limit(a) \in Int
         /\ LoadOf(u, A, B) \in Nat
         /\ LateOf(P, C) \in Nat
         /\ u <= LoadOf(u, A, B) + LateOf(P, C)
         /\ u < Cap[a] => LoadOf(u, A, B) + LateOf(P, C) <= Limit(a)
<1> DEFINE m == Cardinality(A)
           n == Cardinality(B)
           k == Cardinality(Requests)
           l == Cardinality(Slots) * Largest
<1>1. /\ Cap[a] \in Nat
      /\ MaxPrompt \in Nat
      /\ MaxChunk \in Nat
  BY MeterAssumption DEF MeterAssumption
<1>2. m \in Nat /\ n \in Nat /\ k \in Nat /\ m + n <= k
  BY DisjointPair, MeterAssumption DEF MeterAssumption
<1>3. /\ LoadOf(u, A, B) = u + m * (MaxPrompt + MaxChunk) + n * MaxChunk
      /\ Limit(a) = Cap[a] - 1 + k * (MaxPrompt + MaxChunk) + l
  BY DEF LoadOf, Limit
<1>l. LateOf(P, C) \in Nat /\ l \in Nat /\ LateOf(P, C) <= l
  BY LateBound, MeterAssumption
<1> HIDE DEF m, n, k, l
<1>4. /\ m * (MaxPrompt + MaxChunk) \in Nat
      /\ n * MaxChunk \in Nat
      /\ k * (MaxPrompt + MaxChunk) \in Nat
      /\ m * (MaxPrompt + MaxChunk) + n * MaxChunk <= k * (MaxPrompt + MaxChunk)
  BY <1>1, <1>2, Weights
<1> QED
  BY <1>1, <1>3, <1>4, <1>l

(* What the steps of a request do to the load: a prompt that is charged    *)
(* or given up, a piece that is, a request that leaves.                    *)
LEMMA LoadMoves ==
  ASSUME MeterAssumption,
         NEW u \in Nat, NEW r \in Requests,
         NEW A \in SUBSET Requests, NEW B \in SUBSET Requests, A \cap B = {}
  PROVE  /\ r \in A
              => LoadOf(u, A \ {r}, B \cup {r}) = LoadOf(u, A, B) - MaxPrompt
         /\ r \in B => LoadOf(u, A, B \ {r}) = LoadOf(u, A, B) - MaxChunk
         /\ r \in A \cup B
              => LoadOf(u, A \ {r}, B \ {r}) <= LoadOf(u, A, B)
         /\ LoadOf(0, A, B) <= LoadOf(u, A, B)
<1> DEFINE m == Cardinality(A)
           n == Cardinality(B)
<1>1. MaxPrompt \in Nat /\ MaxChunk \in Nat
  BY MeterAssumption DEF MeterAssumption
<1>2. m \in Nat /\ n \in Nat
  BY DisjointPair, MeterAssumption DEF MeterAssumption
<1>3. IsFiniteSet(A) /\ IsFiniteSet(B)
  BY FS_Subset, MeterAssumption DEF MeterAssumption
<1>4. /\ Cardinality(A \ {r}) = IF r \in A THEN m - 1 ELSE m
      /\ Cardinality(B \ {r}) = IF r \in B THEN n - 1 ELSE n
      /\ Cardinality(B \cup {r}) = IF r \in B THEN n ELSE n + 1
  BY <1>3, FS_AddElement, FS_RemoveElement
<1> HIDE DEF m, n
<1> DEFINE W == MaxPrompt + MaxChunk
<1>6. /\ (m - 1) * W = m * W - W
      /\ (n - 1) * MaxChunk = n * MaxChunk - MaxChunk
      /\ (n + 1) * MaxChunk = n * MaxChunk + MaxChunk
      /\ m * W \in Nat
      /\ n * MaxChunk \in Nat
  BY <1>1, <1>2
<1>7. LoadOf(u, A, B) = u + m * W + n * MaxChunk
  BY DEF LoadOf, m, n
<1>8. ASSUME r \in A
      PROVE  LoadOf(u, A \ {r}, B \cup {r}) = LoadOf(u, A, B) - MaxPrompt
  <2>1. LoadOf(u, A \ {r}, B \cup {r}) = u + (m - 1) * W + (n + 1) * MaxChunk
    BY <1>4, <1>8 DEF LoadOf
  <2> QED
    BY <1>1, <1>6, <1>7, <2>1
<1>9. ASSUME r \in B
      PROVE  LoadOf(u, A, B \ {r}) = LoadOf(u, A, B) - MaxChunk
  <2>1. LoadOf(u, A, B \ {r}) = u + m * W + (n - 1) * MaxChunk
    BY <1>4, <1>9 DEF LoadOf, m
  <2> QED
    BY <1>1, <1>6, <1>7, <2>1
<1>10. ASSUME r \in A \cup B
       PROVE  LoadOf(u, A \ {r}, B \ {r}) <= LoadOf(u, A, B)
  <2>1. \/ LoadOf(u, A \ {r}, B \ {r}) = u + (m - 1) * W + n * MaxChunk
        \/ LoadOf(u, A \ {r}, B \ {r}) = u + m * W + (n - 1) * MaxChunk
    BY <1>4, <1>10 DEF LoadOf
  <2> QED
    BY <1>1, <1>6, <1>7, <2>1
<1>11. LoadOf(0, A, B) <= LoadOf(u, A, B)
  <2>1. LoadOf(0, A, B) = 0 + m * W + n * MaxChunk
    BY DEF LoadOf, m, n
  <2> QED
    BY <1>1, <1>6, <1>7, <2>1
<1> QED
  BY <1>8, <1>9, <1>10, <1>11

LEMMA PromptLeaves ==
  ASSUME MeterAssumption, NEW u \in Nat, NEW r \in Requests,
         NEW A \in SUBSET Requests, NEW B \in SUBSET Requests, A \cap B = {},
         r \in A
  PROVE  LoadOf(u, A \ {r}, B \cup {r}) = LoadOf(u, A, B) - MaxPrompt
BY LoadMoves, Zenon

LEMMA PieceLeaves ==
  ASSUME MeterAssumption, NEW u \in Nat, NEW r \in Requests,
         NEW A \in SUBSET Requests, NEW B \in SUBSET Requests, A \cap B = {},
         r \in B
  PROVE  LoadOf(u, A, B \ {r}) = LoadOf(u, A, B) - MaxChunk
BY LoadMoves, Zenon

LEMMA LoadAdds ==
  ASSUME MeterAssumption, NEW u \in Nat, NEW k \in Nat, NEW v \in Nat, v = u + k,
         NEW A \in SUBSET Requests, NEW B \in SUBSET Requests, A \cap B = {}
  PROVE  LoadOf(v, A, B) = LoadOf(u, A, B) + k
<1> DEFINE m == Cardinality(A) * (MaxPrompt + MaxChunk)
           n == Cardinality(B) * MaxChunk
<1>1. LoadOf(u, A, B) = u + m + n /\ LoadOf(v, A, B) = v + m + n
  BY DEF LoadOf
<1>2. m \in Int /\ n \in Int
  <2>1. /\ Cardinality(A) \in Nat /\ Cardinality(B) \in Nat
        /\ MaxPrompt \in Nat /\ MaxChunk \in Nat
    BY DisjointPair, MeterAssumption DEF MeterAssumption
  <2> QED
    BY <2>1
<1> HIDE DEF m, n
<1> QED
  BY <1>1, <1>2

(* What a charge that starts or stops being under way does to it *)
LEMMA LateMoves ==
  ASSUME MeterAssumption, NEW c \in Slots,
         NEW P \in SUBSET Slots, NEW C \in SUBSET Slots, P \cap C = {}
  PROVE  /\ c \notin P => LateOf(P \cup {c}, C) = LateOf(P, C) + MaxPrompt
         /\ c \notin C => LateOf(P, C \cup {c}) = LateOf(P, C) + MaxChunk
         /\ c \in P => LateOf(P \ {c}, C) = LateOf(P, C) - MaxPrompt
         /\ c \in C => LateOf(P, C \ {c}) = LateOf(P, C) - MaxChunk
<1> DEFINE m == Cardinality(P)
           n == Cardinality(C)
<1>1. MaxPrompt \in Nat /\ MaxChunk \in Nat
  BY MeterAssumption DEF MeterAssumption
<1>2. m \in Nat /\ n \in Nat
  BY DisjointPair, MeterAssumption DEF MeterAssumption
<1>3. IsFiniteSet(P) /\ IsFiniteSet(C)
  BY FS_Subset, MeterAssumption DEF MeterAssumption
<1>4. /\ c \notin P => Cardinality(P \cup {c}) = m + 1
      /\ c \notin C => Cardinality(C \cup {c}) = n + 1
      /\ c \in P => Cardinality(P \ {c}) = m - 1
      /\ c \in C => Cardinality(C \ {c}) = n - 1
  BY <1>3, FS_AddElement, FS_RemoveElement
<1>5. /\ LateOf(P, C) = m * MaxPrompt + n * MaxChunk
      /\ c \notin P => LateOf(P \cup {c}, C) = (m + 1) * MaxPrompt + n * MaxChunk
      /\ c \notin C => LateOf(P, C \cup {c}) = m * MaxPrompt + (n + 1) * MaxChunk
      /\ c \in P => LateOf(P \ {c}, C) = (m - 1) * MaxPrompt + n * MaxChunk
      /\ c \in C => LateOf(P, C \ {c}) = m * MaxPrompt + (n - 1) * MaxChunk
  BY <1>4 DEF LateOf
<1> HIDE DEF m, n
<1>6. /\ (m + 1) * MaxPrompt = m * MaxPrompt + MaxPrompt
      /\ (n + 1) * MaxChunk = n * MaxChunk + MaxChunk
      /\ (m - 1) * MaxPrompt = m * MaxPrompt - MaxPrompt
      /\ (n - 1) * MaxChunk = n * MaxChunk - MaxChunk
      /\ m * MaxPrompt \in Nat /\ n * MaxChunk \in Nat
  BY <1>1, <1>2
<1> QED
  BY <1>1, <1>5, <1>6

LEMMA InitInv == ASSUME MeterAssumption, Init PROVE MeterInv
<1>1. MeterTypeOK
  BY DEF Init, MeterTypeOK
<1>2. ASSUME NEW a \in Accounts PROVE Load(a) <= Limit(a)
  <2>1. Load(a) = LoadOf(0, {}, {}) + LateOf({}, {})
    BY DEF Load, Init
  <2>2. Cap[a] \in Nat /\ MaxPrompt \in Nat /\ MaxChunk \in Nat \ {0}
    BY MeterAssumption DEF MeterAssumption
  <2>3. LoadOf(0, {}, {}) = 0 /\ LateOf({}, {}) = 0
    BY <2>2, FS_EmptySet DEF LoadOf, LateOf
  <2>4. Cardinality(Requests) \in Nat \ {0}
    BY MeterAssumption, FS_CardinalityType, FS_EmptySet DEF MeterAssumption
  <2> DEFINE k == Cardinality(Requests)
             l == Cardinality(Slots) * Largest
  <2>5. Limit(a) = Cap[a] - 1 + k * (MaxPrompt + MaxChunk) + l
    BY DEF Limit
  <2>6. k \in Nat \ {0}
    BY <2>4
  <2>l. l \in Nat
    <3>1. {} \in SUBSET Slots /\ {} \cap {} = {}
      OBVIOUS
    <3> QED
      BY <3>1, LateBound, MeterAssumption
  <2> HIDE DEF k, l
  <2>7. k * (MaxPrompt + MaxChunk) >= 1 /\ k * (MaxPrompt + MaxChunk) \in Nat
    BY <2>2, <2>6
  <2> QED
    BY <2>1, <2>2, <2>3, <2>5, <2>7, <2>l
<1> QED
  BY <1>1, <1>2 DEF MeterInv, Committed

(* What is known of an account, before and after a step *)
AccountOK(a) ==
  /\ used[a] \in Nat
  /\ checked[a] \in SUBSET Requests
  /\ streaming[a] \in SUBSET Requests
  /\ checked[a] \cap streaming[a] = {}
  /\ latePrompts[a] \in SUBSET Slots
  /\ lateChunks[a] \in SUBSET Slots
  /\ latePrompts[a] \cap lateChunks[a] = {}
  /\ LoadOf(used[a], checked[a], streaming[a]) \in Nat
  /\ LateOf(latePrompts[a], lateChunks[a]) \in Nat
  /\ Limit(a) \in Int
  /\ used[a] <= Load(a)
  /\ used[a] < Cap[a] => Load(a) <= Limit(a)

LEMMA AccountsOK ==
  MeterAssumption /\ MeterTypeOK => \A a \in Accounts : AccountOK(a)
<1> SUFFICES ASSUME MeterAssumption, MeterTypeOK, NEW a \in Accounts
             PROVE  AccountOK(a)
  OBVIOUS
<1>1. /\ used[a] \in Nat
      /\ checked[a] \in SUBSET Requests
      /\ streaming[a] \in SUBSET Requests
      /\ checked[a] \cap streaming[a] = {}
      /\ latePrompts[a] \in SUBSET Slots
      /\ lateChunks[a] \in SUBSET Slots
      /\ latePrompts[a] \cap lateChunks[a] = {}
  BY DEF MeterTypeOK
<1>2. /\ LoadOf(used[a], checked[a], streaming[a]) \in Nat
      /\ LateOf(latePrompts[a], lateChunks[a]) \in Nat
      /\ Limit(a) \in Int
      /\ used[a] <= Load(a)
      /\ used[a] < Cap[a] => Load(a) <= Limit(a)
  BY <1>1, LoadBound, MeterAssumption DEF Load
<1> QED
  BY <1>1, <1>2 DEF AccountOK

LEMMA AccountsOKNext ==
  ASSUME MeterAssumption, MeterTypeOK', NEW a \in Accounts
  PROVE  AccountOK(a)'
<1>1. /\ used'[a] \in Nat
      /\ checked'[a] \in SUBSET Requests
      /\ streaming'[a] \in SUBSET Requests
      /\ checked'[a] \cap streaming'[a] = {}
      /\ latePrompts'[a] \in SUBSET Slots
      /\ lateChunks'[a] \in SUBSET Slots
      /\ latePrompts'[a] \cap lateChunks'[a] = {}
  BY DEF MeterTypeOK
<1>2. /\ LoadOf(used'[a], checked'[a], streaming'[a]) \in Nat
      /\ LateOf(latePrompts'[a], lateChunks'[a]) \in Nat
      /\ Limit(a) \in Int
      /\ used'[a] <= LoadOf(used'[a], checked'[a], streaming'[a])
                        + LateOf(latePrompts'[a], lateChunks'[a])
      /\ used'[a] < Cap[a]
           => LoadOf(used'[a], checked'[a], streaming'[a])
                + LateOf(latePrompts'[a], lateChunks'[a]) <= Limit(a)
  BY <1>1, LoadBound, MeterAssumption
<1>3. Limit(a)' = Limit(a)
  BY DEF Limit
<1> QED
  BY <1>1, <1>2, <1>3 DEF AccountOK, Load

(* A step that leaves every account alone but one, which its load does not *)
(* raise or which is below its cap after it, keeps the invariant.          *)
LEMMA OneAccount ==
  ASSUME MeterAssumption, MeterInv, MeterTypeOK', NEW a \in Accounts,
         Load(a)' <= Load(a) \/ used'[a] < Cap[a],
         \A b \in Accounts \ {a} : Load(b)' = Load(b)
  PROVE  MeterInv'
<1>1. AccountOK(a) /\ AccountOK(a)'
  BY AccountsOK, AccountsOKNext DEF MeterInv
<1>2. Limit(a)' = Limit(a) /\ \A b \in Accounts : Limit(b)' = Limit(b)
  BY DEF Limit
<1>3. Load(a) \in Int /\ Load(a)' \in Int /\ Limit(a) \in Int
  BY <1>1 DEF AccountOK, Load
<1>4. Load(a) <= Limit(a)
  BY DEF MeterInv, Committed
<1>5. used'[a] < Cap[a] => Load(a)' <= Limit(a)
  BY <1>1, <1>2 DEF AccountOK
<1>6. Load(a)' <= Limit(a)
  BY <1>3, <1>4, <1>5
<1>7. ASSUME NEW b \in Accounts PROVE (Load(b) <= Limit(b))'
  BY <1>2, <1>6 DEF MeterInv, Committed
<1> QED
  BY <1>7 DEF MeterInv, Committed

(* Each operation keeps the type and the load of every account.            *)
LEMMA NextInv == ASSUME MeterAssumption, MeterInv, [Next]_vars PROVE MeterInv'
<1>t. MeterTypeOK /\ Committed
  BY DEF MeterInv
<1>c. Cap \in [Accounts -> Nat] /\ MaxPrompt \in Nat /\ MaxChunk \in Nat
  BY MeterAssumption DEF MeterAssumption
<1>n. \A a \in Accounts : AccountOK(a)
  BY <1>t, AccountsOK
<1>1. ASSUME NEW r \in Requests, NEW a \in Accounts, Admit(r, a)
      PROVE  MeterInv'
  <2>1. r \notin streaming[a]
    BY <1>1 DEF Admit, Idle
  <2>2. MeterTypeOK'
    BY <1>1, <1>t, <2>1 DEF Admit, MeterTypeOK, late
  <2>3. used'[a] < Cap[a]
    BY <1>1 DEF Admit
  <2>4. \A b \in Accounts \ {a} : Load(b)' = Load(b)
    BY <1>1, <1>t DEF Admit, Load, MeterTypeOK, late
  <2> QED
    BY <2>2, <2>3, <2>4, OneAccount
<1>2. ASSUME NEW r \in Requests, NEW a \in Accounts, ChargePrompt(r, a)
      PROVE  MeterInv'
  <2>1. PICK k \in 0..MaxPrompt : used' = [used EXCEPT ![a] = @ + k]
    BY <1>2 DEF ChargePrompt
  <2>2. /\ r \in checked[a]
        /\ checked' = [checked EXCEPT ![a] = @ \ {r}]
        /\ streaming' = [streaming EXCEPT ![a] = @ \cup {r}]
        /\ latePrompts' = latePrompts /\ lateChunks' = lateChunks
    BY <1>2 DEF ChargePrompt, late
  <2>3. k \in Nat /\ k <= MaxPrompt
    BY <1>c
  <2>4. MeterTypeOK'
    BY <1>t, <2>1, <2>2, <2>3 DEF MeterTypeOK
  <2>5. Load(a)' <= Load(a)
    <3>u. PICK u \in Nat : u = used[a] + k
      BY <1>n, <2>3 DEF AccountOK
    <3>1. Load(a)' = LoadOf(u, checked[a] \ {r}, streaming[a] \cup {r})
                       + LateOf(latePrompts[a], lateChunks[a])
      BY <1>t, <2>1, <2>2, <3>u DEF Load, MeterTypeOK
    <3>2. LoadOf(u, checked[a], streaming[a])
            = LoadOf(used[a], checked[a], streaming[a]) + k
      BY <1>n, <2>3, <3>u, LoadAdds, MeterAssumption DEF AccountOK
    <3>3. LoadOf(u, checked[a] \ {r}, streaming[a] \cup {r})
            = LoadOf(u, checked[a], streaming[a]) - MaxPrompt
      BY <1>n, <2>2, PromptLeaves, MeterAssumption DEF AccountOK
    <3>4. /\ LoadOf(used[a], checked[a], streaming[a]) \in Nat
          /\ LateOf(latePrompts[a], lateChunks[a]) \in Nat
      BY <1>n DEF AccountOK
    <3> QED
      BY <1>c, <2>3, <3>1, <3>2, <3>3, <3>4 DEF Load
  <2>6. \A b \in Accounts \ {a} : Load(b)' = Load(b)
    BY <1>t, <2>1, <2>2 DEF Load, MeterTypeOK
  <2> QED
    BY <2>4, <2>5, <2>6, OneAccount
<1>3. ASSUME NEW r \in Requests, NEW a \in Accounts, ChargeChunk(r, a)
      PROVE  MeterInv'
  <2>1. PICK k \in 0..MaxChunk : used' = [used EXCEPT ![a] = @ + k]
    BY <1>3 DEF ChargeChunk
  <2>2. /\ r \in streaming[a] /\ checked' = checked
        /\ latePrompts' = latePrompts /\ lateChunks' = lateChunks
    BY <1>3 DEF ChargeChunk, late
  <2>3. k \in Nat /\ k <= MaxChunk
    BY <1>c
  <2>4. CASE StaysBelow(a) /\ UNCHANGED streaming
    <3>1. MeterTypeOK'
      BY <1>t, <2>1, <2>2, <2>3, <2>4 DEF MeterTypeOK
    <3>2. used'[a] < Cap[a]
      BY <2>4 DEF StaysBelow
    <3>3. \A b \in Accounts \ {a} : Load(b)' = Load(b)
      BY <1>t, <2>1, <2>2, <2>4 DEF Load, MeterTypeOK
    <3> QED
      BY <3>1, <3>2, <3>3, OneAccount
  <2>5. CASE streaming' = [streaming EXCEPT ![a] = @ \ {r}]
    <3>1. MeterTypeOK'
      BY <1>t, <2>1, <2>2, <2>3, <2>5 DEF MeterTypeOK
    <3>2. Load(a)' <= Load(a)
      <4>u. PICK u \in Nat : u = used[a] + k
        BY <1>n, <2>3 DEF AccountOK
      <4>1. Load(a)' = LoadOf(u, checked[a], streaming[a] \ {r})
                         + LateOf(latePrompts[a], lateChunks[a])
        BY <1>t, <2>1, <2>2, <2>5, <4>u DEF Load, MeterTypeOK
      <4>2. LoadOf(u, checked[a], streaming[a])
              = LoadOf(used[a], checked[a], streaming[a]) + k
        BY <1>n, <2>3, <4>u, LoadAdds, MeterAssumption DEF AccountOK
      <4>3. LoadOf(u, checked[a], streaming[a] \ {r})
              = LoadOf(u, checked[a], streaming[a]) - MaxChunk
        BY <1>n, <2>2, PieceLeaves, MeterAssumption DEF AccountOK
      <4>4. /\ LoadOf(used[a], checked[a], streaming[a]) \in Nat
            /\ LateOf(latePrompts[a], lateChunks[a]) \in Nat
        BY <1>n DEF AccountOK
      <4> QED
        BY <1>c, <2>3, <4>1, <4>2, <4>3, <4>4 DEF Load
    <3>3. \A b \in Accounts \ {a} : Load(b)' = Load(b)
      BY <1>t, <2>1, <2>2, <2>5 DEF Load, MeterTypeOK
    <3> QED
      BY <3>1, <3>2, <3>3, OneAccount
  <2> QED
    BY <1>3, <2>4, <2>5 DEF ChargeChunk
<1>4. ASSUME NEW r \in Requests, NEW a \in Accounts, Leave(r, a)
      PROVE  MeterInv'
  <2>1. /\ r \in checked[a] \cup streaming[a]
        /\ checked' = [checked EXCEPT ![a] = @ \ {r}]
        /\ streaming' = [streaming EXCEPT ![a] = @ \ {r}]
        /\ used' = used
        /\ latePrompts' = latePrompts /\ lateChunks' = lateChunks
    BY <1>4 DEF Leave, late
  <2>2. MeterTypeOK'
    BY <1>t, <2>1 DEF MeterTypeOK
  <2>3. Load(a)' <= Load(a)
    <3>1. Load(a)' = LoadOf(used[a], checked[a] \ {r}, streaming[a] \ {r})
                       + LateOf(latePrompts[a], lateChunks[a])
      BY <1>t, <2>1 DEF Load, MeterTypeOK
    <3>2. LoadOf(used[a], checked[a] \ {r}, streaming[a] \ {r})
            <= LoadOf(used[a], checked[a], streaming[a])
      BY <1>n, <2>1, LoadMoves, MeterAssumption DEF AccountOK
    <3>3. /\ LoadOf(used[a], checked[a], streaming[a]) \in Nat
          /\ LateOf(latePrompts[a], lateChunks[a]) \in Nat
          /\ LoadOf(used[a], checked[a] \ {r}, streaming[a] \ {r}) \in Nat
      <4>1. AccountOK(a) /\ AccountOK(a)'
        BY <1>n, <2>2, AccountsOKNext
      <4> QED
        BY <1>t, <2>1, <4>1 DEF AccountOK, MeterTypeOK
    <3> QED
      BY <3>1, <3>2, <3>3 DEF Load
  <2>4. \A b \in Accounts \ {a} : Load(b)' = Load(b)
    BY <1>t, <2>1 DEF Load, MeterTypeOK
  <2> QED
    BY <2>2, <2>3, <2>4, OneAccount
<1>5. CASE NewPeriod
  <2>1. MeterTypeOK'
    BY <1>5, <1>t DEF NewPeriod, MeterTypeOK, late
  <2>2. ASSUME NEW a \in Accounts PROVE (Load(a) <= Limit(a))'
    <3>1. Requests # {}
      BY MeterAssumption DEF MeterAssumption
    <3>2. LoadOf(0, checked[a], streaming[a])
            <= LoadOf(used[a], checked[a], streaming[a])
      BY <1>n, <3>1, LoadMoves, MeterAssumption DEF AccountOK
    <3>3. Load(a)' = LoadOf(0, checked[a], streaming[a])
                       + LateOf(latePrompts[a], lateChunks[a])
      BY <1>5 DEF NewPeriod, Load, late
    <3>4. AccountOK(a) /\ AccountOK(a)'
      BY <1>n, <2>1, AccountsOKNext
    <3>5. /\ LoadOf(0, checked[a], streaming[a]) \in Nat
          /\ LoadOf(used[a], checked[a], streaming[a]) \in Nat
          /\ LateOf(latePrompts[a], lateChunks[a]) \in Nat
          /\ Limit(a) \in Int
      BY <1>5, <3>4 DEF NewPeriod, AccountOK, late
    <3>6. Load(a) <= Limit(a) /\ Limit(a)' = Limit(a)
      BY <1>t DEF Committed, Limit
    <3> QED
      BY <3>2, <3>3, <3>5, <3>6 DEF Load
  <2> QED
    BY <2>1, <2>2 DEF MeterInv, Committed
<1>6. CASE Crash
  <2>1. MeterTypeOK'
    BY <1>6, <1>t DEF Crash, MeterTypeOK, late
  <2>2. ASSUME NEW a \in Accounts PROVE (Load(a) <= Limit(a))'
    <3>1. /\ checked'[a] = {} /\ streaming'[a] = {}
          /\ latePrompts' = latePrompts /\ lateChunks' = lateChunks
      BY <1>6, <2>1 DEF Crash, MeterTypeOK, late
    <3>2. used'[a] <= used[a] /\ used'[a] \in Nat /\ used[a] \in Nat
      BY <1>6, <1>n DEF Crash, AccountOK
    <3>3. LoadOf(used'[a], {}, {}) = used'[a]
      BY <1>c, <3>2, FS_EmptySet DEF LoadOf
    <3>4. used[a] <= LoadOf(used[a], checked[a], streaming[a])
      <4>1. {} \in SUBSET Slots /\ {} \cap {} = {}
        OBVIOUS
      <4>2. LateOf({}, {}) = 0
        BY <1>c, FS_EmptySet DEF LateOf
      <4>3. used[a] <= LoadOf(used[a], checked[a], streaming[a]) + LateOf({}, {})
        BY <1>n, <4>1, LoadBound, MeterAssumption DEF AccountOK
      <4> QED
        BY <1>n, <4>2, <4>3 DEF AccountOK
    <3>5. /\ LoadOf(used[a], checked[a], streaming[a]) \in Nat
          /\ LateOf(latePrompts[a], lateChunks[a]) \in Nat
          /\ Limit(a) \in Int
      BY <1>n DEF AccountOK
    <3>6. Load(a)' = used'[a] + LateOf(latePrompts[a], lateChunks[a])
      BY <3>1, <3>3 DEF Load
    <3>7. Load(a) <= Limit(a) /\ Limit(a)' = Limit(a)
      BY <1>t DEF Committed, Limit
    <3> QED
      BY <3>2, <3>4, <3>5, <3>6, <3>7 DEF Load
  <2> QED
    BY <2>1, <2>2 DEF MeterInv, Committed
<1>7. ASSUME NEW r \in Requests, NEW a \in Accounts, NEW c \in Slots,
             LosePrompt(r, a, c)
      PROVE  MeterInv'
  <2>1. /\ r \in checked[a]
        /\ c \notin latePrompts[a] \cup lateChunks[a]
        /\ checked' = [checked EXCEPT ![a] = @ \ {r}]
        /\ streaming' = [streaming EXCEPT ![a] = @ \cup {r}]
        /\ latePrompts' = [latePrompts EXCEPT ![a] = @ \cup {c}]
        /\ used' = used /\ lateChunks' = lateChunks
    BY <1>7 DEF LosePrompt, Free
  <2>2. MeterTypeOK'
    BY <1>t, <2>1 DEF MeterTypeOK
  <2>3. Load(a)' <= Load(a)
    <3>1. Load(a)' = LoadOf(used[a], checked[a] \ {r}, streaming[a] \cup {r})
                       + LateOf(latePrompts[a] \cup {c}, lateChunks[a])
      BY <1>t, <2>1 DEF Load, MeterTypeOK
    <3>2. LoadOf(used[a], checked[a] \ {r}, streaming[a] \cup {r})
            = LoadOf(used[a], checked[a], streaming[a]) - MaxPrompt
      BY <1>n, <2>1, PromptLeaves, MeterAssumption DEF AccountOK
    <3>3. LateOf(latePrompts[a] \cup {c}, lateChunks[a])
            = LateOf(latePrompts[a], lateChunks[a]) + MaxPrompt
      BY <1>n, <2>1, LateMoves, MeterAssumption DEF AccountOK
    <3>4. /\ LoadOf(used[a], checked[a], streaming[a]) \in Nat
          /\ LateOf(latePrompts[a], lateChunks[a]) \in Nat
      BY <1>n DEF AccountOK
    <3> QED
      BY <1>c, <3>1, <3>2, <3>3, <3>4 DEF Load
  <2>4. \A b \in Accounts \ {a} : Load(b)' = Load(b)
    BY <1>t, <2>1 DEF Load, MeterTypeOK
  <2> QED
    BY <2>2, <2>3, <2>4, OneAccount
<1>8. ASSUME NEW r \in Requests, NEW a \in Accounts, NEW c \in Slots,
             LoseChunk(r, a, c)
      PROVE  MeterInv'
  <2>1. /\ r \in streaming[a]
        /\ c \notin latePrompts[a] \cup lateChunks[a]
        /\ streaming' = [streaming EXCEPT ![a] = @ \ {r}]
        /\ lateChunks' = [lateChunks EXCEPT ![a] = @ \cup {c}]
        /\ used' = used /\ checked' = checked /\ latePrompts' = latePrompts
    BY <1>8 DEF LoseChunk, Free
  <2>2. MeterTypeOK'
    BY <1>t, <2>1 DEF MeterTypeOK
  <2>3. Load(a)' <= Load(a)
    <3>1. Load(a)' = LoadOf(used[a], checked[a], streaming[a] \ {r})
                       + LateOf(latePrompts[a], lateChunks[a] \cup {c})
      BY <1>t, <2>1 DEF Load, MeterTypeOK
    <3>2. LoadOf(used[a], checked[a], streaming[a] \ {r})
            = LoadOf(used[a], checked[a], streaming[a]) - MaxChunk
      BY <1>n, <2>1, PieceLeaves, MeterAssumption DEF AccountOK
    <3>3. LateOf(latePrompts[a], lateChunks[a] \cup {c})
            = LateOf(latePrompts[a], lateChunks[a]) + MaxChunk
      BY <1>n, <2>1, LateMoves, MeterAssumption DEF AccountOK
    <3>4. /\ LoadOf(used[a], checked[a], streaming[a]) \in Nat
          /\ LateOf(latePrompts[a], lateChunks[a]) \in Nat
      BY <1>n DEF AccountOK
    <3> QED
      BY <1>c, <3>1, <3>2, <3>3, <3>4 DEF Load
  <2>4. \A b \in Accounts \ {a} : Load(b)' = Load(b)
    BY <1>t, <2>1 DEF Load, MeterTypeOK
  <2> QED
    BY <2>2, <2>3, <2>4, OneAccount
<1>9. ASSUME NEW a \in Accounts, NEW c \in Slots, PromptLands(c, a)
      PROVE  MeterInv'
  <2>1. PICK k \in 0..MaxPrompt : used' = [used EXCEPT ![a] = @ + k]
    BY <1>9 DEF PromptLands
  <2>2. /\ c \in latePrompts[a]
        /\ latePrompts' = [latePrompts EXCEPT ![a] = @ \ {c}]
        /\ checked' = checked /\ streaming' = streaming /\ lateChunks' = lateChunks
    BY <1>9 DEF PromptLands
  <2>3. k \in Nat /\ k <= MaxPrompt
    BY <1>c
  <2>4. MeterTypeOK'
    BY <1>t, <2>1, <2>2, <2>3 DEF MeterTypeOK
  <2>5. Load(a)' <= Load(a)
    <3>u. PICK u \in Nat : u = used[a] + k
      BY <1>n, <2>3 DEF AccountOK
    <3>1. Load(a)' = LoadOf(u, checked[a], streaming[a])
                       + LateOf(latePrompts[a] \ {c}, lateChunks[a])
      BY <1>t, <2>1, <2>2, <3>u DEF Load, MeterTypeOK
    <3>2. LoadOf(u, checked[a], streaming[a])
            = LoadOf(used[a], checked[a], streaming[a]) + k
      <4>1. PICK r \in Requests : TRUE
        BY MeterAssumption DEF MeterAssumption
      <4> QED
        BY <1>n, <2>3, <4>1, <3>u, LoadAdds, MeterAssumption DEF AccountOK
    <3>3. LateOf(latePrompts[a] \ {c}, lateChunks[a])
            = LateOf(latePrompts[a], lateChunks[a]) - MaxPrompt
      BY <1>n, <2>2, LateMoves, MeterAssumption DEF AccountOK
    <3>4. /\ LoadOf(used[a], checked[a], streaming[a]) \in Nat
          /\ LateOf(latePrompts[a], lateChunks[a]) \in Nat
      BY <1>n DEF AccountOK
    <3> QED
      BY <1>c, <2>3, <3>1, <3>2, <3>3, <3>4 DEF Load
  <2>6. \A b \in Accounts \ {a} : Load(b)' = Load(b)
    BY <1>t, <2>1, <2>2 DEF Load, MeterTypeOK
  <2> QED
    BY <2>4, <2>5, <2>6, OneAccount
<1>10. ASSUME NEW a \in Accounts, NEW c \in Slots, ChunkLands(c, a)
      PROVE  MeterInv'
  <2>1. PICK k \in 0..MaxChunk : used' = [used EXCEPT ![a] = @ + k]
    BY <1>10 DEF ChunkLands
  <2>2. /\ c \in lateChunks[a]
        /\ lateChunks' = [lateChunks EXCEPT ![a] = @ \ {c}]
        /\ checked' = checked /\ streaming' = streaming /\ latePrompts' = latePrompts
    BY <1>10 DEF ChunkLands
  <2>3. k \in Nat /\ k <= MaxChunk
    BY <1>c
  <2>4. MeterTypeOK'
    BY <1>t, <2>1, <2>2, <2>3 DEF MeterTypeOK
  <2>5. Load(a)' <= Load(a)
    <3>u. PICK u \in Nat : u = used[a] + k
      BY <1>n, <2>3 DEF AccountOK
    <3>1. Load(a)' = LoadOf(u, checked[a], streaming[a])
                       + LateOf(latePrompts[a], lateChunks[a] \ {c})
      BY <1>t, <2>1, <2>2, <3>u DEF Load, MeterTypeOK
    <3>2. LoadOf(u, checked[a], streaming[a])
            = LoadOf(used[a], checked[a], streaming[a]) + k
      <4>1. PICK r \in Requests : TRUE
        BY MeterAssumption DEF MeterAssumption
      <4> QED
        BY <1>n, <2>3, <4>1, <3>u, LoadAdds, MeterAssumption DEF AccountOK
    <3>3. LateOf(latePrompts[a], lateChunks[a] \ {c})
            = LateOf(latePrompts[a], lateChunks[a]) - MaxChunk
      BY <1>n, <2>2, LateMoves, MeterAssumption DEF AccountOK
    <3>4. /\ LoadOf(used[a], checked[a], streaming[a]) \in Nat
          /\ LateOf(latePrompts[a], lateChunks[a]) \in Nat
      BY <1>n DEF AccountOK
    <3> QED
      BY <1>c, <2>3, <3>1, <3>2, <3>3, <3>4 DEF Load
  <2>6. \A b \in Accounts \ {a} : Load(b)' = Load(b)
    BY <1>t, <2>1, <2>2 DEF Load, MeterTypeOK
  <2> QED
    BY <2>4, <2>5, <2>6, OneAccount
<1>11. CASE UNCHANGED vars
  BY <1>11, <1>t DEF vars, late, MeterInv, MeterTypeOK, Committed, Load, Limit
<1> QED
  BY <1>1, <1>2, <1>3, <1>4, <1>5, <1>6, <1>7, <1>8, <1>9, <1>10, <1>11
     DEF Next

(* The load of every account stays within its limit.                       *)
THEOREM MeterInvariant == ASSUME MeterAssumption PROVE Spec => []MeterInv
<1>1. Init => MeterInv
  BY InitInv
<1>2. MeterInv /\ [Next]_vars => MeterInv'
  BY NextInv
<1> QED
  BY <1>1, <1>2, PTL DEF Spec

(* However many requests draw on an account at once, whatever their        *)
(* prompts and answers cost and however late a charge is recorded, it      *)
(* passes its cap by a bounded amount.                                     *)
THEOREM Overshoot == ASSUME MeterAssumption PROVE Spec => []BoundedOvershoot
<1>1. MeterInv => BoundedOvershoot
  <2> SUFFICES ASSUME MeterInv, NEW a \in Accounts PROVE used[a] <= Limit(a)
    BY DEF BoundedOvershoot
  <2>1. AccountOK(a) /\ Load(a) <= Limit(a)
    BY AccountsOK DEF MeterInv, Committed
  <2>2. /\ used[a] <= Load(a)
        /\ used[a] \in Nat
        /\ Load(a) \in Nat
        /\ Limit(a) \in Int
    BY <2>1 DEF AccountOK, Load
  <2> QED
    BY <2>1, <2>2
<1> QED
  BY <1>1, MeterInvariant, PTL
=============================================================================
