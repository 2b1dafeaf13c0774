-------------------------- MODULE EmbedStoreProofs --------------------------
(***************************************************************************)
(* Proofs about EmbedStore, for any embeds, keys, lists and patches.  The  *)
(* key index agrees with the records because whoever changes one map       *)
(* changes the other under the same mutex; a key is never handed out       *)
(* twice, so a key that left the index stays out of it.  No two embeds     *)
(* share an array, because every new one is taken from those that nobody   *)
(* points to.  Of the arrays, only the element that is being decoded is    *)
(* ever half written, so a list that was accepted is in the record, and an *)
(* exchange that nobody disturbs reads the list it found.                  *)
(***************************************************************************)
EXTENDS EmbedStore, SequenceTheorems, TLAPS

(* While a list is decoded the mutex is held, so the copy's embed and its  *)
(* key stay what they were.                                                *)
WriterBusy ==
  ~Unlocked => writer.id \in Stored /\ writer.copy.pk = byID[writer.id].pk

KeysIssued == \A k \in Keys : byPK[k] # None => k \in issued

StoreInv == /\ StoreTypeOK
            /\ WriterBusy
            /\ KeysIssued
            /\ IndexConsistent
            /\ RetiredKeysStayDead
            /\ ListsNotShared

(* A record is never taken for a missing entry.                            *)
LEMMA NothingIsNone ==
  /\ None \notin Ids
  /\ \A rec \in Records : rec # None
  /\ \A w \in Writers : w # None
BY StoreAssumption

LEMMA StoredRecords ==
  ASSUME StoreTypeOK
  PROVE  /\ \A id \in Stored : id \in Ids /\ byID[id] \in Records
         /\ \A id \in Ids : id \in Stored <=> byID[id] # None
         /\ ~Unlocked => writer \in Writers
BY DEF StoreTypeOK, Stored, Unlocked

(* A new array is nobody's.                                                *)
LEMMA FreshArray ==
  ASSUME Addrs \ Live # {}
  PROVE  /\ FreeAddr \in Addrs
         /\ \A id \in Stored : byID[id].origins.at # FreeAddr
         /\ ~Unlocked => writer.copy.origins.at # FreeAddr
<1>1. FreeAddr \in Addrs \ Live
  BY DEF FreeAddr
<1> QED
  BY <1>1 DEF Live

LEMMA InitInv == Init => StoreInv
<1> SUFFICES ASSUME Init PROVE StoreInv
  OBVIOUS
<1>1. Stored = {} /\ Unlocked
  BY DEF Init, Stored, Unlocked
<1>2. StoreTypeOK
  BY DEF Init, StoreTypeOK
<1>3. \A k \in Keys : byPK[k] = None
  BY DEF Init
<1> QED
  BY <1>1, <1>2, <1>3
     DEF Init, StoreInv, WriterBusy, KeysIssued, IndexConsistent,
         RetiredKeysStayDead, ListsNotShared

(* Changing a record but not its key, nor the index.                       *)
LEMMA KeyStays ==
  ASSUME StoreInv, NEW id \in Stored, NEW rec \in Records,
         rec.pk = byID[id].pk,
         byID' = [byID EXCEPT ![id] = rec],
         byPK' = byPK, issued' = issued, retired' = retired
  PROVE  /\ Stored' = Stored
         /\ byID' \in [Ids -> Records \cup {None}]
         /\ \A i \in Stored : byID'[i] = IF i = id THEN rec ELSE byID[i]
         /\ IndexConsistent' /\ KeysIssued' /\ RetiredKeysStayDead'
<1>1. id \in Ids /\ byID \in [Ids -> Records \cup {None}]
  BY StoredRecords DEF StoreInv, StoreTypeOK
<1>2. byID' \in [Ids -> Records \cup {None}]
  BY <1>1
<1>3. \A i \in Ids : byID'[i] = IF i = id THEN rec ELSE byID[i]
  BY <1>1
<1>4. Stored' = Stored
  BY <1>3, NothingIsNone DEF Stored
<1>5. \A i \in Stored : byID'[i].pk = byID[i].pk
  BY <1>3 DEF Stored
<1>6. IndexConsistent'
  BY <1>4, <1>5 DEF StoreInv, IndexConsistent
<1>7. KeysIssued' /\ RetiredKeysStayDead'
  BY DEF StoreInv, KeysIssued, RetiredKeysStayDead
<1> QED
  BY <1>2, <1>3, <1>4, <1>6, <1>7 DEF Stored

(* Steps that leave the two maps alone                                     *)
LEMMA MapsStay ==
  ASSUME StoreInv, UNCHANGED <<byID, byPK, issued, retired>>
  PROVE  /\ Stored' = Stored
         /\ IndexConsistent' /\ KeysIssued' /\ RetiredKeysStayDead'
BY DEF StoreInv, Stored, IndexConsistent, KeysIssued, RetiredKeysStayDead

LEMMA CreateInv ==
  ASSUME StoreInv, NEW id \in Ids, NEW k \in Keys, NEW s \in Lists,
         Create(id, k, s)
  PROVE  StoreInv'
<1> DEFINE rec == [pk |-> k, status |-> "enabled",
                   origins |-> [at |-> FreeAddr, len |-> Len(s)]]
<1>1. /\ Unlocked /\ byID[id] = None /\ k \notin issued
      /\ byID' = [byID EXCEPT ![id] = rec]
      /\ byPK' = [byPK EXCEPT ![k] = id]
      /\ issued' = issued \cup {k} /\ retired' = retired
      /\ writer' = writer
      /\ Addrs \ Live # {}
  BY DEF Create
<1>2. /\ byID \in [Ids -> Records \cup {None}]
      /\ byPK \in [Keys -> Ids \cup {None}]
  BY DEF StoreInv, StoreTypeOK
<1>3. rec \in Records /\ rec.pk = k /\ rec.origins.at = FreeAddr
  <2>1. Len(s) \in Nat
    BY StoreAssumption
  <2> QED
    BY <2>1, <1>1, FreshArray DEF Records, Slices, Statuses
<1> HIDE DEF rec
<1>4. /\ byID' \in [Ids -> Records \cup {None}]
      /\ \A i \in Ids : byID'[i] = IF i = id THEN rec ELSE byID[i]
  BY <1>1, <1>2, <1>3
<1>5. Stored' = Stored \cup {id} /\ id \notin Stored
  BY <1>1, <1>3, <1>4, NothingIsNone DEF Stored
<1>6. \A q \in Keys : byPK'[q] = IF q = k THEN id ELSE byPK[q]
  BY <1>1, <1>2
<1>7. byPK[k] = None
  BY <1>1 DEF StoreInv, KeysIssued
<1>8. StoreTypeOK'
  BY <1>1, <1>2, <1>4 DEF StoreInv, StoreTypeOK
<1>9. WriterBusy'
  BY <1>1 DEF WriterBusy, Unlocked
<1>10. KeysIssued'
  BY <1>1, <1>6 DEF StoreInv, KeysIssued
<1>11. IndexConsistent'
  <2>1. ASSUME NEW q \in Keys, byPK'[q] # None
        PROVE  byPK'[q] \in Stored' /\ byID'[byPK'[q]].pk = q
    <3>1. CASE q = k
      BY <3>1, <1>3, <1>4, <1>5, <1>6
    <3>2. CASE q # k
      <4>1. byPK'[q] = byPK[q] /\ byPK[q] \in Stored /\ byID[byPK[q]].pk = q
        BY <3>2, <2>1, <1>6 DEF StoreInv, IndexConsistent
      <4> QED
        BY <4>1, <1>4, <1>5 DEF Stored
    <3> QED
      BY <3>1, <3>2
  <2>2. ASSUME NEW i \in Stored'
        PROVE  byPK'[byID'[i].pk] = i
    <3>1. CASE i = id
      BY <3>1, <1>3, <1>4, <1>6
    <3>2. CASE i # id
      <4>1. i \in Stored /\ byID'[i] = byID[i]
        BY <3>2, <1>4, <1>5 DEF Stored
      <4>2. byPK[byID[i].pk] = i /\ byID[i].pk \in Keys
        BY <4>1, StoredRecords DEF StoreInv, IndexConsistent, Records
      <4>3. byID[i].pk # k
        BY <4>1, <4>2, <1>7, NothingIsNone DEF Stored
      <4> QED
        BY <4>1, <4>2, <4>3, <1>6
    <3> QED
      BY <3>1, <3>2
  <2> QED
    BY <2>1, <2>2 DEF IndexConsistent
<1>12. RetiredKeysStayDead'
  BY <1>1, <1>6 DEF StoreInv, StoreTypeOK, RetiredKeysStayDead
<1>13. ListsNotShared'
  <2>1. \A i \in Stored : /\ byID'[i] = byID[i]
                          /\ byID[i].origins.at # byID'[id].origins.at
    BY <1>1, <1>3, <1>4, <1>5, FreshArray DEF Stored
  <2> QED
    BY <2>1, <1>1, <1>5 DEF StoreInv, ListsNotShared, Unlocked
<1> QED
  BY <1>8, <1>9, <1>10, <1>11, <1>12, <1>13 DEF StoreInv

LEMMA DeleteInv ==
  ASSUME StoreInv, NEW id \in Ids, Delete(id)
  PROVE  StoreInv'
<1> DEFINE old == byID[id].pk
<1>1. /\ Unlocked /\ id \in Stored
      /\ byPK' = [byPK EXCEPT ![old] = None]
      /\ byID' = [byID EXCEPT ![id] = None]
      /\ retired' = retired \cup {old} /\ issued' = issued
      /\ writer' = writer
  BY DEF Delete, WithoutKey, Stored
<1>2. /\ byID \in [Ids -> Records \cup {None}]
      /\ byPK \in [Keys -> Ids \cup {None}]
      /\ old \in Keys
  BY <1>1, StoredRecords DEF StoreInv, StoreTypeOK, Records
<1>3. byPK[old] = id /\ old \in issued
  BY <1>1, <1>2, NothingIsNone DEF StoreInv, IndexConsistent, KeysIssued
<1> HIDE DEF old
<1>4. /\ \A i \in Ids : byID'[i] = IF i = id THEN None ELSE byID[i]
      /\ \A q \in Keys : byPK'[q] = IF q = old THEN None ELSE byPK[q]
  BY <1>1, <1>2
<1>5. Stored' = Stored \ {id} /\ \A i \in Stored' : byID'[i] = byID[i]
  BY <1>4 DEF Stored
<1>6. StoreTypeOK'
  BY <1>1, <1>2, <1>3 DEF StoreInv, StoreTypeOK
<1>7. WriterBusy' /\ KeysIssued'
  BY <1>1, <1>4 DEF StoreInv, WriterBusy, KeysIssued, Unlocked
<1>8. IndexConsistent'
  <2>1. ASSUME NEW q \in Keys, byPK'[q] # None
        PROVE  byPK'[q] \in Stored' /\ byID'[byPK'[q]].pk = q
    <3>1. /\ q # old /\ byPK'[q] = byPK[q]
          /\ byPK[q] \in Stored /\ byID[byPK[q]].pk = q
      BY <2>1, <1>4 DEF StoreInv, IndexConsistent
    <3>2. byPK[q] # id
      BY <3>1 DEF old
    <3> QED
      BY <3>1, <3>2, <1>5
  <2>2. ASSUME NEW i \in Stored'
        PROVE  byPK'[byID'[i].pk] = i
    <3>1. i \in Stored /\ i # id /\ byID'[i] = byID[i]
      BY <1>5
    <3>2. byPK[byID[i].pk] = i /\ byID[i].pk \in Keys
      BY <3>1, StoredRecords DEF StoreInv, IndexConsistent, Records
    <3> QED
      BY <3>1, <3>2, <1>3, <1>4
  <2> QED
    BY <2>1, <2>2 DEF IndexConsistent
<1>9. RetiredKeysStayDead'
  BY <1>1, <1>2, <1>4 DEF StoreInv, StoreTypeOK, RetiredKeysStayDead
<1>10. ListsNotShared'
  BY <1>1, <1>5 DEF StoreInv, ListsNotShared, Unlocked
<1> QED
  BY <1>6, <1>7, <1>8, <1>9, <1>10 DEF StoreInv

LEMMA RotateInv ==
  ASSUME StoreInv, NEW id \in Ids, NEW k \in Keys, RotateKey(id, k)
  PROVE  StoreInv'
<1> DEFINE old == byID[id].pk
           rec == [byID[id] EXCEPT !.pk = k]
<1>1. /\ Unlocked /\ id \in Stored /\ k \notin issued
      /\ byPK' = [[byPK EXCEPT ![old] = None] EXCEPT ![k] = id]
      /\ byID' = [byID EXCEPT ![id] = rec]
      /\ retired' = retired \cup {old} /\ issued' = issued \cup {k}
      /\ writer' = writer
  BY DEF RotateKey, WithoutKey, Stored
<1>2. /\ byID \in [Ids -> Records \cup {None}]
      /\ byPK \in [Keys -> Ids \cup {None}]
      /\ byID[id] \in Records /\ old \in Keys
  BY <1>1, StoredRecords DEF StoreInv, StoreTypeOK, Records
<1>3. byPK[old] = id /\ old \in issued /\ byPK[k] = None /\ k # old
  BY <1>1, <1>2, NothingIsNone DEF StoreInv, IndexConsistent, KeysIssued
<1>4. rec \in Records /\ rec.pk = k /\ rec.origins = byID[id].origins
  BY <1>2 DEF Records
<1> HIDE DEF old, rec
<1>5. /\ \A i \in Ids : byID'[i] = IF i = id THEN rec ELSE byID[i]
      /\ \A q \in Keys : byPK'[q] = IF q = k THEN id
                                    ELSE IF q = old THEN None ELSE byPK[q]
  BY <1>1, <1>2
<1>6. Stored' = Stored
  BY <1>1, <1>4, <1>5, NothingIsNone DEF Stored
<1>7. StoreTypeOK'
  <2>1. byID' \in [Ids -> Records \cup {None}]
    BY <1>1, <1>2, <1>4
  <2>2. byPK' \in [Keys -> Ids \cup {None}]
    BY <1>1, <1>2
  <2> QED
    BY <2>1, <2>2, <1>1, <1>3 DEF StoreInv, StoreTypeOK
<1>8. WriterBusy' /\ KeysIssued'
  BY <1>1, <1>5 DEF StoreInv, WriterBusy, KeysIssued, Unlocked
<1>9. IndexConsistent'
  <2>1. ASSUME NEW q \in Keys, byPK'[q] # None
        PROVE  byPK'[q] \in Stored' /\ byID'[byPK'[q]].pk = q
    <3>1. CASE q = k
      <4>1. byPK'[q] = id /\ id \in Stored'
        BY <3>1, <1>1, <1>5, <1>6
      <4>2. byID'[id] = rec
        BY <1>5
      <4> QED
        BY <3>1, <4>1, <4>2, <1>4
    <3>2. CASE q # k
      <4>1. /\ q # old /\ byPK'[q] = byPK[q]
            /\ byPK[q] \in Stored /\ byID[byPK[q]].pk = q
        BY <3>2, <2>1, <1>5 DEF StoreInv, IndexConsistent
      <4>2. byPK[q] # id /\ byPK[q] \in Ids
        BY <4>1 DEF old, Stored
      <4> QED
        BY <4>1, <4>2, <1>5, <1>6
    <3> QED
      BY <3>1, <3>2
  <2>2. ASSUME NEW i \in Stored'
        PROVE  byPK'[byID'[i].pk] = i
    <3>1. CASE i = id
      BY <3>1, <1>4, <1>5
    <3>2. CASE i # id
      <4>1. i \in Stored /\ byID'[i] = byID[i]
        BY <3>2, <1>5, <1>6 DEF Stored
      <4>2. byPK[byID[i].pk] = i /\ byID[i].pk \in Keys
        BY <4>1, StoredRecords DEF StoreInv, IndexConsistent, Records
      <4>3. byID[i].pk # k /\ byID[i].pk # old
        BY <4>2, <3>2, <1>3, NothingIsNone, <4>1 DEF Stored
      <4> QED
        BY <4>1, <4>2, <4>3, <1>5
    <3> QED
      BY <3>1, <3>2
  <2> QED
    BY <2>1, <2>2 DEF IndexConsistent
<1>10. RetiredKeysStayDead'
  BY <1>1, <1>2, <1>3, <1>5 DEF StoreInv, StoreTypeOK, RetiredKeysStayDead
<1>11. ListsNotShared'
  <2>1. \A i \in Stored : byID'[i].origins = byID[i].origins
    BY <1>4, <1>5 DEF Stored
  <2> QED
    BY <2>1, <1>1, <1>6 DEF StoreInv, ListsNotShared, Unlocked
<1> QED
  BY <1>7, <1>8, <1>9, <1>10, <1>11 DEF StoreInv

LEMMA SetStatusInv ==
  ASSUME StoreInv, NEW id \in Ids, NEW status \in Statuses,
         SetStatus(id, status)
  PROVE  StoreInv'
<1> DEFINE rec == [byID[id] EXCEPT !.status = status]
<1>1. /\ Unlocked /\ id \in Stored
      /\ byID' = [byID EXCEPT ![id] = rec]
      /\ byPK' = byPK /\ writer' = writer
      /\ issued' = issued /\ retired' = retired
  BY DEF SetStatus, Stored, history
<1>2. byID[id] \in Records
  BY <1>1, StoredRecords DEF StoreInv
<1>3. /\ rec \in Records /\ rec.pk = byID[id].pk
      /\ rec.origins = byID[id].origins
  BY <1>2 DEF Records
<1> HIDE DEF rec
<1>4. /\ Stored' = Stored /\ byID' \in [Ids -> Records \cup {None}]
      /\ \A i \in Stored : byID'[i] = IF i = id THEN rec ELSE byID[i]
      /\ IndexConsistent' /\ KeysIssued' /\ RetiredKeysStayDead'
  BY <1>1, <1>3, KeyStays
<1>5. StoreTypeOK'
  BY <1>1, <1>4 DEF StoreInv, StoreTypeOK
<1>6. WriterBusy'
  BY <1>1 DEF WriterBusy, Unlocked
<1>7. ListsNotShared'
  <2>1. \A i \in Stored : byID'[i].origins = byID[i].origins
    BY <1>3, <1>4
  <2> QED
    BY <2>1, <1>1, <1>4 DEF StoreInv, ListsNotShared, Unlocked
<1> QED
  BY <1>4, <1>5, <1>6, <1>7 DEF StoreInv

LEMMA BeginPatchInv ==
  ASSUME StoreInv, NEW id \in Ids, NEW patch \in Patches,
         NEW status \in Statuses, BeginPatch(id, patch, status)
  PROVE  StoreInv'
<1> DEFINE copy == [byID[id] EXCEPT !.status = status]
<1>1. /\ id \in Stored
      /\ writer' = [id |-> id, copy |-> copy, patch |-> patch, next |-> 1,
                    half |-> FALSE, failed |-> FALSE]
      /\ byID' = byID /\ byPK' = byPK /\ issued' = issued /\ retired' = retired
  BY DEF BeginPatch, Stored, history
<1>2. byID[id] \in Records
  BY <1>1, StoredRecords DEF StoreInv
<1>3. /\ copy \in Records /\ copy.pk = byID[id].pk
      /\ copy.origins = byID[id].origins
  BY <1>2 DEF Records
<1> HIDE DEF copy
<1>4. /\ writer' \in Writers /\ writer'.id = id /\ writer'.copy = copy
  BY <1>1, <1>3 DEF Writers
<1>5. Stored' = Stored /\ IndexConsistent' /\ KeysIssued' /\ RetiredKeysStayDead'
  BY <1>1, MapsStay
<1>6. StoreTypeOK'
  BY <1>1, <1>4 DEF StoreInv, StoreTypeOK
<1>7. WriterBusy'
  BY <1>1, <1>3, <1>4, <1>5 DEF WriterBusy
<1>8. ListsNotShared'
  BY <1>1, <1>3, <1>4, <1>5 DEF StoreInv, ListsNotShared
<1> QED
  BY <1>5, <1>6, <1>7, <1>8 DEF StoreInv

(* A step of the decoding: the copy keeps its embed and key, and its array *)
(* or takes one that is nobody's.                                          *)
LEMMA DecodingInv ==
  ASSUME StoreInv, ~Unlocked, writer' \in Writers,
         UNCHANGED <<byID, byPK, issued, retired>>,
         writer'.id = writer.id, writer'.copy.pk = writer.copy.pk,
         \/ writer'.copy.origins.at = writer.copy.origins.at
         \/ \A id \in Stored : byID[id].origins.at # writer'.copy.origins.at
  PROVE  StoreInv'
<1>1. Stored' = Stored /\ IndexConsistent' /\ KeysIssued' /\ RetiredKeysStayDead'
  BY MapsStay
<1>2. StoreTypeOK'
  BY DEF StoreInv, StoreTypeOK
<1>3. WriterBusy'
  BY <1>1 DEF StoreInv, WriterBusy
<1>4. ListsNotShared'
  BY <1>1 DEF StoreInv, ListsNotShared
<1> QED
  BY <1>1, <1>2, <1>3, <1>4 DEF StoreInv

LEMMA DecodeElementInv ==
  ASSUME StoreInv, DecodeElement
  PROVE  StoreInv' /\ writer' \in Writers
<1> DEFINE s == writer.copy.origins
           i == writer.next
<1>1. /\ ~Unlocked /\ writer \in Writers
      /\ UNCHANGED <<byID, byPK, issued, retired>>
  BY StoredRecords DEF DecodeElement, StoreInv, history
<1>2. /\ writer.copy \in Records /\ s \in Slices /\ i \in Nat
  BY <1>1 DEF Writers, Records
<1>3. CASE Grow(s, i)
  <2> DEFINE t == [at |-> FreeAddr, len |-> i]
  <2>1. /\ Addrs \ Live # {}
        /\ writer' = [writer EXCEPT !.copy.origins = t, !.half = TRUE]
    BY <1>3 DEF Grow
  <2>2. t \in Slices /\ t.at = FreeAddr
    BY <2>1, <1>2, FreshArray DEF Slices
  <2> HIDE DEF t
  <2>3. /\ writer' \in Writers /\ writer'.id = writer.id
        /\ writer'.copy.pk = writer.copy.pk /\ writer'.copy.origins = t
    BY <2>1, <2>2, <1>1, <1>2 DEF Writers, Records
  <2> QED
    BY <2>1, <2>2, <2>3, <1>1, FreshArray, DecodingInv
<1>4. CASE writer' = [writer EXCEPT !.copy.origins.len = IF i > s.len THEN i ELSE @,
                                    !.half = TRUE]
  <2>1. /\ writer' \in Writers /\ writer'.id = writer.id
        /\ writer'.copy.pk = writer.copy.pk
        /\ writer'.copy.origins.at = writer.copy.origins.at
    BY <1>4, <1>1, <1>2 DEF Writers, Records, Slices
  <2> QED
    BY <2>1, <1>1, DecodingInv
<1> QED
  BY <1>3, <1>4 DEF DecodeElement

LEMMA MakeEmptyInv ==
  ASSUME StoreInv, MakeEmpty
  PROVE  StoreInv' /\ writer' \in Writers
<1> DEFINE t == [at |-> FreeAddr, len |-> 0]
<1>1. /\ ~Unlocked /\ writer \in Writers /\ Addrs \ Live # {}
      /\ UNCHANGED <<byID, byPK, issued, retired>>
      /\ writer' = [writer EXCEPT !.copy.origins = t]
  BY StoredRecords DEF MakeEmpty, StoreInv, history
<1>2. t \in Slices /\ t.at = FreeAddr
  BY <1>1, FreshArray DEF Slices
<1> HIDE DEF t
<1>3. /\ writer' \in Writers /\ writer'.id = writer.id
      /\ writer'.copy.pk = writer.copy.pk /\ writer'.copy.origins = t
  BY <1>1, <1>2 DEF Writers, Records
<1> QED
  BY <1>1, <1>2, <1>3, FreshArray, DecodingInv

LEMMA StoreElementInv ==
  ASSUME StoreInv, StoreElement
  PROVE  StoreInv' /\ writer' \in Writers
<1>1. /\ ~Unlocked /\ writer \in Writers
      /\ UNCHANGED <<byID, byPK, issued, retired>>
      /\ writer' = [writer EXCEPT !.next = writer.next + 1, !.half = FALSE,
                                  !.failed = @ \/ writer.patch[writer.next] = Bad]
  BY StoredRecords DEF StoreElement, StoreInv, history
<1> DEFINE failed == writer.failed \/ writer.patch[writer.next] = Bad
<1>2. failed \in BOOLEAN
  BY <1>1 DEF Writers
<1>3. writer' = [writer EXCEPT !.next = writer.next + 1, !.half = FALSE,
                               !.failed = failed]
  BY <1>1
<1> HIDE DEF failed
<1>4. /\ writer' \in Writers /\ writer'.id = writer.id
      /\ writer'.copy = writer.copy
  <2> DEFINE step == writer.next + 1
  <2>1. step \in Nat
    BY <1>1 DEF Writers
  <2>2. writer' = [writer EXCEPT !.next = step, !.half = FALSE, !.failed = failed]
    BY <1>3
  <2> HIDE DEF step
  <2>3. writer' = [id |-> writer.id, copy |-> writer.copy, patch |-> writer.patch,
                   next |-> step, half |-> FALSE, failed |-> failed]
    BY <2>2, <1>1 DEF Writers
  <2>4. /\ writer.id \in Ids /\ writer.copy \in Records
        /\ writer.patch \in Patches
    BY <1>1 DEF Writers
  <2> QED
    BY <2>1, <2>3, <2>4, <1>2 DEF Writers
<1> QED
  BY <1>1, <1>4, DecodingInv

LEMMA CommitInv ==
  ASSUME StoreInv, CommitPatch
  PROVE  StoreInv'
<1> DEFINE n == Len(writer.patch)
           id == writer.id
           rec == [writer.copy EXCEPT !.origins = Cut(writer.copy.origins, n)]
<1>1. /\ ~Unlocked /\ writer \in Writers
      /\ byID' = [byID EXCEPT ![id] = rec] /\ byPK' = byPK
      /\ issued' = issued /\ retired' = retired /\ writer' = None
  BY StoredRecords DEF CommitPatch, Decoded, StoreInv
<1>2. /\ writer.copy \in Records /\ n \in Nat
      /\ id \in Stored /\ writer.copy.pk = byID[id].pk
  BY <1>1, StoreAssumption DEF Writers, StoreInv, WriterBusy
<1>3. /\ rec \in Records /\ rec.pk = byID[id].pk
      /\ rec.origins.at = writer.copy.origins.at
  BY <1>2 DEF Records, Slices, Cut
<1> HIDE DEF rec
<1>4. /\ Stored' = Stored /\ byID' \in [Ids -> Records \cup {None}]
      /\ \A i \in Stored : byID'[i] = IF i = id THEN rec ELSE byID[i]
      /\ IndexConsistent' /\ KeysIssued' /\ RetiredKeysStayDead'
  BY <1>1, <1>2, <1>3, KeyStays
<1>5. StoreTypeOK'
  BY <1>1, <1>4 DEF StoreInv, StoreTypeOK
<1>6. WriterBusy'
  BY <1>1 DEF WriterBusy, Unlocked
<1>7. ListsNotShared'
  <2>1. \A i, j \in Stored : i # j => byID'[i].origins.at # byID'[j].origins.at
    BY <1>1, <1>3, <1>4 DEF StoreInv, ListsNotShared
  <2> QED
    BY <2>1, <1>1, <1>4 DEF ListsNotShared, Unlocked
<1> QED
  BY <1>4, <1>5, <1>6, <1>7 DEF StoreInv

LEMMA NextInv == StoreInv /\ [Next]_vars => StoreInv'
<1> SUFFICES ASSUME StoreInv, [Next]_vars PROVE StoreInv'
  OBVIOUS
<1>1. ASSUME NEW id \in Ids, NEW k \in Keys, NEW s \in Lists, Create(id, k, s)
      PROVE  StoreInv'
  BY <1>1, CreateInv
<1>2. ASSUME NEW id \in Ids, Delete(id)
      PROVE  StoreInv'
  BY <1>2, DeleteInv
<1>3. ASSUME NEW id \in Ids, NEW k \in Keys, RotateKey(id, k)
      PROVE  StoreInv'
  BY <1>3, RotateInv
<1>4. ASSUME NEW id \in Ids, NEW status \in Statuses, SetStatus(id, status)
      PROVE  StoreInv'
  BY <1>4, SetStatusInv
<1>5. ASSUME NEW id \in Ids, NEW patch \in Patches, NEW status \in Statuses,
             BeginPatch(id, patch, status)
      PROVE  StoreInv'
  BY <1>5, BeginPatchInv
<1>6. CASE DecodeElement
  BY <1>6, DecodeElementInv
<1>7. CASE StoreElement
  BY <1>7, StoreElementInv
<1>8. CASE CommitPatch
  BY <1>8, CommitInv
<1>9. ASSUME UNCHANGED <<byID, byPK, issued, retired>>,
             writer' = writer \/ writer' = None
      PROVE  StoreInv'
  <2>1. Stored' = Stored /\ IndexConsistent' /\ KeysIssued' /\ RetiredKeysStayDead'
    BY <1>9, MapsStay
  <2>2. StoreTypeOK'
    BY <1>9 DEF StoreInv, StoreTypeOK
  <2>3. WriterBusy' /\ ListsNotShared'
    BY <1>9, <2>1 DEF StoreInv, WriterBusy, ListsNotShared, Unlocked
  <2> QED
    BY <2>1, <2>2, <2>3 DEF StoreInv
<1>10. CASE RejectPatch
  BY <1>9, <1>10 DEF RejectPatch, history
<1>11. ASSUME NEW x \in Exchanges,
              \/ \E k \in Keys, origin \in Origins : Lookup(x, k, origin)
              \/ Scan(x) \/ Answer(x)
       PROVE  StoreInv'
  BY <1>9, <1>11 DEF Lookup, Scan, Answer, history
<1>12. CASE UNCHANGED vars
  BY <1>9, <1>12 DEF vars
<1>13. CASE MakeEmpty
  BY <1>13, MakeEmptyInv
<1> QED
  BY <1>1, <1>2, <1>3, <1>4, <1>5, <1>6, <1>7, <1>8, <1>10, <1>11, <1>12, <1>13
     DEF Next

LEMMA StoreInvariant == Spec => []StoreInv
<1>1. Init => StoreInv
  BY InitInv
<1>2. StoreInv /\ [Next]_vars => StoreInv'
  BY NextInv
<1> QED
  BY <1>1, <1>2, PTL DEF Spec

(* The index of keys and the records say the same, whatever is created,    *)
(* rotated, patched and deleted: GetByPublishableKey finds a record under  *)
(* every id the index leads to.                                            *)
THEOREM IndexInvariant == Spec => []IndexConsistent
<1>1. StoreInv => IndexConsistent
  BY DEF StoreInv
<1> QED
  BY <1>1, StoreInvariant, PTL

(* A key that was rotated away or deleted never leads to an embed again.   *)
THEOREM KeysStayDead == Spec => []RetiredKeysStayDead
<1>1. StoreInv => RetiredKeysStayDead
  BY DEF StoreInv
<1> QED
  BY <1>1, StoreInvariant, PTL

(* No embed's allow-list can be changed by a PATCH of another embed.       *)
THEOREM ListsStayApart == Spec => []ListsNotShared
<1>1. StoreInv => ListsNotShared
  BY DEF StoreInv
<1> QED
  BY <1>1, StoreInvariant, PTL

-----------------------------------------------------------------------------
(* The arrays and the lists in them *)

Cells == Origins \cup {Blank, Torn}

(* A session exchange *)
Readers == [pc : {"idle", "scan", "allowed", "denied"}, origins : [at : Nat, len : Nat],
            id : Ids \cup {None}, origin : Origins \cup {None}, next : Nat \ {0},
            seen : Seq(Cells), clean : BOOLEAN]

HeapTypeOK ==
  /\ heap \in [Addrs -> Seq(Cells)] /\ exchange \in [Exchanges -> Readers]
  /\ DOMAIN list = Ids

Fits == \A id \in Stored : byID[id].origins.len <= Len(heap[byID[id].origins.at])

(* The first next - 1 elements are decoded, and the slice is long enough   *)
(* for what is.                                                            *)
Decoding ==
  ~Unlocked =>
    LET s == writer.copy.origins
        i == writer.next
    IN  /\ s.len <= Len(heap[s.at])
        /\ i \in 1..(Len(writer.patch) + 1) /\ i - 1 <= s.len
        /\ writer.half => i <= s.len /\ i <= Len(writer.patch)
        /\ \A j \in 1..(i - 1) : writer.patch[j] \in Origins => heap[s.at][j] = writer.patch[j]

(* The one element that may be half written *)
Tearing(a, i) ==
  ~Unlocked /\ writer.half /\ a = writer.copy.origins.at /\ i = writer.next
  /\ writer.patch[i] \in Origins

NoOtherTear == \A a \in Addrs : \A i \in 1..Len(heap[a]) : heap[a][i] = Torn => Tearing(a, i)

(* An exchange that nobody disturbed reads what it found, and has not met  *)
(* its origin in what it read.                                             *)
Undisturbed(x) ==
  LET e == exchange[x]
      s == exchange[x].origins
  IN  e.pc # "idle" /\ e.clean =>
        /\ s.at \in Addrs /\ s.len <= Len(heap[s.at])
        /\ Len(e.seen) = s.len /\ \A i \in 1..s.len : e.seen[i] = heap[s.at][i]
        /\ ~Unlocked /\ writer.half => s.at # writer.copy.origins.at
        /\ e.pc = "scan" => \A i \in 1..s.len : i < e.next => e.seen[i] # e.origin
        /\ e.pc = "denied" => \A i \in 1..s.len : e.seen[i] # e.origin
        /\ e.pc = "allowed" => \E i \in 1..s.len : e.seen[i] = e.origin

HeapInv ==
  /\ HeapTypeOK /\ Fits /\ Decoding /\ NoOtherTear
  /\ \A x \in Exchanges : Undisturbed(x)

(* What a copy of a record says of the array it points to *)
LEMMA SliceFacts ==
  ASSUME StoreInv, HeapInv
  PROVE  /\ \A a \in Addrs : /\ heap[a] \in Seq(Cells) /\ Len(heap[a]) \in Nat
                             /\ \A i \in 1..Len(heap[a]) : heap[a][i] \in Cells
         /\ \A id \in Stored : byID[id].origins \in Slices
         /\ ~Unlocked => /\ writer.copy.origins \in Slices /\ writer.next \in Nat
                         /\ writer.half \in BOOLEAN /\ Len(writer.patch) \in Nat
         /\ Addrs \subseteq Nat
<1>1. \A a \in Addrs : heap[a] \in Seq(Cells)
  BY DEF HeapInv, HeapTypeOK
<1>2. \A a \in Addrs : /\ Len(heap[a]) \in Nat
                       /\ \A i \in 1..Len(heap[a]) : heap[a][i] \in Cells
  BY <1>1, LenProperties, ElementOfSeq
<1>3. \A id \in Stored : byID[id].origins \in Slices
  BY StoredRecords DEF StoreInv, Records
<1>4. ~Unlocked => /\ writer.copy.origins \in Slices /\ writer.next \in Nat
                   /\ writer.half \in BOOLEAN /\ writer.patch \in Patches
  BY StoredRecords DEF StoreInv, Writers, Records
<1>5. ~Unlocked => Len(writer.patch) \in Nat
  BY <1>4, StoreAssumption, LenProperties
<1>6. Addrs \subseteq Nat
  BY StoreAssumption
<1> QED
  BY <1>1, <1>2, <1>3, <1>4, <1>5, <1>6

(* What a slice reads as is a sequence as long as it says.                 *)
LEMMA ContentsSeq ==
  ASSUME StoreInv, HeapInv, NEW s \in Slices, s.len <= Len(heap[s.at])
  PROVE  /\ Contents(s) \in Seq(Cells) /\ Len(Contents(s)) = s.len
         /\ \A i \in 1..s.len : Contents(s)[i] = heap[s.at][i]
<1>1. s.at \in Addrs /\ s.len \in Nat
  BY DEF Slices
<1>2. \A i \in 1..s.len : heap[s.at][i] \in Cells
  BY <1>1, SliceFacts
<1>3. Contents(s) \in [1..s.len -> Cells]
  BY <1>2 DEF Contents
<1>4. Contents(s) \in Seq(Cells)
  BY <1>1, <1>3, SeqDef
<1>5. DOMAIN Contents(s) = 1..Len(Contents(s)) /\ Len(Contents(s)) \in Nat
  BY <1>4, LenProperties
<1>6. DOMAIN Contents(s) = 1..s.len
  BY DEF Contents
<1>7. Len(Contents(s)) = s.len
  BY <1>1, <1>5, <1>6
<1> QED
  BY <1>4, <1>7 DEF Contents

(* make: the new array has what it is made of, and nothing half written    *)
(* that was not.                                                           *)
LEMMA AllocatedArray ==
  ASSUME StoreInv, HeapInv, NEW a \in Addrs, NEW s \in Seq(Cells), NEW capacity \in Len(s)..MaxCap,
         heap' = Allocated(a, s, capacity)
  PROVE  /\ heap' \in [Addrs -> Seq(Cells)] /\ Len(heap'[a]) = capacity
         /\ \A i \in 1..Len(s) : heap'[a][i] = s[i]
         /\ \A i \in 1..capacity : i > Len(s) => heap'[a][i] = Blank
         /\ \A b \in Addrs : b # a => heap'[b] = heap[b]
<1> DEFINE new == [i \in 1..capacity |-> IF i <= Len(s) THEN s[i] ELSE Blank]
<1>1. Len(s) \in Nat /\ capacity \in Nat /\ Len(s) <= capacity
  <2>1. Len(s) \in Nat
    BY LenProperties
  <2> QED
    BY <2>1, StoreAssumption
<1>2. \A i \in 1..Len(s) : s[i] \in Cells
  BY ElementOfSeq
<1>3. new \in [1..capacity -> Cells]
  BY <1>1, <1>2 DEF Cells
<1>4. new \in Seq(Cells)
  BY <1>1, <1>3, SeqDef
<1>5. DOMAIN new = 1..Len(new) /\ Len(new) \in Nat
  BY <1>4, LenProperties
<1>6. DOMAIN new = 1..capacity
  OBVIOUS
<1>7. Len(new) = capacity
  BY <1>1, <1>5, <1>6
<1>8. /\ \A i \in 1..Len(s) : new[i] = s[i]
      /\ \A i \in 1..capacity : i > Len(s) => new[i] = Blank
  BY <1>1
<1>9. heap \in [Addrs -> Seq(Cells)] /\ heap' = [heap EXCEPT ![a] = new]
  BY DEF HeapInv, HeapTypeOK, Allocated
<1> HIDE DEF new
<1>10. /\ heap' \in [Addrs -> Seq(Cells)] /\ heap'[a] = new
       /\ \A b \in Addrs : b # a => heap'[b] = heap[b]
  BY <1>4, <1>9
<1> QED
  BY <1>7, <1>8, <1>10

(* A cell is written.                                                      *)
LEMMA CellWritten ==
  ASSUME StoreInv, HeapInv, NEW a \in Addrs, NEW i \in 1..Len(heap[a]), NEW v \in Cells,
         heap' = [heap EXCEPT ![a][i] = v]
  PROVE  /\ heap' \in [Addrs -> Seq(Cells)] /\ Len(heap'[a]) = Len(heap[a])
         /\ \A j \in 1..Len(heap[a]) : heap'[a][j] = IF j = i THEN v ELSE heap[a][j]
         /\ \A b \in Addrs : b # a => heap'[b] = heap[b]
<1> DEFINE new == [heap[a] EXCEPT ![i] = v]
<1>1. heap[a] \in Seq(Cells) /\ heap \in [Addrs -> Seq(Cells)]
  BY DEF HeapInv, HeapTypeOK
<1>2. /\ new \in Seq(Cells) /\ Len(new) = Len(heap[a])
      /\ \A j \in 1..Len(heap[a]) : new[j] = IF j = i THEN v ELSE heap[a][j]
  BY <1>1, ExceptSeq
<1>3. heap' = [heap EXCEPT ![a] = new]
  OBVIOUS
<1> HIDE DEF new
<1>4. /\ heap' \in [Addrs -> Seq(Cells)] /\ heap'[a] = new
      /\ \A b \in Addrs : b # a => heap'[b] = heap[b]
  BY <1>1, <1>2, <1>3
<1> QED
  BY <1>2, <1>4

(* An exchange that does not move and whose array is left alone            *)
LEMMA UndisturbedStays ==
  ASSUME StoreInv, HeapInv, NEW x \in Exchanges, exchange'[x] = exchange[x],
         exchange[x].pc # "idle" /\ exchange[x].clean =>
           /\ heap'[exchange[x].origins.at] = heap[exchange[x].origins.at]
           /\ ~Unlocked' /\ writer'.half => exchange[x].origins.at # writer'.copy.origins.at
  PROVE  Undisturbed(x)'
BY DEF HeapInv, Undisturbed

(* Steps that change records but none of their lists *)
LEMMA RecordsOnly ==
  ASSUME StoreInv, HeapInv, UNCHANGED <<heap, writer, exchange, list>>,
         \A id \in Stored' : id \in Stored /\ byID'[id].origins = byID[id].origins
  PROVE  HeapInv'
<1>1. HeapTypeOK' /\ Fits'
  BY DEF HeapInv, HeapTypeOK, Fits
<1>2. Decoding' /\ NoOtherTear'
  BY DEF HeapInv, Decoding, NoOtherTear, Tearing, Unlocked
<1>3. \A x \in Exchanges : Undisturbed(x)'
  BY UndisturbedStays DEF HeapInv, Undisturbed, Unlocked
<1> QED
  BY <1>1, <1>2, <1>3 DEF HeapInv

(* The mutex is given back when nothing is half written.                   *)
LEMMA MutexReleased ==
  ASSUME StoreInv, HeapInv, UNCHANGED <<heap, exchange>>, Unlocked \/ ~writer.half
  PROVE  /\ \A a \in Addrs : \A i \in 1..Len(heap[a]) : heap[a][i] # Torn
         /\ Unlocked' \/ ~writer'.half => NoOtherTear' /\ \A x \in Exchanges : Undisturbed(x)'
<1>2. \A a \in Addrs : \A i \in 1..Len(heap[a]) : heap[a][i] # Torn
  BY DEF HeapInv, NoOtherTear, Tearing
<1>3. NoOtherTear'
  BY <1>2 DEF NoOtherTear
<1>4. Unlocked' \/ ~writer'.half => \A x \in Exchanges : Undisturbed(x)'
  BY UndisturbedStays
<1> QED
  BY <1>2, <1>3, <1>4

LEMMA InitHeap == Init => HeapInv
<1> SUFFICES ASSUME Init PROVE HeapInv
  OBVIOUS
<1>1. Stored = {} /\ Unlocked
  BY DEF Init, Stored, Unlocked
<1>2. /\ heap = [a \in Addrs |-> <<>>] /\ Len(<<>>) = 0 /\ <<>> \in Seq(Cells)
      /\ exchange = [x \in Exchanges |-> IdleExchange]
  BY EmptySeq DEF Init
<1>3. IdleExchange \in Readers /\ IdleExchange.pc = "idle"
  BY <1>2 DEF IdleExchange, Readers
<1>4. HeapTypeOK
  BY <1>2, <1>3 DEF HeapTypeOK, Init
<1>5. NoOtherTear
  <2>1. \A a \in Addrs : Len(heap[a]) = 0
    BY <1>2
  <2> QED
    BY <2>1 DEF NoOtherTear
<1>6. \A x \in Exchanges : Undisturbed(x)
  BY <1>2, <1>3 DEF Undisturbed
<1> QED
  BY <1>1, <1>4, <1>5, <1>6 DEF HeapInv, Fits, Decoding

LEMMA CreateHeap ==
  ASSUME StoreInv, HeapInv, NEW id \in Ids, NEW k \in Keys, NEW s \in Lists, Create(id, k, s)
  PROVE  HeapInv'
<1> DEFINE rec == [pk |-> k, status |-> "enabled",
                   origins |-> [at |-> FreeAddr, len |-> Len(s)]]
<1>1. /\ Unlocked /\ byID[id] = None /\ Addrs \ Live # {}
      /\ byID' = [byID EXCEPT ![id] = rec] /\ list' = [list EXCEPT ![id] = s]
      /\ UNCHANGED <<writer, exchange>>
  BY DEF Create
<1>2. PICK capacity \in Len(s)..MaxCap : heap' = Allocated(FreeAddr, s, capacity)
  BY DEF Create
<1>3. s \in Seq(Origins) /\ s \in Seq(Cells)
  <2>1. s \in Seq(Origins)
    BY StoreAssumption
  <2>2. s \in [1..Len(s) -> Origins] /\ Len(s) \in Nat
    BY <2>1, LenProperties
  <2>3. s \in [1..Len(s) -> Cells]
    BY <2>2 DEF Cells
  <2> QED
    BY <2>1, <2>2, <2>3, SeqDef
<1>4. FreeAddr \in Addrs /\ FreeAddr \notin Live
  BY <1>1 DEF FreeAddr
<1>5. /\ heap' \in [Addrs -> Seq(Cells)] /\ Len(heap'[FreeAddr]) = capacity
      /\ \A i \in 1..Len(s) : heap'[FreeAddr][i] = s[i]
      /\ \A i \in 1..capacity : i > Len(s) => heap'[FreeAddr][i] = Blank
      /\ \A b \in Addrs : b # FreeAddr => heap'[b] = heap[b]
  BY <1>2, <1>3, <1>4, AllocatedArray
<1>6. HeapTypeOK'
  BY <1>1, <1>5 DEF HeapInv, HeapTypeOK
<1>7. Fits'
  <2>1. byID \in [Ids -> Records \cup {None}]
    BY DEF StoreInv, StoreTypeOK
  <2>2. \A i \in Stored' : i \in Ids /\ (i # id => i \in Stored /\ byID'[i] = byID[i])
    BY <1>1, <2>1 DEF Stored
  <2>3. byID'[id].origins.at = FreeAddr /\ byID'[id].origins.len = Len(s)
    BY <1>1, <2>1
  <2>4. Len(s) <= capacity
    BY <1>3, LenProperties, StoreAssumption
  <2>5. \A i \in Stored : /\ byID[i].origins.at \in Addrs /\ byID[i].origins.at # FreeAddr
                         /\ byID[i].origins.len <= Len(heap[byID[i].origins.at])
    BY <1>1, FreshArray, SliceFacts DEF HeapInv, Fits, Slices
  <2> QED
    BY <1>5, <2>2, <2>3, <2>4, <2>5 DEF Fits
<1>8. Decoding'
  BY <1>1 DEF Decoding, Unlocked
<1>9. NoOtherTear'
  <2>1. ASSUME NEW a \in Addrs, NEW i \in 1..Len(heap'[a]) PROVE heap'[a][i] # Torn
    <3>1. CASE a = FreeAddr
      <4>1. Len(s) \in Nat /\ i \in 1..capacity /\ Torn # Blank
        BY <1>3, <1>5, <3>1, LenProperties DEF Torn, Blank
      <4>2. \A j \in 1..Len(s) : s[j] # Torn
        BY <1>3, ElementOfSeq, StoreAssumption
      <4> QED
        BY <1>5, <3>1, <4>1, <4>2
    <3>2. CASE a # FreeAddr
      BY <1>1, <1>5, <3>2 DEF HeapInv, NoOtherTear, Tearing
    <3> QED
      BY <3>1, <3>2
  <2> QED
    BY <2>1 DEF NoOtherTear
<1>10. ASSUME NEW x \in Exchanges PROVE Undisturbed(x)'
  <2>1. exchange[x].pc # "idle" => exchange[x].origins.at # FreeAddr
    BY <1>4 DEF Live
  <2>2. exchange[x].pc # "idle" /\ exchange[x].clean => exchange[x].origins.at \in Addrs
    BY DEF HeapInv, Undisturbed
  <2> QED
    BY <1>1, <1>5, <2>1, <2>2, UndisturbedStays DEF Unlocked
<1> QED
  BY <1>6, <1>7, <1>8, <1>9, <1>10 DEF HeapInv

LEMMA BeginPatchHeap ==
  ASSUME StoreInv, HeapInv, NEW id \in Ids, NEW patch \in Patches,
         NEW status \in Statuses, BeginPatch(id, patch, status)
  PROVE  HeapInv'
<1> DEFINE copy == [byID[id] EXCEPT !.status = status]
<1>1. /\ id \in Stored /\ Unlocked
      /\ writer' = [id |-> id, copy |-> copy, patch |-> patch, next |-> 1,
                    half |-> FALSE, failed |-> FALSE]
      /\ UNCHANGED <<byID, heap, exchange, list>>
  BY DEF BeginPatch, Stored, history
<1>2. byID[id] \in Records
  BY <1>1, StoredRecords DEF StoreInv
<1>3. copy.origins = byID[id].origins
  BY <1>2 DEF Records
<1> HIDE DEF copy
<1>4. /\ writer'.copy.origins = byID[id].origins /\ writer'.next = 1
      /\ ~ writer'.half /\ writer'.patch = patch
  BY <1>1, <1>3
<1>5. HeapTypeOK' /\ NoOtherTear' /\ \A x \in Exchanges : Undisturbed(x)'
  BY <1>1, <1>4, MutexReleased DEF HeapInv, HeapTypeOK
<1>6. Fits'
  BY <1>1 DEF HeapInv, Fits, Stored
<1>7. Decoding'
  <2>1. Len(patch) \in Nat
    BY StoreAssumption, LenProperties
  <2>2. byID[id].origins.len <= Len(heap[byID[id].origins.at]) /\ byID[id].origins.len \in Nat
    BY <1>1, SliceFacts DEF HeapInv, Fits, Slices
  <2>3. 1 \in 1..(Len(patch) + 1) /\ 1..(1 - 1) = {} /\ 1 - 1 <= byID[id].origins.len
    BY <2>1, <2>2
  <2> QED
    BY <1>1, <1>4, <2>2, <2>3 DEF Decoding
<1> QED
  BY <1>5, <1>6, <1>7 DEF HeapInv

(* A larger array is nobody else's, and has what was decoded so far.       *)
LEMMA GrowHeap ==
  ASSUME StoreInv, HeapInv, ~Unlocked, ~writer.half, writer.next <= Len(writer.patch),
         writer.next > Len(heap[writer.copy.origins.at]),
         Grow(writer.copy.origins, writer.next), UNCHANGED <<byID, exchange, list>>
  PROVE  HeapInv'
<1> DEFINE s == writer.copy.origins
           i == writer.next
           t == [at |-> FreeAddr, len |-> i]
<1>1. /\ writer \in Writers /\ s \in Slices /\ i \in Nat /\ Len(writer.patch) \in Nat
      /\ s.at \in Addrs /\ s.len \in Nat /\ s.len <= Len(heap[s.at]) /\ Len(heap[s.at]) \in Nat
      /\ i \in 1..(Len(writer.patch) + 1) /\ i - 1 <= s.len
      /\ \A j \in 1..(i - 1) : writer.patch[j] \in Origins => heap[s.at][j] = writer.patch[j]
  BY StoredRecords, SliceFacts DEF StoreInv, HeapInv, Decoding, Slices
<1>2. PICK capacity \in i..MaxCap : heap' = Allocated(FreeAddr, Contents(s), capacity)
  BY DEF Grow
<1>3. Addrs \ Live # {} /\ writer' = [writer EXCEPT !.copy.origins = t, !.half = TRUE]
  BY DEF Grow
<1>4. FreeAddr \in Addrs /\ FreeAddr \notin Live
  BY <1>3 DEF FreeAddr
<1>5. /\ Contents(s) \in Seq(Cells) /\ Len(Contents(s)) = s.len
      /\ \A j \in 1..s.len : Contents(s)[j] = heap[s.at][j]
  BY <1>1, ContentsSeq
<1>6. capacity \in Nat /\ i <= capacity /\ s.len < i /\ capacity \in s.len..MaxCap
  BY <1>1, StoreAssumption
<1>7. /\ heap' \in [Addrs -> Seq(Cells)] /\ Len(heap'[FreeAddr]) = capacity
      /\ \A j \in 1..s.len : heap'[FreeAddr][j] = heap[s.at][j]
      /\ \A j \in 1..capacity : j > s.len => heap'[FreeAddr][j] = Blank
      /\ \A b \in Addrs : b # FreeAddr => heap'[b] = heap[b]
  BY <1>2, <1>4, <1>5, <1>6, AllocatedArray
<1>8. /\ writer'.copy.origins.at = FreeAddr /\ writer'.copy.origins.len = i
      /\ writer'.half /\ writer'.next = i /\ writer'.patch = writer.patch
  BY <1>1, <1>3 DEF Writers, Records, Slices
<1>9. HeapTypeOK'
  BY <1>7 DEF HeapInv, HeapTypeOK
<1>10. Fits'
  <2>1. Stored' = Stored
    BY DEF Stored
  <2>2. \A j \in Stored : /\ byID[j].origins.at \in Addrs /\ byID[j].origins.at # FreeAddr
                         /\ byID[j].origins.len <= Len(heap[byID[j].origins.at])
    BY <1>3, FreshArray, SliceFacts DEF HeapInv, Fits, Slices
  <2> QED
    BY <1>7, <2>1, <2>2 DEF Fits
<1>11. Decoding'
  <2>1. \A j \in 1..(i - 1) : writer.patch[j] \in Origins => heap'[FreeAddr][j] = writer.patch[j]
    <3> HIDE DEF i, s
    <3> TAKE j \in 1..(i - 1)
    <3>1. j \in 1..s.len
      BY <1>1
    <3>2. heap'[FreeAddr][j] = heap[s.at][j]
      BY <3>1, <1>7
    <3> QED
      BY <3>2, <1>1
  <2>2. i <= Len(heap'[FreeAddr]) /\ i - 1 <= i /\ i <= Len(writer.patch)
    BY <1>1, <1>6, <1>7
  <2> HIDE DEF i, s
  <2> QED
    BY <1>1, <1>8, <2>1, <2>2 DEF Decoding
<1>12. NoOtherTear'
  <2>1. \A a \in Addrs : \A j \in 1..Len(heap[a]) : heap[a][j] # Torn
    BY DEF HeapInv, NoOtherTear, Tearing
  <2>2. ASSUME NEW a \in Addrs, NEW j \in 1..Len(heap'[a]) PROVE heap'[a][j] # Torn
    <3>1. CASE a = FreeAddr
      <4>1. j \in 1..capacity /\ Torn # Blank
        BY <1>7, <3>1 DEF Torn, Blank
      <4>2. \A l \in 1..s.len : heap[s.at][l] # Torn
        BY <1>1, <2>1
      <4>3. CASE j <= s.len
        <5>1. j \in 1..s.len
          BY <1>1, <4>1, <4>3
        <5> QED
          BY <1>7, <3>1, <4>2, <5>1
      <4>4. CASE j > s.len
        BY <1>7, <3>1, <4>1, <4>4
      <4> QED
        BY <1>1, <1>6, <4>1, <4>3, <4>4
    <3>2. CASE a # FreeAddr
      BY <1>7, <2>1, <3>2
    <3> QED
      BY <3>1, <3>2
  <2> QED
    BY <2>2 DEF NoOtherTear
<1>13. ASSUME NEW x \in Exchanges PROVE Undisturbed(x)'
  <2>1. exchange[x].pc # "idle" => exchange[x].origins.at # FreeAddr
    BY <1>4 DEF Live
  <2>2. exchange[x].pc # "idle" /\ exchange[x].clean => exchange[x].origins.at \in Addrs
    BY DEF HeapInv, Undisturbed
  <2> QED
    BY <1>7, <1>8, <2>1, <2>2, UndisturbedStays
<1> QED
  BY <1>9, <1>10, <1>11, <1>12, <1>13 DEF HeapInv

(* An empty array is nobody else's, and there is nothing in it.            *)
LEMMA MakeEmptyHeap ==
  ASSUME StoreInv, HeapInv, MakeEmpty
  PROVE  HeapInv'
<1> DEFINE t == [at |-> FreeAddr, len |-> 0]
<1>1. /\ ~Unlocked /\ writer \in Writers /\ writer.patch = <<>> /\ Addrs \ Live # {}
      /\ heap' = [heap EXCEPT ![FreeAddr] = <<>>]
      /\ writer' = [writer EXCEPT !.copy.origins = t]
      /\ UNCHANGED <<byID, exchange, list>>
  BY StoredRecords DEF MakeEmpty, StoreInv, history
<1>2. FreeAddr \in Addrs /\ FreeAddr \notin Live
  BY <1>1 DEF FreeAddr
<1>3. Len(<<>>) = 0 /\ <<>> \in Seq(Cells)
  OBVIOUS
<1>4. /\ heap' \in [Addrs -> Seq(Cells)] /\ heap'[FreeAddr] = <<>>
      /\ \A b \in Addrs : b # FreeAddr => heap'[b] = heap[b]
  BY <1>1, <1>2, <1>3 DEF HeapInv, HeapTypeOK
<1>5. /\ writer.next = 1 /\ ~writer.half
  BY <1>1, <1>3, SliceFacts DEF HeapInv, Decoding
<1>6. /\ writer'.copy.origins.at = FreeAddr /\ writer'.copy.origins.len = 0
      /\ ~writer'.half /\ writer'.next = 1 /\ writer'.patch = <<>>
  BY <1>1, <1>5 DEF Writers, Records, Slices
<1>7. HeapTypeOK'
  BY <1>1, <1>4 DEF HeapInv, HeapTypeOK
<1>8. Fits'
  <2>1. Stored' = Stored
    BY <1>1 DEF Stored
  <2>2. \A j \in Stored : /\ byID[j].origins.at \in Addrs /\ byID[j].origins.at # FreeAddr
                         /\ byID[j].origins.len <= Len(heap[byID[j].origins.at])
    BY <1>1, FreshArray, SliceFacts DEF HeapInv, Fits, Slices
  <2> QED
    BY <1>1, <1>4, <2>1, <2>2 DEF Fits
<1>9. Decoding'
  BY <1>3, <1>4, <1>6 DEF Decoding
<1>10. NoOtherTear'
  <2>1. \A a \in Addrs : \A j \in 1..Len(heap[a]) : heap[a][j] # Torn
    BY <1>5 DEF HeapInv, NoOtherTear, Tearing
  <2>2. ASSUME NEW a \in Addrs, NEW j \in 1..Len(heap'[a]) PROVE heap'[a][j] # Torn
    <3>1. a # FreeAddr
      BY <1>3, <1>4
    <3> QED
      BY <1>4, <2>1, <3>1
  <2> QED
    BY <2>2 DEF NoOtherTear
<1>11. ASSUME NEW x \in Exchanges PROVE Undisturbed(x)'
  <2>1. exchange[x].pc # "idle" => exchange[x].origins.at # FreeAddr
    BY <1>2 DEF Live
  <2>2. exchange[x].pc # "idle" /\ exchange[x].clean => exchange[x].origins.at \in Addrs
    BY DEF HeapInv, Undisturbed
  <2> QED
    BY <1>1, <1>4, <1>6, <2>1, <2>2, UndisturbedStays
<1> QED
  BY <1>7, <1>8, <1>9, <1>10, <1>11 DEF HeapInv

(* The copy's slice reaches the element that is being decoded.             *)
LEMMA SlotTaken ==
  ASSUME writer \in Writers, NEW n \in Nat,
         writer' = [writer EXCEPT !.copy.origins.len = n, !.half = TRUE]
  PROVE  /\ writer'.copy.origins.at = writer.copy.origins.at
         /\ writer'.copy.origins.len = n /\ writer'.half = TRUE
         /\ writer'.next = writer.next /\ writer'.patch = writer.patch
         /\ ~Unlocked'
<1> DEFINE copy == [writer.copy EXCEPT !.origins.len = n]
<1>1. writer' = [writer EXCEPT !.copy = copy, !.half = TRUE]
  OBVIOUS
<1>2. writer.copy \in Records
  BY DEF Writers
<1>3. /\ copy.origins.at = writer.copy.origins.at /\ copy.origins.len = n
      /\ copy \in Records
  BY <1>2 DEF Records, Slices
<1> HIDE DEF copy
<1>4. writer' = [id |-> writer.id, copy |-> copy, patch |-> writer.patch,
                 next |-> writer.next, half |-> TRUE, failed |-> writer.failed]
  BY <1>1 DEF Writers
<1>5. /\ writer'.copy = copy /\ writer'.half = TRUE
      /\ writer'.next = writer.next /\ writer'.patch = writer.patch
  <2> DEFINE w == [id |-> writer.id, copy |-> copy, patch |-> writer.patch,
                   next |-> writer.next, half |-> TRUE, failed |-> writer.failed]
  <2>1. w.half = TRUE
    BY Zenon
  <2>2. w.copy = copy /\ w.next = writer.next /\ w.patch = writer.patch
    BY Zenon
  <2>3. writer' = w
    BY <1>4
  <2> HIDE DEF w
  <2> QED
    BY <2>1, <2>2, <2>3, Zenon
<1>6. /\ writer.id \in Ids /\ writer.patch \in Patches /\ writer.next \in Nat
      /\ writer.failed \in BOOLEAN
  BY DEF Writers
<1>7. writer' \in Writers
  <2>1. [id |-> writer.id, copy |-> copy, patch |-> writer.patch,
         next |-> writer.next, half |-> TRUE, failed |-> writer.failed] \in Writers
    BY <1>3, <1>6 DEF Writers
  <2> QED
    BY <1>4, <2>1, Zenon
<1>8. writer' # None
  BY <1>7, NothingIsNone, Zenon
<1>9. ~Unlocked'
  BY <1>8 DEF Unlocked
<1> QED
  BY <1>3, <1>5, <1>9, Zenon

(* An element that fits is marked as being written; who reads the array    *)
(* knows.                                                                  *)
LEMMA DecodeInPlace ==
  ASSUME StoreInv, HeapInv, ~Unlocked, ~writer.half, writer.next <= Len(writer.patch),
         writer.next <= Len(heap[writer.copy.origins.at]), NEW n \in Nat,
         n = IF writer.next > writer.copy.origins.len
             THEN writer.next ELSE writer.copy.origins.len,
         writer'.copy.origins.at = writer.copy.origins.at, writer'.copy.origins.len = n,
         writer'.half = TRUE, writer'.next = writer.next, writer'.patch = writer.patch,
         ~Unlocked',
         writer.patch[writer.next] \in Origins =>
           heap' = [heap EXCEPT ![writer.copy.origins.at][writer.next] = Torn],
         writer.patch[writer.next] \notin Origins => heap' = heap,
         exchange' = Overwriting(writer.copy.origins.at), UNCHANGED <<byID, list>>
  PROVE  HeapInv'
<1> DEFINE s == writer.copy.origins
           i == writer.next
<1>1. /\ writer \in Writers /\ s \in Slices /\ i \in Nat /\ Len(writer.patch) \in Nat
      /\ s.at \in Addrs /\ s.len \in Nat /\ s.len <= Len(heap[s.at]) /\ Len(heap[s.at]) \in Nat
      /\ i \in 1..(Len(writer.patch) + 1) /\ i - 1 <= s.len
      /\ \A j \in 1..(i - 1) : writer.patch[j] \in Origins => heap[s.at][j] = writer.patch[j]
  BY StoredRecords, SliceFacts DEF StoreInv, HeapInv, Decoding, Slices
<1>2. i \in 1..Len(heap[s.at]) /\ n \in Nat /\ n <= Len(heap[s.at]) /\ i <= n
  BY <1>1
<1>4. Torn \in Cells /\ \A a \in Addrs : \A j \in 1..Len(heap[a]) : heap[a][j] # Torn
  BY DEF HeapInv, NoOtherTear, Tearing, Cells
<1>5. /\ heap' \in [Addrs -> Seq(Cells)] /\ Len(heap'[s.at]) = Len(heap[s.at])
      /\ \A j \in 1..Len(heap[s.at]) : j # i => heap'[s.at][j] = heap[s.at][j]
      /\ writer.patch[i] \notin Origins => heap' = heap
      /\ \A b \in Addrs : b # s.at => heap'[b] = heap[b]
  <2>1. CASE writer.patch[i] \in Origins
    <3>1. heap' = [heap EXCEPT ![s.at][i] = Torn]
      BY <2>1
    <3>2. /\ heap' \in [Addrs -> Seq(Cells)] /\ Len(heap'[s.at]) = Len(heap[s.at])
          /\ \A j \in 1..Len(heap[s.at]) : heap'[s.at][j] = IF j = i THEN Torn ELSE heap[s.at][j]
          /\ \A b \in Addrs : b # s.at => heap'[b] = heap[b]
      BY <1>1, <1>2, <1>4, <3>1, CellWritten
    <3>3. \A j \in 1..Len(heap[s.at]) : j # i => heap'[s.at][j] = heap[s.at][j]
      BY <3>2
    <3> HIDE DEF s, i
    <3> QED
      BY <2>1, <3>2, <3>3
  <2>2. CASE writer.patch[i] \notin Origins
    <3>1. heap' = heap
      BY <2>2
    <3> QED
      BY <3>1 DEF HeapInv, HeapTypeOK
  <2> QED
    BY <2>1, <2>2
<1>6. \A x \in Exchanges :
        exchange'[x] = [exchange[x] EXCEPT !.clean = exchange[x].clean /\ exchange[x].origins.at # s.at]
  BY DEF Overwriting
<1>7. HeapTypeOK'
  <2>1. \A x \in Exchanges : exchange[x] \in Readers
    BY DEF HeapInv, HeapTypeOK
  <2>2. \A x \in Exchanges : \A b \in BOOLEAN : [exchange[x] EXCEPT !.clean = b] \in Readers
    BY <2>1, ZenonT(30) DEF Readers
  <2>3. \A x \in Exchanges : (exchange[x].clean /\ exchange[x].origins.at # s.at) \in BOOLEAN
    OBVIOUS
  <2>4. exchange' \in [Exchanges -> Readers]
    BY <2>2, <2>3 DEF Overwriting
  <2> QED
    BY <1>5, <2>4 DEF HeapInv, HeapTypeOK
<1>8. Fits'
  <2>1. Stored' = Stored
    BY DEF Stored
  <2>2. \A j \in Stored : /\ byID[j].origins.at \in Addrs
                         /\ byID[j].origins.len <= Len(heap[byID[j].origins.at])
    BY SliceFacts DEF HeapInv, Fits, Slices
  <2>3. \A a \in Addrs : Len(heap'[a]) = Len(heap[a])
    BY <1>5
  <2> QED
    BY <2>1, <2>2, <2>3 DEF Fits
<1>9. Decoding'
  <2>1. \A j \in 1..(i - 1) : writer.patch[j] \in Origins => heap'[s.at][j] = writer.patch[j]
    <3>1. \A j \in 1..(i - 1) : j \in 1..Len(heap[s.at]) /\ j # i
      BY <1>1, <1>2
    <3> HIDE DEF s, i
    <3> QED
      BY <3>1, <1>1, <1>5
  <2>2. n <= Len(heap'[s.at]) /\ i - 1 <= n /\ i <= n /\ i <= Len(writer.patch)
    <3>1. i - 1 <= n /\ i <= n /\ i <= Len(writer.patch)
      BY <1>1, <1>2
    <3> HIDE DEF s, i
    <3> QED
      BY <3>1, <1>2, <1>5
  <2>3. i \in 1..(Len(writer.patch) + 1)
    BY <1>1
  <2>4. /\ writer'.copy.origins.at = s.at /\ writer'.copy.origins.len = n
        /\ writer'.next = i /\ writer'.patch = writer.patch
    OBVIOUS
  <2> HIDE DEF i, s
  <2> QED
    BY <2>1, <2>2, <2>3, <2>4 DEF Decoding
<1>10. NoOtherTear'
  <2>1. ASSUME NEW a \in Addrs, NEW j \in 1..Len(heap'[a]), heap'[a][j] = Torn
        PROVE  a = s.at /\ j = i /\ writer.patch[i] \in Origins
    BY <1>4, <1>5, <2>1
  <2>2. ASSUME NEW a \in Addrs, NEW j \in 1..Len(heap'[a]), heap'[a][j] = Torn
        PROVE  Tearing(a, j)'
    BY <2>1, <2>2 DEF Tearing
  <2> QED
    BY <2>2 DEF NoOtherTear
<1>11. ASSUME NEW x \in Exchanges PROVE Undisturbed(x)'
  <2>1. exchange[x] \in Readers
    BY DEF HeapInv, HeapTypeOK
  <2>2. CASE exchange[x].origins.at = s.at
    <3>1. ~ exchange'[x].clean
      BY <1>6, <2>1, <2>2 DEF Readers
    <3> QED
      BY <3>1 DEF Undisturbed
  <2>3. CASE exchange[x].origins.at # s.at
    <3>1. exchange'[x] = exchange[x]
      BY <1>6, <2>1, <2>3 DEF Readers
    <3>2. exchange[x].pc # "idle" /\ exchange[x].clean => exchange[x].origins.at \in Addrs
      BY DEF HeapInv, Undisturbed
    <3> QED
      BY <1>5, <2>3, <3>1, <3>2, UndisturbedStays
  <2> QED
    BY <2>2, <2>3
<1> QED
  BY <1>7, <1>8, <1>9, <1>10, <1>11 DEF HeapInv

LEMMA DecodeHeap ==
  ASSUME StoreInv, HeapInv, DecodeElement
  PROVE  HeapInv'
<1>1. /\ ~Unlocked /\ ~writer.half /\ writer.next <= Len(writer.patch)
      /\ UNCHANGED <<byID, list>>
  BY DEF DecodeElement, history
<1>2. CASE /\ writer.next > Len(heap[writer.copy.origins.at])
           /\ Grow(writer.copy.origins, writer.next) /\ UNCHANGED exchange
  BY <1>1, <1>2, GrowHeap
<1>3. CASE ~ (/\ writer.next > Len(heap[writer.copy.origins.at])
              /\ Grow(writer.copy.origins, writer.next) /\ UNCHANGED exchange)
  <2> DEFINE n == IF writer.next > writer.copy.origins.len
                  THEN writer.next ELSE writer.copy.origins.len
  <2>1. /\ writer.next <= Len(heap[writer.copy.origins.at])
        /\ heap' = IF writer.patch[writer.next] \in Origins
                   THEN [heap EXCEPT ![writer.copy.origins.at][writer.next] = Torn] ELSE heap
        /\ writer' = [writer EXCEPT !.copy.origins.len = n, !.half = TRUE]
        /\ exchange' = Overwriting(writer.copy.origins.at)
    BY <1>3 DEF DecodeElement
  <2>2. writer \in Writers /\ n \in Nat
    BY <1>1, StoredRecords, SliceFacts DEF StoreInv, Slices
  <2>3. n = IF writer.next > writer.copy.origins.len
            THEN writer.next ELSE writer.copy.origins.len
    OBVIOUS
  <2> HIDE DEF n
  <2>4. /\ writer'.copy.origins.at = writer.copy.origins.at
        /\ writer'.copy.origins.len = n /\ writer'.half = TRUE
        /\ writer'.next = writer.next /\ writer'.patch = writer.patch
        /\ ~Unlocked'
    BY <2>1, <2>2, SlotTaken
  <2>5. /\ writer.patch[writer.next] \in Origins =>
             heap' = [heap EXCEPT ![writer.copy.origins.at][writer.next] = Torn]
        /\ writer.patch[writer.next] \notin Origins => heap' = heap
    BY <2>1
  <2> QED
    BY <1>1, <2>1, <2>2, <2>3, <2>4, <2>5, DecodeInPlace
<1> QED
  BY <1>2, <1>3

(* The element is whole again, and one more is decoded.                    *)
LEMMA StoreElementHeap ==
  ASSUME StoreInv, HeapInv, StoreElement
  PROVE  HeapInv'
<1> DEFINE s == writer.copy.origins
           i == writer.next
           v == Element(i, heap[s.at])
           failed == writer.failed \/ writer.patch[i] = Bad
<1>1. /\ ~Unlocked /\ writer.half /\ UNCHANGED <<byID, exchange, list>>
      /\ heap' = [heap EXCEPT ![s.at][i] = v]
      /\ writer' = [writer EXCEPT !.next = i + 1, !.half = FALSE, !.failed = failed]
  BY DEF StoreElement, history
<1>2. /\ writer \in Writers /\ s \in Slices /\ i \in Nat /\ Len(writer.patch) \in Nat
      /\ s.at \in Addrs /\ s.len \in Nat /\ s.len <= Len(heap[s.at]) /\ Len(heap[s.at]) \in Nat
      /\ i \in 1..(Len(writer.patch) + 1) /\ i <= s.len /\ i <= Len(writer.patch)
      /\ \A j \in 1..(i - 1) : writer.patch[j] \in Origins => heap[s.at][j] = writer.patch[j]
  BY <1>1, StoredRecords, SliceFacts DEF StoreInv, HeapInv, Decoding, Slices
<1>3. i \in 1..Len(heap[s.at])
  BY <1>2
<1>4. v \in Cells
  BY <1>2, <1>3, SliceFacts DEF Element, Cells
<1>5. v # Torn /\ (writer.patch[i] \in Origins => v = writer.patch[i])
  <2>1. CASE writer.patch[i] \in Origins
    BY <2>1, StoreAssumption DEF Element
  <2>2. CASE writer.patch[i] \notin Origins
    BY <1>2, <1>3, <2>2 DEF Element, HeapInv, NoOtherTear, Tearing
  <2> QED
    BY <2>1, <2>2
<1>6. /\ writer'.copy.origins = s /\ ~ writer'.half /\ writer'.next = i + 1
      /\ writer'.patch = writer.patch
  <2> HIDE DEF failed
  <2> QED
    BY <1>1, <1>2 DEF Writers
<1> HIDE DEF v, failed
<1>7. /\ heap' \in [Addrs -> Seq(Cells)] /\ Len(heap'[s.at]) = Len(heap[s.at])
      /\ \A j \in 1..Len(heap[s.at]) : heap'[s.at][j] = IF j = i THEN v ELSE heap[s.at][j]
      /\ \A b \in Addrs : b # s.at => heap'[b] = heap[b]
  BY <1>1, <1>2, <1>3, <1>4, CellWritten
<1>8. HeapTypeOK'
  BY <1>1, <1>7 DEF HeapInv, HeapTypeOK
<1>9. Fits'
  <2>1. Stored' = Stored
    BY <1>1 DEF Stored
  <2>2. \A j \in Stored : /\ byID[j].origins.at \in Addrs
                         /\ byID[j].origins.len <= Len(heap[byID[j].origins.at])
    BY SliceFacts DEF HeapInv, Fits, Slices
  <2>3. \A a \in Addrs : Len(heap'[a]) = Len(heap[a])
    BY <1>7
  <2> QED
    BY <1>1, <2>1, <2>2, <2>3 DEF Fits
<1>10. Decoding'
  <2>1. \A j \in 1..((i + 1) - 1) :
          writer.patch[j] \in Origins => heap'[s.at][j] = writer.patch[j]
    <3> SUFFICES ASSUME NEW j \in 1..((i + 1) - 1), writer.patch[j] \in Origins
                 PROVE  heap'[s.at][j] = writer.patch[j]
      OBVIOUS
    <3>1. j \in 1..Len(heap[s.at]) /\ (j = i \/ j \in 1..(i - 1))
      BY <1>2
    <3> QED
      BY <1>2, <1>5, <1>7, <3>1
  <2>2. /\ s.len <= Len(heap'[s.at]) /\ (i + 1) - 1 <= s.len
        /\ i + 1 \in 1..(Len(writer.patch) + 1)
    BY <1>2, <1>7
  <2> HIDE DEF s
  <2> QED
    BY <1>6, <2>1, <2>2 DEF Decoding
<1>11. NoOtherTear'
  <2>1. ASSUME NEW a \in Addrs, NEW j \in 1..Len(heap'[a]) PROVE heap'[a][j] # Torn
    BY <1>2, <1>5, <1>7, SMTT(30) DEF HeapInv, NoOtherTear, Tearing
  <2> QED
    BY <2>1 DEF NoOtherTear
<1>12. ASSUME NEW x \in Exchanges PROVE Undisturbed(x)'
  <2>1. exchange[x].pc # "idle" /\ exchange[x].clean =>
          exchange[x].origins.at \in Addrs /\ exchange[x].origins.at # s.at
    BY <1>1 DEF HeapInv, Undisturbed
  <2> QED
    BY <1>1, <1>6, <1>7, <2>1, UndisturbedStays
<1> QED
  BY <1>8, <1>9, <1>10, <1>11, <1>12 DEF HeapInv

(* What is committed lies in its array, and is the list that was sent.     *)
LEMMA CommitHeap ==
  ASSUME StoreInv, HeapInv, CommitPatch
  PROVE  /\ HeapInv'
         /\ LET s == byID'[writer.id].origins IN
            [i \in 1..s.len |-> heap'[s.at][i]] = list'[writer.id]
<1> DEFINE n == Len(writer.patch)
           s == writer.copy.origins
           id == writer.id
           rec == [writer.copy EXCEPT !.origins = Cut(s, n)]
           new == [i \in 1..n |-> Element(i, heap[s.at])]
<1>1. /\ ~Unlocked /\ ~writer.half /\ writer.next > n
      /\ byID' = [byID EXCEPT ![id] = rec] /\ writer' = None
      /\ list' = [list EXCEPT ![id] = new]
      /\ UNCHANGED <<heap, exchange>>
  BY DEF CommitPatch, Decoded
<1>w. writer \in Writers /\ s \in Slices /\ id \in Stored /\ id \in Ids
  BY <1>1, StoredRecords DEF StoreInv, WriterBusy, Writers, Records
<1>i. byID \in [Ids -> Records \cup {None}]
  BY DEF StoreInv, StoreTypeOK
<1>2. /\ writer.next \in Nat /\ n \in Nat /\ s.at \in Addrs /\ s.len \in Nat
      /\ Len(heap[s.at]) \in Nat /\ s.len <= Len(heap[s.at])
      /\ writer.next \in 1..(n + 1) /\ writer.next - 1 <= s.len
  <2>1. writer.next \in Nat /\ n \in Nat
    BY <1>1, SliceFacts
  <2>2. s.at \in Addrs /\ s.len \in Nat
    BY <1>w DEF Slices
  <2>3. Len(heap[s.at]) \in Nat
    BY <2>2, SliceFacts
  <2>4. /\ s.len <= Len(heap[s.at])
        /\ writer.next \in 1..(n + 1) /\ writer.next - 1 <= s.len
    BY <1>1 DEF HeapInv, Decoding
  <2> QED
    BY <2>1, <2>2, <2>3, <2>4
<1>d. \A j \in 1..(writer.next - 1) : writer.patch[j] \in Origins => heap[s.at][j] = writer.patch[j]
  BY <1>1 DEF HeapInv, Decoding
<1>3. n = writer.next - 1 /\ n <= Len(heap[s.at])
  BY <1>1, <1>2, SMTT(30)
<1>4. rec.origins.at = s.at /\ rec.origins.len = n
  BY <1>w DEF Writers, Records, Slices, Cut
<1> HIDE DEF rec, n
<1>5. byID'[id] = rec /\ \A i \in Stored' \ {id} : i \in Stored /\ byID'[i] = byID[i]
  BY <1>1, <1>w, <1>i DEF Stored
<1>6. HeapTypeOK' /\ NoOtherTear' /\ \A x \in Exchanges : Undisturbed(x)'
  <2>1. DOMAIN list' = DOMAIN list
    BY <1>1
  <2>2. NoOtherTear' /\ \A x \in Exchanges : Undisturbed(x)'
    BY <1>1, MutexReleased DEF Unlocked
  <2> QED
    BY <1>1, <2>1, <2>2 DEF HeapInv, HeapTypeOK
<1>7. Fits'
  BY <1>1, <1>3, <1>4, <1>5 DEF HeapInv, Fits
<1>8. Decoding'
  BY <1>1 DEF Decoding, Unlocked
<1>9. list'[id] = new
  BY <1>1, <1>w DEF HeapInv, HeapTypeOK
<1>10. \A i \in 1..n : heap[s.at][i] = Element(i, heap[s.at])
  BY <1>d, <1>3 DEF Element
<1>11. [i \in 1..n |-> heap[s.at][i]] = [i \in 1..n |-> Element(i, heap[s.at])]
  <2> HIDE DEF s
  <2> QED
    BY <1>10, Zenon
<1>12. HeapInv'
  BY <1>6, <1>7, <1>8 DEF HeapInv
<1>13. /\ byID'[id].origins.len = n /\ byID'[id].origins.at = s.at
       /\ heap' = heap
  BY <1>1, <1>4, <1>5
<1>14. list'[id] = [i \in 1..n |-> heap[s.at][i]]
  BY <1>9, <1>11
<1> QED
  BY <1>12, <1>13, <1>14

LEMMA DeleteHeap ==
  ASSUME StoreInv, HeapInv, NEW id \in Ids, Delete(id)
  PROVE  HeapInv'
<1>1. /\ byID' = [byID EXCEPT ![id] = None]
      /\ UNCHANGED <<heap, writer, exchange, list>>
  BY DEF Delete
<1>2. byID \in [Ids -> Records \cup {None}]
  BY DEF StoreInv, StoreTypeOK
<1>3. \A j \in Stored' : j \in Stored /\ byID'[j].origins = byID[j].origins
  BY <1>1, <1>2 DEF Stored
<1> QED
  BY <1>1, <1>3, RecordsOnly

LEMMA RotateHeap ==
  ASSUME StoreInv, HeapInv, NEW id \in Ids, NEW k \in Keys, RotateKey(id, k)
  PROVE  HeapInv'
<1> DEFINE rec == [byID[id] EXCEPT !.pk = k]
<1>1. /\ byID[id] # None /\ byID' = [byID EXCEPT ![id] = rec]
      /\ UNCHANGED <<heap, writer, exchange, list>>
  BY DEF RotateKey
<1>2. byID \in [Ids -> Records \cup {None}]
  BY DEF StoreInv, StoreTypeOK
<1>3. rec.origins = byID[id].origins
  BY <1>1, <1>2 DEF Records
<1> HIDE DEF rec
<1>4. \A j \in Stored' : j \in Stored /\ byID'[j].origins = byID[j].origins
  BY <1>1, <1>2, <1>3 DEF Stored
<1> QED
  BY <1>1, <1>4, RecordsOnly

LEMMA SetStatusHeap ==
  ASSUME StoreInv, HeapInv, NEW id \in Ids, NEW status \in Statuses, SetStatus(id, status)
  PROVE  HeapInv'
<1> DEFINE rec == [byID[id] EXCEPT !.status = status]
<1>1. /\ byID[id] # None /\ byID' = [byID EXCEPT ![id] = rec]
      /\ UNCHANGED <<heap, writer, exchange, list>>
  BY DEF SetStatus, history
<1>2. byID \in [Ids -> Records \cup {None}]
  BY DEF StoreInv, StoreTypeOK
<1>3. rec.origins = byID[id].origins
  BY <1>1, <1>2 DEF Records
<1> HIDE DEF rec
<1>4. \A j \in Stored' : j \in Stored /\ byID'[j].origins = byID[j].origins
  BY <1>1, <1>2, <1>3 DEF Stored
<1> QED
  BY <1>1, <1>4, RecordsOnly

(* The record keeps its list; what was decoded into its array stays there. *)
LEMMA RejectHeap ==
  ASSUME StoreInv, HeapInv, RejectPatch
  PROVE  HeapInv'
<1>1. /\ ~Unlocked /\ ~writer.half /\ writer' = None
      /\ UNCHANGED <<byID, heap, exchange, list>>
  BY DEF RejectPatch, Decoded, history
<1>2. NoOtherTear' /\ \A x \in Exchanges : Undisturbed(x)'
  BY <1>1, MutexReleased DEF Unlocked
<1>3. HeapTypeOK' /\ Fits' /\ Decoding'
  BY <1>1 DEF HeapInv, HeapTypeOK, Fits, Stored, Decoding, Unlocked
<1> QED
  BY <1>2, <1>3 DEF HeapInv

(* Steps of one exchange *)
LEMMA ExchangeMoves ==
  ASSUME StoreInv, HeapInv, NEW x \in Exchanges, NEW e \in Readers,
         exchange' = [exchange EXCEPT ![x] = e],
         UNCHANGED <<byID, heap, writer, list>>, Undisturbed(x)'
  PROVE  HeapInv'
<1>1. exchange \in [Exchanges -> Readers]
  BY DEF HeapInv, HeapTypeOK
<1>2. HeapTypeOK'
  BY <1>1 DEF HeapInv, HeapTypeOK
<1>3. Fits' /\ Decoding' /\ NoOtherTear'
  BY DEF HeapInv, Fits, Stored, Decoding, NoOtherTear, Tearing, Unlocked
<1>4. ASSUME NEW y \in Exchanges PROVE Undisturbed(y)'
  <2>1. CASE y # x
    <3>1. exchange'[y] = exchange[y]
      BY <1>1, <2>1
    <3> QED
      BY <3>1, UndisturbedStays DEF HeapInv, Undisturbed, Unlocked
  <2> QED
    BY <2>1
<1> QED
  BY <1>2, <1>3, <1>4 DEF HeapInv

LEMMA LookupHeap ==
  ASSUME StoreInv, HeapInv, NEW x \in Exchanges, NEW k \in Keys, NEW origin \in Origins,
         Lookup(x, k, origin)
  PROVE  HeapInv'
<1> DEFINE s == byID[byPK[k]].origins
           seen == Contents(s)
           e == [pc |-> "scan", origins |-> s, id |-> byPK[k], origin |-> origin, next |-> 1,
                 seen |-> seen, clean |-> TRUE]
<1>1. /\ Unlocked /\ byPK[k] # None /\ exchange' = [exchange EXCEPT ![x] = e]
      /\ UNCHANGED <<byID, heap, writer, list>>
  BY DEF Lookup, history
<1>2. byPK[k] \in Stored /\ byPK[k] \in Ids
  BY <1>1 DEF StoreInv, IndexConsistent, Stored
<1>3. s \in Slices /\ s.len <= Len(heap[s.at])
  BY <1>2, SliceFacts DEF HeapInv, Fits
<1>4. /\ seen \in Seq(Cells) /\ Len(seen) = s.len
      /\ \A i \in 1..s.len : seen[i] = heap[s.at][i]
  BY <1>3, ContentsSeq
<1>5. s \in [at : Nat, len : Nat] /\ s.at \in Addrs /\ s.len \in Nat
  BY <1>3, StoreAssumption DEF Slices
<1> HIDE DEF s, seen
<1>6. e \in Readers
  BY <1>2, <1>4, <1>5 DEF Readers
<1>7. /\ e.pc = "scan" /\ e.origins = s /\ e.next = 1 /\ e.seen = seen /\ e.origin = origin
  OBVIOUS
<1> HIDE DEF e
<1>8. exchange'[x] = e
  BY <1>1 DEF HeapInv, HeapTypeOK
<1>9. \A i \in 1..s.len : ~(i < 1)
  BY <1>5
<1>10. Undisturbed(x)'
  BY <1>1, <1>3, <1>4, <1>5, <1>7, <1>8, <1>9 DEF Undisturbed, Unlocked
<1> QED
  BY <1>1, <1>6, <1>10, ExchangeMoves

(* The scan compares what was found: the array was not written to, so no   *)
(* element of it is half written.                                          *)
LEMMA ScanHeap ==
  ASSUME StoreInv, HeapInv, NEW x \in Exchanges, Scan(x)
  PROVE  HeapInv'
<1> DEFINE e == exchange[x]
           s == e.origins
           cell == heap[s.at][e.next]
<1>1. e.pc = "scan" /\ UNCHANGED <<byID, heap, writer, list>>
  BY DEF Scan, history
<1>2. /\ e \in Readers /\ e.next \in Nat \ {0} /\ s.len \in Nat
      /\ exchange \in [Exchanges -> Readers]
  BY DEF HeapInv, HeapTypeOK, Readers
<1>3. ASSUME e.clean
      PROVE  /\ s.at \in Addrs /\ s.len <= Len(heap[s.at])
             /\ Len(e.seen) = s.len /\ \A i \in 1..s.len : e.seen[i] = heap[s.at][i]
             /\ ~Unlocked /\ writer.half => s.at # writer.copy.origins.at
             /\ \A i \in 1..s.len : i < e.next => e.seen[i] # e.origin
  BY <1>1, <1>3 DEF HeapInv, Undisturbed
<1>4. ASSUME e.clean, e.next <= s.len
      PROVE  e.next \in 1..s.len /\ cell = e.seen[e.next] /\ cell # Torn
  <2>1. e.next \in 1..s.len
    BY <1>2, <1>4
  <2>2. e.next \in 1..Len(heap[s.at])
    BY <1>2, <1>3, <1>4, SliceFacts
  <2>3. cell # Torn
    BY <1>3, <1>4, <2>2 DEF HeapInv, NoOtherTear, Tearing
  <2> QED
    BY <1>3, <1>4, <2>1, <2>3
<1>5. CASE e.next > s.len /\ Verdict(x, "denied")
  <2> DEFINE f == [e EXCEPT !.pc = "denied"]
  <2>1. f \in Readers /\ exchange' = [exchange EXCEPT ![x] = f]
    BY <1>2, <1>5 DEF Readers, Verdict
  <2>2. /\ f.pc = "denied" /\ f.origins = s /\ f.origin = e.origin
        /\ f.seen = e.seen /\ f.clean = e.clean
    BY <1>2 DEF Readers
  <2>3. e.clean => \A i \in 1..s.len : e.seen[i] # e.origin
    BY <1>2, <1>3, <1>5
  <2> HIDE DEF f
  <2>4. exchange'[x] = f
    BY <1>2, <2>1
  <2>5. Undisturbed(x)'
    BY <1>1, <1>3, <2>2, <2>3, <2>4, SMTT(30) DEF Undisturbed, Unlocked
  <2> QED
    BY <1>1, <2>1, <2>5, ExchangeMoves
<1>6. CASE e.next <= s.len /\ cell \in {e.origin, Torn} /\ Verdict(x, "allowed")
  <2> DEFINE f == [e EXCEPT !.pc = "allowed"]
  <2>1. f \in Readers /\ exchange' = [exchange EXCEPT ![x] = f]
    BY <1>2, <1>6 DEF Readers, Verdict
  <2>2. /\ f.pc = "allowed" /\ f.origins = s /\ f.origin = e.origin
        /\ f.seen = e.seen /\ f.clean = e.clean
    BY <1>2 DEF Readers
  <2>3. e.clean => \E i \in 1..s.len : e.seen[i] = e.origin
    BY <1>4, <1>6
  <2> HIDE DEF f
  <2>4. exchange'[x] = f
    BY <1>2, <2>1
  <2>5. Undisturbed(x)'
    BY <1>1, <1>3, <2>2, <2>3, <2>4, SMTT(30) DEF Undisturbed, Unlocked
  <2> QED
    BY <1>1, <2>1, <2>5, ExchangeMoves
<1>7. CASE /\ e.next <= s.len /\ cell # e.origin
           /\ exchange' = [exchange EXCEPT ![x].next = e.next + 1]
  <2> DEFINE f == [e EXCEPT !.next = e.next + 1]
  <2>1. f \in Readers /\ exchange' = [exchange EXCEPT ![x] = f]
    <3> DEFINE step == e.next + 1
    <3>1. step \in Nat \ {0}
      BY <1>2
    <3>2. exchange' = [exchange EXCEPT ![x] = [e EXCEPT !.next = step]]
      BY <1>2, <1>7
    <3> HIDE DEF step
    <3>3. [e EXCEPT !.next = step] \in Readers
      BY <1>2, <3>1 DEF Readers
    <3> QED
      BY <3>2, <3>3 DEF step
  <2>2. /\ f.pc = "scan" /\ f.origins = s /\ f.origin = e.origin
        /\ f.seen = e.seen /\ f.clean = e.clean /\ f.next = e.next + 1
    BY <1>1, <1>2 DEF Readers
  <2>3. e.clean => \A i \in 1..s.len : i < e.next + 1 => e.seen[i] # e.origin
    <3> SUFFICES ASSUME e.clean, NEW i \in 1..s.len, i < e.next + 1
                 PROVE  e.seen[i] # e.origin
      OBVIOUS
    <3>1. i < e.next \/ i = e.next
      BY <1>2
    <3> QED
      BY <1>3, <1>4, <1>7, <3>1
  <2> HIDE DEF f
  <2>4. exchange'[x] = f
    BY <1>2, <2>1
  <2>5. Undisturbed(x)'
    BY <1>1, <1>3, <2>2, <2>3, <2>4, SMTT(30) DEF Undisturbed, Unlocked
  <2> QED
    BY <1>1, <2>1, <2>5, ExchangeMoves
<1>8. e.next > s.len \/ e.next <= s.len
  BY <1>2
<1> QED
  BY <1>5, <1>6, <1>7, <1>8 DEF Scan

LEMMA AnswerHeap ==
  ASSUME StoreInv, HeapInv, NEW x \in Exchanges, Answer(x)
  PROVE  HeapInv'
<1>1. /\ exchange' = [exchange EXCEPT ![x] = IdleExchange]
      /\ UNCHANGED <<byID, heap, writer, list>>
  BY DEF Answer, history
<1>2. IdleExchange \in Readers /\ IdleExchange.pc = "idle"
  BY EmptySeq DEF IdleExchange, Readers
<1>3. exchange'[x] = IdleExchange
  BY <1>1 DEF HeapInv, HeapTypeOK
<1> QED
  BY <1>1, <1>2, <1>3, ExchangeMoves DEF Undisturbed

LEMMA NextHeap == StoreInv /\ HeapInv /\ [Next]_vars => HeapInv'
<1> SUFFICES ASSUME StoreInv, HeapInv, [Next]_vars PROVE HeapInv'
  OBVIOUS
<1>1. ASSUME NEW id \in Ids, NEW k \in Keys, NEW s \in Lists, Create(id, k, s)
      PROVE  HeapInv'
  BY <1>1, CreateHeap
<1>2. ASSUME NEW id \in Ids, Delete(id)
      PROVE  HeapInv'
  BY <1>2, DeleteHeap
<1>3. ASSUME NEW id \in Ids, NEW k \in Keys, RotateKey(id, k)
      PROVE  HeapInv'
  BY <1>3, RotateHeap
<1>4. ASSUME NEW id \in Ids, NEW status \in Statuses, SetStatus(id, status)
      PROVE  HeapInv'
  BY <1>4, SetStatusHeap
<1>5. ASSUME NEW id \in Ids, NEW patch \in Patches, NEW status \in Statuses,
             BeginPatch(id, patch, status)
      PROVE  HeapInv'
  BY <1>5, BeginPatchHeap
<1>6. CASE DecodeElement
  BY <1>6, DecodeHeap
<1>7. CASE StoreElement
  BY <1>7, StoreElementHeap
<1>8. CASE CommitPatch
  BY <1>8, CommitHeap
<1>9. CASE RejectPatch
  BY <1>9, RejectHeap
<1>10. ASSUME NEW x \in Exchanges, NEW k \in Keys, NEW origin \in Origins,
              Lookup(x, k, origin)
       PROVE  HeapInv'
  BY <1>10, LookupHeap
<1>11. ASSUME NEW x \in Exchanges, Scan(x) \/ Answer(x)
       PROVE  HeapInv'
  BY <1>11, ScanHeap, AnswerHeap
<1>12. CASE UNCHANGED vars
  BY <1>12, RecordsOnly DEF vars, Stored
<1>13. CASE MakeEmpty
  BY <1>13, MakeEmptyHeap
<1> QED
  BY <1>1, <1>2, <1>3, <1>4, <1>5, <1>6, <1>7, <1>8, <1>9, <1>10, <1>11, <1>12, <1>13
     DEF Next

LEMMA HeapInvariant == Spec => [](StoreInv /\ HeapInv)
<1>1. Init => StoreInv /\ HeapInv
  BY InitInv, InitHeap
<1>2. StoreInv /\ HeapInv /\ [Next]_vars => (StoreInv /\ HeapInv)'
  BY NextInv, NextHeap
<1> QED
  BY <1>1, <1>2, PTL DEF Spec

(* The store is well typed, every slice lies within its array, and the     *)
(* embed whose list is being decoded stays in the store under the key of   *)
(* the copy.                                                               *)
THEOREM SlicesFit == Spec => []StoreWellFormed
<1>1. StoreInv /\ HeapInv => StoreWellFormed
  BY DEF StoreInv, WriterBusy, HeapInv, Fits, Decoding, StoreWellFormed
<1> QED
  BY <1>1, HeapInvariant, PTL

(* An exchange decides by the list it found when it looked the embed up,   *)
(* whatever becomes of the embed, unless a PATCH decodes into the array it *)
(* reads.                                                                  *)
THEOREM ExchangeDecidesByItsList == Spec => []ExchangeKeepsItsList
<1>1. ASSUME StoreInv, HeapInv, NEW x \in Exchanges,
             exchange[x].clean, exchange[x].pc \in {"allowed", "denied"}
      PROVE  exchange[x].pc = "allowed"
               <=> \E i \in DOMAIN exchange[x].seen : exchange[x].seen[i] = exchange[x].origin
  <2>1. exchange[x] \in Readers
    BY <1>1 DEF HeapInv, HeapTypeOK
  <2>2. exchange[x].seen \in Seq(Cells)
    BY <2>1 DEF Readers
  <2>3. DOMAIN exchange[x].seen = 1..exchange[x].origins.len
    BY <1>1, <2>2, LenProperties DEF HeapInv, Undisturbed
  <2> QED
    BY <1>1, <2>3 DEF HeapInv, Undisturbed
<1>2. StoreInv /\ HeapInv => ExchangeKeepsItsList
  BY <1>1 DEF ExchangeKeepsItsList
<1> QED
  BY <1>2, HeapInvariant, PTL

(* A PATCH that is accepted leaves in the record exactly the list it was   *)
(* sent with, whichever array it was decoded into.                         *)
THEOREM PatchIsStored == Spec => AcceptedListIsStored
<1> DEFINE A == ~Unlocked /\ writer' = None /\ ~writer.failed =>
                  LET s == byID'[writer.id].origins IN
                  [i \in 1..s.len |-> heap'[s.at][i]] = list'[writer.id]
<1>1. ASSUME StoreInv, HeapInv, Next PROVE A
  <2> SUFFICES ASSUME ~Unlocked, writer' = None, ~writer.failed
               PROVE  CommitPatch
    BY <1>1, CommitHeap
  <2>1. ~(DecodeElement \/ StoreElement \/ MakeEmpty)
    BY <1>1, DecodeElementInv, StoreElementInv, MakeEmptyInv, NothingIsNone
  <2> QED
    BY <1>1, <2>1 DEF Next, Create, Delete, RotateKey, SetStatus, BeginPatch, RejectPatch,
       Lookup, Scan, Answer, Unlocked
<1>2. StoreInv /\ HeapInv /\ [Next]_vars => [A]_vars
  BY <1>1
<1> QED
  BY <1>2, HeapInvariant, PTL DEF Spec, AcceptedListIsStored
=============================================================================
