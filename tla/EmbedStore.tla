----------------------------- MODULE EmbedStore -----------------------------
(***************************************************************************)
(* The broker's store of embeds (store.go), the management calls that      *)
(* change it (manage.go, admin.go), and the session exchange that reads it *)
(* (session.go), all under src/broker/internal/broker.                     *)
(*                                                                         *)
(* Every method of MemStore holds the mutex and is one action, except      *)
(* Update with a new allow-list: json.Unmarshal decodes the list, element  *)
(* by element, into the slice of the copy it is given, and that slice      *)
(* still is the stored record's.  A session exchange takes a copy of the   *)
(* record under the mutex and reads the copy's slice after releasing it,   *)
(* so the two meet in the array both point to.  Slices are therefore       *)
(* modelled as Go has them: an array on the heap, and a length.            *)
(***************************************************************************)
EXTENDS Integers, Sequences

CONSTANTS
  Ids,         \* embed ids
  Keys,        \* publishable keys
  Origins,
  Lists,       \* allow-lists embeds are created with: sequences of origins
  Patches,     \* allowed_origins of a PATCH: sequences over PatchElements
  Null, Bad,   \* elements of a list that are null, or neither null nor text
  None,        \* no entry; also no writer
  Addrs,       \* arrays the heap has room for (bound of the model)
  MaxCap,      \* most elements of an array (bound of the model)
  Exchanges    \* session exchanges that can be running at once

Blank == "blank"   \* an element of an array that was never set
Torn == "torn"     \* one that is half written: a string is two words

PatchElements == Origins \cup {Null, Bad}

Statuses == {"enabled", "disabled"}
Slices == [at : Addrs, len : Nat]
Records == [pk : Keys, status : Statuses, origins : Slices]
Writers == [id : Ids, copy : Records, patch : Patches, next : Nat,
            half : BOOLEAN, failed : BOOLEAN]

ASSUME StoreAssumption ==
  /\ None \notin Ids \cup Records \cup Writers
  /\ Null \notin Origins /\ Bad \notin Origins /\ Torn \notin Origins
  /\ Lists \subseteq Seq(Origins)
  /\ Patches \subseteq Seq(PatchElements)
  /\ MaxCap \in Nat
  /\ Addrs \subseteq Nat

VARIABLES
  byID,     \* byID[id]: the record, or None
  byPK,     \* byPK[k]: an id, or None
  heap,     \* heap[a]: the elements of array a; its length is the capacity
  writer,   \* the Update that is decoding a list and holds the mutex, or None
  exchange, \* exchange[x]: a session exchange
  issued,   \* history: keys that were ever handed out,
  retired,  \* and those rotated away or deleted since
  list      \* history: list[id] is the allow-list last created or committed

vars == <<byID, byPK, heap, writer, exchange, issued, retired, list>>
history == <<issued, retired, list>>

IdleExchange == [pc |-> "idle", origins |-> [at |-> 0, len |-> 0], id |-> None,
                 origin |-> None, next |-> 1, seen |-> <<>>, clean |-> TRUE]

Stored == {id \in Ids : byID[id] # None}
Unlocked == writer = None

(* What a slice reads as *)
Contents(s) == [i \in 1..s.len |-> heap[s.at][i]]

(* Arrays somebody points to; the others are garbage *)
Live == {byID[id].origins.at : id \in Stored}
        \cup {exchange[x].origins.at : x \in {y \in Exchanges : exchange[y].pc # "idle"}}
        \cup (IF Unlocked THEN {} ELSE {writer.copy.origins.at})

(* mutant: always the same array *)
OneAddr == CHOOSE a \in Addrs : TRUE

FreeAddr == CHOOSE a \in Addrs \ Live : TRUE

(* The heap after make: room for at least s, and maybe more                *)
Allocated(a, s, capacity) ==
  [heap EXCEPT ![a] = [i \in 1..capacity |-> IF i <= Len(s) THEN s[i] ELSE Blank]]

Init ==
  /\ byID = [id \in Ids |-> None]
  /\ byPK = [k \in Keys |-> None]
  /\ heap = [a \in Addrs |-> <<>>]
  /\ writer = None
  /\ exchange = [x \in Exchanges |-> IdleExchange]
  /\ issued = {}
  /\ retired = {}
  /\ list = [id \in Ids |-> <<>>]

-----------------------------------------------------------------------------
(* The store *)

(* A fresh random id and key; a seed file brings its own, each once.       *)
Create(id, k, s) ==
  /\ Unlocked
  /\ byID[id] = None /\ k \notin issued /\ Addrs \ Live # {}
  /\ \E capacity \in Len(s)..MaxCap : heap' = Allocated(FreeAddr, s, capacity)
  /\ byID' = [byID EXCEPT ![id] =
       [pk |-> k, status |-> "enabled", origins |-> [at |-> FreeAddr, len |-> Len(s)]]]
  /\ byPK' = [byPK EXCEPT ![k] = id]
  /\ issued' = issued \cup {k}
  /\ list' = [list EXCEPT ![id] = s]
  /\ UNCHANGED <<writer, exchange, retired>>

(* mutant: the key's entry stays *)
KeyKept(k) == byPK

(* delete(s.byPK, e.PublishableKey) *)
WithoutKey(k) == [byPK EXCEPT ![k] = None]

(* mutant: the entry of the key is forgotten *)
DeleteRecordOnly(id) ==
  /\ Unlocked
  /\ byID[id] # None
  /\ byID' = [byID EXCEPT ![id] = None]
  /\ UNCHANGED <<byPK, heap, writer, exchange, history>>

Delete(id) ==
  /\ Unlocked
  /\ byID[id] # None
  /\ byPK' = WithoutKey(byID[id].pk)
  /\ byID' = [byID EXCEPT ![id] = None]
  /\ retired' = retired \cup {byID[id].pk}
  /\ UNCHANGED <<heap, writer, exchange, issued, list>>

RotateKey(id, k) ==
  /\ Unlocked
  /\ byID[id] # None /\ k \notin issued
  /\ byPK' = [WithoutKey(byID[id].pk) EXCEPT ![k] = id]
  /\ byID' = [byID EXCEPT ![id].pk = k]
  /\ issued' = issued \cup {k}
  /\ retired' = retired \cup {byID[id].pk}
  /\ UNCHANGED <<heap, writer, exchange, list>>

(* Update by the admin page's toggle, or by a PATCH without allowed_origins *)
SetStatus(id, status) ==
  /\ Unlocked
  /\ byID[id] # None
  /\ byID' = [byID EXCEPT ![id].status = status]
  /\ UNCHANGED <<byPK, heap, writer, exchange, history>>

-----------------------------------------------------------------------------
(* Update by a PATCH with allowed_origins *)

(* cp := *e copies the record and shares its array.                        *)
BeginPatch(id, patch, status) ==
  /\ Unlocked
  /\ byID[id] # None
  /\ writer' = [id |-> id, copy |-> [byID[id] EXCEPT !.status = status],
                patch |-> patch, next |-> 1, half |-> FALSE, failed |-> FALSE]
  /\ UNCHANGED <<byID, byPK, heap, exchange, history>>

(* mutant: room for one element too few *)
GrowShort(s, i) ==
  /\ Addrs \ Live # {}
  /\ \E capacity \in i - 1..MaxCap : heap' = Allocated(FreeAddr, Contents(s), capacity)
  /\ writer' = [writer EXCEPT !.copy.origins = [at |-> FreeAddr, len |-> i],
                              !.half = TRUE]

(* reflect.Value.Grow: a larger array, with the elements decoded so far    *)
Grow(s, i) ==
  /\ Addrs \ Live # {}
  /\ \E capacity \in i..MaxCap : heap' = Allocated(FreeAddr, Contents(s), capacity)
  /\ writer' = [writer EXCEPT !.copy.origins = [at |-> FreeAddr, len |-> i],
                              !.half = TRUE]

(* The exchanges that are reading an array know that it was written to.    *)
Overwriting(a) ==
  [x \in Exchanges |-> [exchange[x] EXCEPT !.clean = @ /\ exchange[x].origins.at # a]]

(* One element: the slice is lengthened if it has to be, and then a text   *)
(* is stored where the element is; a null leaves what is there, anything   *)
(* else does too and makes the decoding fail when it is over.              *)
DecodeElement ==
  /\ ~Unlocked /\ ~writer.half /\ writer.next <= Len(writer.patch)
  /\ LET s == writer.copy.origins
         i == writer.next IN
     \/ i > Len(heap[s.at]) /\ Grow(s, i) /\ UNCHANGED exchange
     \/ /\ i <= Len(heap[s.at])
        /\ heap' = IF writer.patch[i] \in Origins
                   THEN [heap EXCEPT ![s.at][i] = Torn] ELSE heap
        /\ writer' = [writer EXCEPT !.copy.origins.len = IF i > s.len THEN i ELSE @,
                                    !.half = TRUE]
        /\ exchange' = Overwriting(s.at)
  /\ UNCHANGED <<byID, byPK, history>>

(* What element i of the list ends up as, in an array with these cells     *)
Element(i, cells) == IF writer.patch[i] \in Origins THEN writer.patch[i] ELSE cells[i]

StoreElement ==
  /\ ~Unlocked /\ writer.half
  /\ LET a == writer.copy.origins.at
         i == writer.next IN
     /\ heap' = [heap EXCEPT ![a][i] = Element(i, heap[a])]
     /\ writer' = [writer EXCEPT !.next = i + 1, !.half = FALSE,
                                 !.failed = @ \/ writer.patch[i] = Bad]
  /\ UNCHANGED <<byID, byPK, exchange, history>>

(* The copy still shares its array with the record.                        *)
Shared == writer.copy.origins.at = byID[writer.id].origins.at

(* reflect.MakeSlice: an empty list is a slice of its own.                 *)
MakeEmpty ==
  /\ ~Unlocked /\ writer.patch = <<>> /\ Shared
  /\ Addrs \ Live # {}
  /\ heap' = [heap EXCEPT ![FreeAddr] = <<>>]
  /\ writer' = [writer EXCEPT !.copy.origins = [at |-> FreeAddr, len |-> 0]]
  /\ UNCHANGED <<byID, byPK, exchange, history>>

Decoded ==
  /\ ~Unlocked /\ ~writer.half /\ writer.next > Len(writer.patch)
  /\ writer.patch = <<>> => ~Shared

(* mutant: what the list was longer by stays in it *)
Uncut(s, n) == s

Cut(s, n) == [s EXCEPT !.len = n]

(* The slice is cut to what was decoded, and the copy becomes the record.  *)
CommitPatch ==
  /\ Decoded /\ ~writer.failed
  /\ LET n == Len(writer.patch)
         s == writer.copy.origins
         new == [i \in 1..n |-> Element(i, heap[s.at])] IN
     /\ byID' = [byID EXCEPT ![writer.id] = [writer.copy EXCEPT !.origins = Cut(s, n)]]
     /\ list' = [list EXCEPT ![writer.id] = new]
  /\ writer' = None
  /\ UNCHANGED <<byPK, heap, exchange, issued, retired>>

(* The mutation failed: nothing is committed.                              *)
RejectPatch ==
  /\ Decoded /\ writer.failed
  /\ writer' = None
  /\ UNCHANGED <<byID, byPK, heap, exchange, history>>

-----------------------------------------------------------------------------
(* The session exchange *)

(* GetByPublishableKey, and the record is enabled                          *)
Lookup(x, k, origin) ==
  /\ exchange[x].pc = "idle"
  /\ Unlocked
  /\ byPK[k] # None
  /\ byID[byPK[k]].status = "enabled"
  /\ exchange' = [exchange EXCEPT ![x] =
       [pc |-> "scan", origins |-> byID[byPK[k]].origins, id |-> byPK[k],
        origin |-> origin, next |-> 1,
        seen |-> Contents(byID[byPK[k]].origins), clean |-> TRUE]]
  /\ UNCHANGED <<byID, byPK, heap, writer, history>>

Verdict(x, v) == exchange' = [exchange EXCEPT ![x].pc = v]

(* mutant: the last entry is never looked at *)
ScanShort(x) ==
  LET e == exchange[x]
      cell == heap[e.origins.at][e.next] IN
  /\ e.pc = "scan"
  /\ IF e.next >= e.origins.len
     THEN Verdict(x, "denied")
     ELSE \/ cell \in {e.origin, Torn} /\ Verdict(x, "allowed")
          \/ cell # e.origin /\ exchange' = [exchange EXCEPT ![x].next = @ + 1]
  /\ UNCHANGED <<byID, byPK, heap, writer, history>>

(* originAllowed, without the mutex.  A string read while it is written is *)
(* neither the old one nor the new one, and may compare either way.        *)
Scan(x) ==
  LET e == exchange[x]
      cell == heap[e.origins.at][e.next] IN
  /\ e.pc = "scan"
  /\ IF e.next > e.origins.len
     THEN Verdict(x, "denied")
     ELSE \/ cell \in {e.origin, Torn} /\ Verdict(x, "allowed")
          \/ cell # e.origin /\ exchange' = [exchange EXCEPT ![x].next = @ + 1]
  /\ UNCHANGED <<byID, byPK, heap, writer, history>>

Answer(x) ==
  /\ exchange[x].pc \in {"allowed", "denied"}
  /\ exchange' = [exchange EXCEPT ![x] = IdleExchange]
  /\ UNCHANGED <<byID, byPK, heap, writer, history>>

Next ==
  \/ \E id \in Ids :
       \/ \E k \in Keys, s \in Lists : Create(id, k, s)
       \/ Delete(id)
       \/ \E k \in Keys : RotateKey(id, k)
       \/ \E status \in Statuses : SetStatus(id, status)
       \/ \E patch \in Patches, status \in Statuses : BeginPatch(id, patch, status)
  \/ DecodeElement \/ StoreElement \/ MakeEmpty \/ CommitPatch \/ RejectPatch
  \/ \E x \in Exchanges :
       \/ \E k \in Keys, origin \in Origins : Lookup(x, k, origin)
       \/ Scan(x)
       \/ Answer(x)

Spec == Init /\ [][Next]_vars

-----------------------------------------------------------------------------

StoreTypeOK ==
  /\ byID \in [Ids -> Records \cup {None}]
  /\ byPK \in [Keys -> Ids \cup {None}]
  /\ writer \in Writers \cup {None}
  /\ issued \subseteq Keys /\ retired \subseteq issued

(* Slices lie within their arrays, and the embed whose list is decoded is  *)
(* in the store, under the key of the copy, until the decoding is over.    *)
StoreWellFormed ==
  /\ StoreTypeOK
  /\ \A id \in Stored : byID[id].origins.len <= Len(heap[byID[id].origins.at])
  /\ ~Unlocked =>
       /\ writer.id \in Stored /\ writer.copy.pk = byID[writer.id].pk
       /\ writer.copy.origins.len <= Len(heap[writer.copy.origins.at])

(* The two maps say the same: a key leads to the embed that has it, and    *)
(* the embed is there.  GetByPublishableKey relies on it, it dereferences  *)
(* what it finds under the id.                                             *)
IndexConsistent ==
  /\ \A k \in Keys : byPK[k] # None => byPK[k] \in Stored /\ byID[byPK[k]].pk = k
  /\ \A id \in Stored : byPK[byID[id].pk] = id

(* "RotateKey issues a new publishable key [...] invalidating the old one" *)
(* (store.go:133): a key that was rotated away or deleted never leads to   *)
(* an embed again, whatever is created, rotated or patched afterwards.     *)
RetiredKeysStayDead == \A k \in retired : byPK[k] = None

(* No two embeds share the array of their allow-lists, and the one a PATCH *)
(* is decoding into is its own embed's or nobody's: a PATCH of one embed   *)
(* cannot change another.                                                  *)
ListsNotShared ==
  /\ \A i, j \in Stored : i # j => byID[i].origins.at # byID[j].origins.at
  /\ ~Unlocked => \A i \in Stored \ {writer.id} :
                    byID[i].origins.at # writer.copy.origins.at

(* A PATCH that is accepted leaves in the record the list it was sent with, *)
(* no shorter and no longer, whichever array the list was decoded into.     *)
AcceptedListIsStored ==
  [][~Unlocked /\ writer' = None /\ ~writer.failed =>
       LET s == byID'[writer.id].origins IN
       [i \in 1..s.len |-> heap'[s.at][i]] = list'[writer.id]]_vars

(* The allow-list of a record is the one last created or committed.  "Update *)
(* applies mutate to a copy of the record under lock, then commits it"       *)
(* (store.go:102): a PATCH that is rejected leaves the record alone.         *)
StoredListIsCommitted ==
  Unlocked => \A id \in Stored : Contents(byID[id].origins) = list[id]

(* The embed may be rotated, deleted, given a new list or made again while *)
(* an exchange reads its list: the exchange still decides by the list that *)
(* was there when it looked the embed up, unless a PATCH decodes into the  *)
(* very array it reads (what it decides by then is anybody's guess).       *)
ExchangeKeepsItsList ==
  \A x \in Exchanges :
    exchange[x].clean /\ exchange[x].pc \in {"allowed", "denied"} =>
      (exchange[x].pc = "allowed"
         <=> \E i \in DOMAIN exchange[x].seen : exchange[x].seen[i] = exchange[x].origin)
=============================================================================
