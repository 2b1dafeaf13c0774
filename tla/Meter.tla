------------------------------- MODULE Meter -------------------------------
(***************************************************************************)
(* What a token budget of the broker promises.  A budget is enforced by a  *)
(* check that is made once, before a request starts, and by charges made   *)
(* afterwards, one for the prompt and one for each piece of the answer;    *)
(* several requests draw on one account at the same time, and no lock is   *)
(* held from the check to the charge.  The counter can therefore pass the  *)
(* cap; what the design promises is by how much.  A charge whose request   *)
(* got no answer may be recorded after the request has gone on without it, *)
(* so what is still under way counts too.                                  *)
(*                                                                         *)
(* Chat implements this specification twice: with one account per embed    *)
(* (the daily budget) and with one account per session token (the          *)
(* per-session token budget).                                              *)
(***************************************************************************)
EXTENDS Integers, FiniteSets

CONSTANTS
  Accounts,    \* what is budgeted: embeds, or session tokens
  Requests,    \* the chat requests that can be in flight at once
  Slots,       \* the charges that can be under way without a request
  Cap,         \* Cap[a]: the largest budget account a may be given
  MaxPrompt,   \* the most one prompt costs
  MaxChunk     \* the most one piece of an answer costs

(* What the theorems need of the constants; ChatRefinement derives it.     *)
MeterAssumption ==
  /\ IsFiniteSet(Requests)
  /\ Requests # {}
  /\ IsFiniteSet(Slots)
  /\ Cap \in [Accounts -> Nat]
  /\ MaxPrompt \in Nat
  /\ MaxChunk \in Nat \ {0}

VARIABLES
  used,        \* used[a]: tokens recorded against account a
  checked,     \* checked[a]: requests past the check, prompt not yet charged
  streaming,   \* streaming[a]: requests that may still charge pieces
  latePrompts, \* latePrompts[a]: prompts of a whose charge is under way,
  lateChunks   \* lateChunks[a]: and pieces

late == <<latePrompts, lateChunks>>
vars == <<used, checked, streaming, late>>

Idle == Requests \ UNION {checked[a] \cup streaming[a] : a \in Accounts}

Free == Slots \ UNION {latePrompts[a] \cup lateChunks[a] : a \in Accounts}

Init ==
  /\ used = [a \in Accounts |-> 0]
  /\ checked = [a \in Accounts |-> {}]
  /\ streaming = [a \in Accounts |-> {}]
  /\ latePrompts = [a \in Accounts |-> {}]
  /\ lateChunks = [a \in Accounts |-> {}]

(* The check: below the cap at this moment, whatever others do next.  An   *)
(* account may currently be held to less than its cap, never to more.      *)
Admit(r, a) ==
  /\ r \in Idle
  /\ used[a] < Cap[a]
  /\ checked' = [checked EXCEPT ![a] = @ \cup {r}]
  /\ UNCHANGED <<used, streaming, late>>

(* The prompt is charged whatever it brings the account to.                *)
ChargePrompt(r, a) ==
  /\ r \in checked[a]
  /\ \E k \in 0..MaxPrompt : used' = [used EXCEPT ![a] = @ + k]
  /\ checked' = [checked EXCEPT ![a] = @ \ {r}]
  /\ streaming' = [streaming EXCEPT ![a] = @ \cup {r}]
  /\ UNCHANGED late

(* No answer comes to the charge of the prompt, which may still arrive.    *)
LosePrompt(r, a, c) ==
  /\ r \in checked[a]
  /\ c \in Free
  /\ checked' = [checked EXCEPT ![a] = @ \ {r}]
  /\ streaming' = [streaming EXCEPT ![a] = @ \cup {r}]
  /\ latePrompts' = [latePrompts EXCEPT ![a] = @ \cup {c}]
  /\ UNCHANGED <<used, lateChunks>>

StaysBelow(a) == used'[a] < Cap[a]

(* A piece is charged after it was sent; a request whose charge reaches    *)
(* the cap charges nothing more.                                           *)
ChargeChunk(r, a) ==
  /\ r \in streaming[a]
  /\ \E k \in 0..MaxChunk : used' = [used EXCEPT ![a] = @ + k]
  /\ \/ StaysBelow(a) /\ UNCHANGED streaming
     \/ streaming' = [streaming EXCEPT ![a] = @ \ {r}]
  /\ UNCHANGED <<checked, late>>

(* No answer comes to the charge of a piece, and the request ends with it. *)
LoseChunk(r, a, c) ==
  /\ r \in streaming[a]
  /\ c \in Free
  /\ streaming' = [streaming EXCEPT ![a] = @ \ {r}]
  /\ lateChunks' = [lateChunks EXCEPT ![a] = @ \cup {c}]
  /\ UNCHANGED <<used, checked, latePrompts>>

(* A charge that was under way is recorded, or is lost for good (k = 0).   *)
PromptLands(c, a) ==
  /\ c \in latePrompts[a]
  /\ \E k \in 0..MaxPrompt : used' = [used EXCEPT ![a] = @ + k]
  /\ latePrompts' = [latePrompts EXCEPT ![a] = @ \ {c}]
  /\ UNCHANGED <<checked, streaming, lateChunks>>

ChunkLands(c, a) ==
  /\ c \in lateChunks[a]
  /\ \E k \in 0..MaxChunk : used' = [used EXCEPT ![a] = @ + k]
  /\ lateChunks' = [lateChunks EXCEPT ![a] = @ \ {c}]
  /\ UNCHANGED <<checked, streaming, latePrompts>>

Leave(r, a) ==
  /\ r \in checked[a] \cup streaming[a]
  /\ checked' = [checked EXCEPT ![a] = @ \ {r}]
  /\ streaming' = [streaming EXCEPT ![a] = @ \ {r}]
  /\ UNCHANGED <<used, late>>

(* A new accounting period; the requests in flight carry on into it.       *)
NewPeriod ==
  /\ used' = [a \in Accounts |-> 0]
  /\ UNCHANGED <<checked, streaming, late>>

(* The process stops: its requests die, and the counters survive or not.   *)
(* What is under way is no longer the process's.                           *)
Crash ==
  /\ used' \in {used, [a \in Accounts |-> 0]}
  /\ checked' = [a \in Accounts |-> {}]
  /\ streaming' = [a \in Accounts |-> {}]
  /\ UNCHANGED late

Next ==
  \/ \E r \in Requests, a \in Accounts :
       \/ Admit(r, a)
       \/ ChargePrompt(r, a)
       \/ ChargeChunk(r, a)
       \/ Leave(r, a)
       \/ \E c \in Slots : LosePrompt(r, a, c) \/ LoseChunk(r, a, c)
  \/ \E c \in Slots, a \in Accounts : PromptLands(c, a) \/ ChunkLands(c, a)
  \/ NewPeriod
  \/ Crash

Spec == Init /\ [][Next]_vars

-----------------------------------------------------------------------------

MeterTypeOK ==
  /\ used \in [Accounts -> Nat]
  /\ checked \in [Accounts -> SUBSET Requests]
  /\ streaming \in [Accounts -> SUBSET Requests]
  /\ latePrompts \in [Accounts -> SUBSET Slots]
  /\ lateChunks \in [Accounts -> SUBSET Slots]
  /\ \A a \in Accounts :
       /\ checked[a] \cap streaming[a] = {}
       /\ latePrompts[a] \cap lateChunks[a] = {}

(* What an account is allowed to reach, and the tokens it will have        *)
(* recorded if every request in flight charges as much as one may without  *)
(* being stopped, and all that is under way arrives.                       *)
Largest == IF MaxPrompt > MaxChunk THEN MaxPrompt ELSE MaxChunk

Limit(a) == Cap[a] - 1 + Cardinality(Requests) * (MaxPrompt + MaxChunk)
                       + Cardinality(Slots) * Largest

LoadOf(u, A, B) ==
  u + Cardinality(A) * (MaxPrompt + MaxChunk) + Cardinality(B) * MaxChunk

LateOf(P, C) == Cardinality(P) * MaxPrompt + Cardinality(C) * MaxChunk

Load(a) == LoadOf(used[a], checked[a], streaming[a])
             + LateOf(latePrompts[a], lateChunks[a])

(* No step raises the load of an account above its limit.                  *)
Committed == \A a \in Accounts : Load(a) <= Limit(a)

MeterInv == MeterTypeOK /\ Committed

(* An account passes its cap by less than one prompt and one piece of an   *)
(* answer for each request that can be in flight at once, and one of these *)
(* for each charge that can be under way without one, however the check    *)
(* and the charges of the requests interleave.                             *)
BoundedOvershoot == \A a \in Accounts : used[a] <= Limit(a)
=============================================================================
