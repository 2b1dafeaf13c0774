------------------------------- MODULE Client -------------------------------
(***************************************************************************)
(* The session of the browser SDK (src/embed/src/client.ts): the token     *)
(* that is held, the exchange in flight, and the sends that use them.      *)
(*                                                                         *)
(* The code between two awaits is one step.  Steps that follow from a      *)
(* settled promise are microtasks: the event loop delivers no answer of    *)
(* the network while one is pending, but code of the page, which may run   *)
(* in microtasks of its own, can call the SDK between any two.             *)
(*                                                                         *)
(* An exchange has a number, and its token is that number.                 *)
(***************************************************************************)
EXTENDS Integers, FiniteSets

CONSTANTS
  Callers,       \* calls of send and of ensureSession
  MaxExchanges,  \* bound of the model; two for each caller are enough
  MaxResets      \* bound of the model

ASSUME ClientAssumption ==
  /\ MaxExchanges \in Nat /\ MaxExchanges >= 2 * Cardinality(Callers)
  /\ MaxResets \in Nat

VARIABLES
  token,     \* sessionToken, None for null; sessionConfig comes and goes with it
  inflight,  \* sessionInflight
  exchange,  \* exchange[x]: "asking", "settled", and "over" once finally has run
  obtained,  \* obtained[x]: the answer held a token
  since,     \* history: since[x], the resets before the exchange began
  resets,
  pc,        \* pc[c]: where the caller is
  call       \* call[c]: its local state

vars == <<token, inflight, exchange, obtained, since, resets, pc, call>>

None == 0
Exchanges == 1..MaxExchanges

(* "await": for an exchange; "resume": the session is there; "chat": the   *)
(* message was posted; "refused": session_expired was thrown               *)
Steps == {"new", "await", "resume", "chat", "refused", "stream", "done", "failed"}

(* What send throws *)
Errors == {"", "exchange", "session_expired", "network", "response", "stream"}

Locals == [sending : BOOLEAN, retried : BOOLEAN, waits : Exchanges \cup {None},
           with : Exchanges \cup {None}, refused : SUBSET Exchanges,
           accepted : 0..2, error : Errors]

Init ==
  /\ token = None
  /\ inflight = None
  /\ exchange = [x \in Exchanges |-> "unused"]
  /\ obtained = [x \in Exchanges |-> FALSE]
  /\ since = [x \in Exchanges |-> 0]
  /\ resets = 0
  /\ pc = [c \in Callers |-> "new"]
  /\ call = [c \in Callers |->
       [sending |-> TRUE, retried |-> FALSE, waits |-> None, with |-> None,
        refused |-> {}, accepted |-> 0, error |-> ""]]

(* No microtask is pending. *)
Quiet ==
  /\ \A x \in Exchanges : exchange[x] # "settled"
  /\ \A c \in Callers :
       /\ pc[c] \notin {"resume", "refused"}
       /\ pc[c] = "await" => exchange[call[c].waits] # "over"

Goes(c, step) == pc' = [pc EXCEPT ![c] = step]
Fails(c, error) == Goes(c, "failed") /\ call' = [call EXCEPT ![c].error = error]

Asking(x) ==
  /\ exchange[x] = "unused" /\ \A y \in 1..(x - 1) : exchange[y] # "unused"
  /\ inflight' = x
  /\ exchange' = [exchange EXCEPT ![x] = "asking"]
  /\ since' = [since EXCEPT ![x] = resets]

(* mutant: whoever needs a session asks for one *)
AwaitOwnExchange(c, local) ==
  \E x \in Exchanges :
    /\ Asking(x)
    /\ Goes(c, "await")
    /\ call' = [call EXCEPT ![c] = [local EXCEPT !.waits = x]]

(* The exchange in flight, or a new one *)
AwaitExchange(c, local) ==
  \E x \in Exchanges :
    /\ IF inflight = None THEN Asking(x)
       ELSE x = inflight /\ UNCHANGED <<inflight, exchange, since>>
    /\ Goes(c, "await")
    /\ call' = [call EXCEPT ![c] = [local EXCEPT !.waits = x]]

(* send, when its first chunk is asked for, or ensureSession() *)
Begin(c, sending) ==
  LET local == [call[c] EXCEPT !.sending = sending] IN
  /\ pc[c] = "new"
  /\ IF token # None
     THEN /\ Goes(c, "resume")
          /\ call' = [call EXCEPT ![c] = local]
          /\ UNCHANGED <<inflight, exchange, since>>
     ELSE AwaitExchange(c, local)
  /\ UNCHANGED <<token, obtained, resets>>

(* mutant: the answer is handed to the caller but not kept *)
ExchangeNotKept(x, good) ==
  /\ Quiet
  /\ exchange[x] = "asking"
  /\ exchange' = [exchange EXCEPT ![x] = "settled"]
  /\ obtained' = [obtained EXCEPT ![x] = good]
  /\ UNCHANGED <<token, inflight, since, resets, pc, call>>

(* The answer of the exchange, or its failure.  All failures are alike: a  *)
(* bare 401 would carry the code session_expired (client.ts:164), which    *)
(* the session endpoint of the broker does not send; nor would it be tried *)
(* again, being thrown outside the try around the message.                 *)
ExchangeAnswered(x, good) ==
  /\ Quiet
  /\ exchange[x] = "asking"
  /\ exchange' = [exchange EXCEPT ![x] = "settled"]
  /\ obtained' = [obtained EXCEPT ![x] = good]
  /\ token' = IF good THEN x ELSE token
  /\ UNCHANGED <<inflight, since, resets, pc, call>>

(* mutant: the settled promise stays *)
FinallyKeeps(x) ==
  /\ exchange[x] = "settled"
  /\ exchange' = [exchange EXCEPT ![x] = "over"]
  /\ UNCHANGED <<token, inflight, obtained, since, resets, pc, call>>

(* .finally, which forgets whatever exchange is in flight *)
Finally(x) ==
  /\ exchange[x] = "settled"
  /\ exchange' = [exchange EXCEPT ![x] = "over"]
  /\ inflight' = None
  /\ UNCHANGED <<token, obtained, since, resets, pc, call>>

Wake(c) ==
  LET x == call[c].waits IN
  /\ pc[c] = "await"
  /\ exchange[x] = "over"
  /\ IF obtained[x] THEN Goes(c, "resume") /\ UNCHANGED call ELSE Fails(c, "exchange")
  /\ UNCHANGED <<token, inflight, exchange, obtained, since, resets>>

(* openChatStream with the token held now; ensureSession is over *)
Open(c) ==
  /\ pc[c] = "resume"
  /\ IF ~ call[c].sending THEN Goes(c, "done") /\ UNCHANGED call
     ELSE IF token # None
     THEN /\ Goes(c, "chat")
          /\ call' = [call EXCEPT ![c].with = token]
     ELSE IF call[c].retried THEN Fails(c, "session_expired")
     ELSE Goes(c, "refused") /\ UNCHANGED call
  /\ UNCHANGED <<token, inflight, exchange, obtained, since, resets>>

(* The broker knows the session no more (401). *)
Refuse(c) ==
  /\ Quiet
  /\ pc[c] = "chat"
  /\ LET refused == call[c].refused \cup {call[c].with} IN
     IF call[c].retried
     THEN /\ Goes(c, "failed")
          /\ call' = [call EXCEPT ![c].refused = refused, ![c].error = "session_expired"]
     ELSE /\ Goes(c, "refused")
          /\ call' = [call EXCEPT ![c].refused = refused]
  /\ UNCHANGED <<token, inflight, exchange, obtained, since, resets>>

(* It takes the message, or answers with another error. *)
Answer(c) ==
  /\ Quiet
  /\ pc[c] = "chat"
  /\ \/ Goes(c, "stream") /\ call' = [call EXCEPT ![c].accepted = @ + 1]
     \/ Fails(c, "response")
  /\ UNCHANGED <<token, inflight, exchange, obtained, since, resets>>

(* mutant: what failed on the way is sent again *)
RetryingNetworkError(c) ==
  /\ Quiet
  /\ pc[c] = "chat"
  /\ \E accepted \in {0, 1} :
       /\ Goes(c, IF call[c].retried THEN "failed" ELSE "refused")
       /\ call' = [call EXCEPT ![c].accepted = @ + accepted, ![c].error = "network"]
  /\ UNCHANGED <<token, inflight, exchange, obtained, since, resets>>

(* The connection breaks, before or after the broker took the message. *)
NetworkError(c) ==
  /\ Quiet
  /\ pc[c] = "chat"
  /\ \E accepted \in {0, 1} :
       /\ Goes(c, "failed")
       /\ call' = [call EXCEPT ![c].accepted = @ + accepted, ![c].error = "network"]
  /\ UNCHANGED <<token, inflight, exchange, obtained, since, resets>>

(* mutant: the session that was refused is not dropped *)
RetryUnforced(c) ==
  LET local == [call[c] EXCEPT !.retried = TRUE] IN
  /\ pc[c] = "refused"
  /\ IF token # None
     THEN /\ Goes(c, "resume")
          /\ call' = [call EXCEPT ![c] = local]
          /\ UNCHANGED <<inflight, exchange, since>>
     ELSE AwaitExchange(c, local)
  /\ UNCHANGED <<token, obtained, resets>>

(* ensureSession(true), once *)
Retry(c) ==
  /\ pc[c] = "refused"
  /\ token' = None
  /\ AwaitExchange(c, [call[c] EXCEPT !.retried = TRUE])
  /\ UNCHANGED <<obtained, resets>>

(* A done or error event, the end of the stream, or a read that fails *)
StreamEnds(c) ==
  /\ Quiet
  /\ pc[c] = "stream"
  /\ \/ Goes(c, "done") /\ UNCHANGED call
     \/ Fails(c, "stream")
  /\ UNCHANGED <<token, inflight, exchange, obtained, since, resets>>

Reset ==
  /\ resets < MaxResets
  /\ resets' = resets + 1
  /\ token' = None
  /\ inflight' = None
  /\ UNCHANGED <<exchange, obtained, since, pc, call>>

Microtask(c) == Wake(c) \/ Open(c) \/ Retry(c)
Network(c) == Refuse(c) \/ Answer(c) \/ NetworkError(c) \/ StreamEnds(c)

Next ==
  \/ \E c \in Callers :
       \/ \E sending \in BOOLEAN : Begin(c, sending)
       \/ Microtask(c) \/ Network(c)
  \/ \E x \in Exchanges :
       \/ \E good \in BOOLEAN : ExchangeAnswered(x, good)
       \/ Finally(x)
  \/ Reset

Spec == Init /\ [][Next]_vars

-----------------------------------------------------------------------------

(* The variables have their types, and what is in flight is not over: a    *)
(* promise that stayed would give every later caller its old answer.       *)
ClientTypeOK ==
  /\ token \in Exchanges \cup {None}
  /\ inflight \in Exchanges \cup {None}
  /\ exchange \in [Exchanges -> {"unused", "asking", "settled", "over"}]
  /\ obtained \in [Exchanges -> BOOLEAN]
  /\ since \in [Exchanges -> 0..resets]
  /\ resets \in 0..MaxResets
  /\ pc \in [Callers -> Steps]
  /\ call \in [Callers -> Locals]
  /\ inflight # None => exchange[inflight] \in {"asking", "settled"}

(* "De-dupes concurrent session exchanges." (client.ts:54): however calls, *)
(* refusals and retries interleave, no two exchanges are asked for at the  *)
(* same time.  (After a reset this is not so: the end of an exchange from  *)
(* before it makes the SDK forget the one from after it, client.ts:104.)   *)
OneExchange ==
  resets = 0 => Cardinality({x \in Exchanges : exchange[x] = "asking"}) <= 1

(* The retry never makes the agent hear a message twice, whichever answer  *)
(* was lost.                                                               *)
NeverSentTwice == \A c \in Callers : call[c].accepted <= 1

(* "re-runs the session exchange once" (embed README.md:163): a message is *)
(* retried with a session other than the one that was refused, also when   *)
(* others have asked for it or are dropping theirs; and one whose second   *)
(* session is refused too is given up.                                     *)
OneFreshRetry ==
  \A c \in Callers :
    /\ pc[c] = "chat" => call[c].with \notin call[c].refused
    /\ Cardinality(call[c].refused) <= 2
    /\ Cardinality(call[c].refused) = 2 =>
         pc[c] = "failed" /\ call[c].error = "session_expired"

(* Without a reset, send says session_expired only if the broker has       *)
(* refused it: what other callers do to the session in between costs a     *)
(* retry at most.                                                          *)
ExpiredMeansRefused ==
  resets = 0 =>
    \A c \in Callers : call[c].error = "session_expired" => call[c].refused # {}

(* "Drop any cached session token/config." (client.ts:83): what is held    *)
(* was obtained by an exchange that began after the last reset.            *)
ResetDrops == token # None => since[token] = resets
=============================================================================
