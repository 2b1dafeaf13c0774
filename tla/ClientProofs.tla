---------------------------- MODULE ClientProofs ----------------------------
(***************************************************************************)
(* The SDK (client.ts): the session that its calls share, and the answer   *)
(* to one of them.                                                         *)
(*                                                                         *)
(* The session, for any number of callers and of resets.  The invariant    *)
(* says what a refused call may still meet: the session that was refused   *)
(* is dropped before the call goes on, and an exchange that has ended      *)
(* never brings its session back.                                          *)
(***************************************************************************)
EXTENDS Client, AnswerStream, FiniteSetTheorems, SequenceTheorems, WellFoundedInduction, TLAPS

Ended(x) == exchange[x] \in {"settled", "over"}

(* A call whose message was not answered yet *)
Early == {"new", "await", "resume", "chat", "refused"}

CallOK(c) ==
  LET l == call[c] IN
  /\ pc[c] = "new" => l.error = ""
  /\ pc[c] = "new" => ~ l.retried
  /\ pc[c] \in Early => l.accepted = 0
  /\ l.accepted <= 1
  /\ pc[c] = "await" => l.waits # None
  /\ pc[c] = "chat" => l.with # None /\ Ended(l.with) /\ l.with \notin l.refused
  /\ ~ l.retried /\ pc[c] # "refused" => l.refused = {}
  /\ l.retried /\ pc[c] # "failed" => token \notin l.refused
  /\ \A s \in l.refused : Ended(s)
  /\ \E s, t \in Exchanges \cup {None} : \A r \in l.refused : r = s \/ r = t
  /\ (pc[c] = "failed" /\ l.error = "session_expired") \/ \A s, t \in l.refused : s = t

(* Of the exchanges that are not over, only the one in flight is there.    *)
OneInFlight ==
  resets = 0 => \A x \in Exchanges : exchange[x] \in {"asking", "settled"} => x = inflight

(* The session of a good exchange is there until all who waited for it     *)
(* have used it, because nobody is about to drop it.                       *)
Answered(x) == Ended(x) /\ obtained[x]
Owns(c) == call[c].retried /\ (pc[c] = "resume" \/ (pc[c] = "await" /\ Answered(call[c].waits)))
Kept == token # None /\ \A c \in Callers : pc[c] # "refused"
SessionKept ==
  resets = 0 =>
    /\ \A x \in Exchanges : exchange[x] = "settled" /\ obtained[x] => Kept
    /\ \A c \in Callers : Owns(c) => Kept

ClientInv ==
  /\ ClientTypeOK
  /\ token # None => Ended(token)
  /\ \A c \in Callers : CallOK(c)
  /\ OneInFlight
  /\ SessionKept
  /\ ExpiredMeansRefused

-----------------------------------------------------------------------------

LEMMA InvTypes ==
  ASSUME ClientInv, NEW c \in Callers
  PROVE  /\ token \in Exchanges \cup {None} /\ inflight \in Exchanges \cup {None}
         /\ exchange \in [Exchanges -> {"unused", "asking", "settled", "over"}]
         /\ obtained \in [Exchanges -> BOOLEAN]
         /\ pc \in [Callers -> Steps] /\ call \in [Callers -> Locals]
         /\ call[c] \in Locals /\ CallOK(c)
         /\ None \notin Exchanges
BY DEF ClientInv, ClientTypeOK, None, Exchanges

LEMMA InitClient == Init => ClientInv
<1> SUFFICES ASSUME Init PROVE ClientInv
  OBVIOUS
<1>1. ClientTypeOK
  <2>1. 0 \in 0..0 /\ 0 \in 0..MaxResets
    BY ClientAssumption
  <2>2. since \in [Exchanges -> 0..resets] /\ resets \in 0..MaxResets
    BY <2>1 DEF Init
  <2>3. [sending |-> TRUE, retried |-> FALSE, waits |-> None, with |-> None,
          refused |-> {}, accepted |-> 0, error |-> ""] \in Locals
    BY DEF Locals, Errors
  <2>4. call \in [Callers -> Locals]
    BY <2>3 DEF Init
  <2>. QED
    BY <2>2, <2>4 DEF Init, ClientTypeOK, Steps
<1>2. ASSUME NEW c \in Callers PROVE CallOK(c)
  <2>1. pc[c] = "new" /\ call[c].refused = {} /\ call[c].error = ""
    BY DEF Init
  <2>2. ~ call[c].retried
    BY DEF Init
  <2>3. call[c].accepted = 0
    BY DEF Init
  <2>4. call[c].accepted <= 1
    BY <2>3
  <2>5. \E s, t \in Exchanges \cup {None} : \A r \in call[c].refused : r = s \/ r = t
    BY <2>1, None \in Exchanges \cup {None}, Zenon
  <2>. QED
    BY <2>1, <2>2, <2>3, <2>4, <2>5, Zenon DEF CallOK
<1>3. OneInFlight
  BY DEF Init, OneInFlight
<1>4. SessionKept
  BY DEF Init, SessionKept, Owns
<1>5. ExpiredMeansRefused
  BY DEF Init, ExpiredMeansRefused
<1>. QED
  BY <1>1, <1>2, <1>3, <1>4, <1>5 DEF ClientInv, Init

(* A call that does not move is none the worse for what others do: an      *)
(* exchange that has ended stays so, and only a new one brings a session.  *)
LEMMA Others ==
  ASSUME ClientInv, NEW c \in Callers, pc'[c] = pc[c], call'[c] = call[c],
         \A x \in Exchanges : Ended(x) => Ended(x)',
         token' \in {token, None} \/ (token' \in Exchanges /\ ~ Ended(token'))
  PROVE  CallOK(c)'
<1>1. CallOK(c) /\ call[c] \in Locals
  BY InvTypes
<1>2. call[c].refused \subseteq Exchanges /\ None \notin Exchanges
  BY <1>1 DEF Locals, Exchanges, None
<1>3. call[c].retried /\ pc[c] # "failed" => token' \notin call[c].refused
  BY <1>1, <1>2 DEF CallOK
<1>4. \A s \in call[c].refused : Ended(s)'
  BY <1>1, <1>2 DEF CallOK
<1>5. pc[c] = "chat" => Ended(call[c].with)'
  BY <1>1 DEF CallOK, Locals
<1>. QED
  BY <1>1, <1>3, <1>4, <1>5 DEF CallOK

(* AwaitExchange with the call's new local state *)
LEMMA Awaits ==
  ASSUME ClientInv, NEW c \in Callers, NEW l \in Locals, AwaitExchange(c, l)
  PROVE  \E x \in Exchanges :
           /\ call' = [call EXCEPT ![c] = [l EXCEPT !.waits = x]]
           /\ pc' = [pc EXCEPT ![c] = "await"]
           /\ inflight' = x
           /\ exchange' \in {exchange, [exchange EXCEPT ![x] = "asking"]}
           /\ exchange' # exchange => exchange[x] = "unused" /\ inflight = None
           /\ exchange' = exchange => inflight = x
           /\ exchange'[x] \in {"asking", "settled"}
           /\ since' \in [Exchanges -> 0..resets]
<1>1. PICK x \in Exchanges :
        /\ IF inflight = None THEN Asking(x)
           ELSE x = inflight /\ UNCHANGED <<inflight, exchange, since>>
        /\ Goes(c, "await")
        /\ call' = [call EXCEPT ![c] = [l EXCEPT !.waits = x]]
  BY DEF AwaitExchange
<1>2. /\ since \in [Exchanges -> 0..resets] /\ resets \in 0..resets
      /\ exchange \in [Exchanges -> {"unused", "asking", "settled", "over"}]
      /\ inflight # None => exchange[inflight] \in {"asking", "settled"}
      /\ None \notin Exchanges
  BY ClientAssumption DEF ClientInv, ClientTypeOK, Exchanges, None
<1>3. CASE inflight = None
  <2>1. /\ exchange[x] = "unused" /\ inflight' = x
        /\ exchange' = [exchange EXCEPT ![x] = "asking"]
        /\ since' = [since EXCEPT ![x] = resets]
    BY <1>1, <1>3 DEF Asking
  <2>2. exchange'[x] = "asking"
    BY <1>2, <2>1
  <2>3. since' \in [Exchanges -> 0..resets]
    BY <1>2, <2>1
  <2>. QED
    BY <1>1, <1>2, <1>3, <2>1, <2>2, <2>3 DEF Goes
<1>4. CASE inflight # None
  BY <1>1, <1>2, <1>4 DEF Goes
<1>. QED
  BY <1>3, <1>4

(* A call that waits for an exchange, at its beginning or for its retry:   *)
(* who drops the session is the one who was refused.                       *)
LEMMA StepAwait ==
  ASSUME ClientInv, NEW c \in Callers, NEW l \in Locals, AwaitExchange(c, l),
         pc[c] \in {"new", "refused"}, l.retried <=> pc[c] = "refused",
         l.accepted = 0, l.refused = call[c].refused, l.error = call[c].error,
         token' = IF pc[c] = "refused" THEN None ELSE token,
         UNCHANGED <<obtained, resets>>
  PROVE  ClientInv'
<1>t. /\ CallOK(c) /\ call[c] \in Locals /\ call \in [Callers -> Locals] /\ pc \in [Callers -> Steps]
      /\ exchange \in [Exchanges -> {"unused", "asking", "settled", "over"}]
      /\ None \notin Exchanges /\ token \in Exchanges \cup {None}
  BY InvTypes
<1>1. PICK x \in Exchanges :
         /\ call' = [call EXCEPT ![c] = [l EXCEPT !.waits = x]]
         /\ pc' = [pc EXCEPT ![c] = "await"]
         /\ inflight' = x
         /\ exchange' \in {exchange, [exchange EXCEPT ![x] = "asking"]}
         /\ exchange' # exchange => exchange[x] = "unused" /\ inflight = None
         /\ exchange' = exchange => inflight = x
         /\ exchange'[x] \in {"asking", "settled"}
         /\ since' \in [Exchanges -> 0..resets]
  BY Awaits
<1> DEFINE n == [l EXCEPT !.waits = x]
<1>2. /\ n \in Locals /\ n.waits = x /\ n.retried = l.retried /\ n.accepted = 0
      /\ n.refused = call[c].refused /\ n.error = call[c].error
  BY DEF Locals
<1> HIDE DEF n
<1>3. /\ call'[c] = n /\ pc'[c] = "await"
      /\ \A d \in Callers \ {c} : call'[d] = call[d] /\ pc'[d] = pc[d]
  BY <1>t, <1>1 DEF n
<1>4. \A y \in Exchanges : y # x => exchange'[y] = exchange[y]
  BY <1>t, <1>1
<1>5. \A y \in Exchanges : /\ Ended(y) => Ended(y)'
                           /\ exchange'[y] = "settled" => exchange[y] = "settled"
                           /\ Answered(y)' => Answered(y)
  BY <1>t, <1>1, <1>4 DEF Ended, Answered
<1>6. ClientTypeOK'
  <2>1. exchange' \in [Exchanges -> {"unused", "asking", "settled", "over"}]
    BY <1>t, <1>1
  <2>2. call' \in [Callers -> Locals] /\ pc' \in [Callers -> Steps]
    BY <1>t, <1>1, <1>2 DEF n, Steps
  <2>3. token' \in Exchanges \cup {None} /\ inflight' \in Exchanges \cup {None}
        /\ (inflight' # None => exchange'[inflight'] \in {"asking", "settled"})
    BY <1>t, <1>1
  <2>. QED
    BY <1>1, <2>1, <2>2, <2>3 DEF ClientInv, ClientTypeOK
<1>7. token' # None => Ended(token)'
  BY <1>t, <1>5 DEF ClientInv, Ended
<1>8. ASSUME NEW d \in Callers PROVE CallOK(d)'
  <2>1. CASE d # c
    BY <1>3, <1>5, <2>1, Others
  <2>2. CASE d = c
    <3>1. \A s \in n.refused : Ended(s)'
      BY <1>t, <1>2, <1>5 DEF CallOK, Locals
    <3>2. l.retried => token' \notin n.refused
      <4>1. call[c].refused \subseteq Exchanges
        BY <1>t DEF Locals
      <4>. QED
        BY <1>t, <1>2, <4>1
    <3>3. /\ ~ l.retried => n.refused = {}
          /\ \A s, t \in n.refused : s = t
          /\ \E s, t \in Exchanges \cup {None} : \A r \in n.refused : r = s \/ r = t
      <4>1. n.refused = l.refused /\ n.retried = l.retried
        BY <1>2
      <4> HIDE DEF n
      <4>2. \E s, t \in Exchanges \cup {None} : \A r \in n.refused : r = s \/ r = t
        BY <4>1, <1>t DEF CallOK
      <4>3. \A s, t \in n.refused : s = t
        BY <4>1, <1>t DEF CallOK
      <4>4. ~ l.retried => n.refused = {}
        BY <4>1, <1>t DEF CallOK
      <4> QED
        BY <4>2, <4>3, <4>4
    <3>4. n.accepted <= 1 /\ n.waits # None
      BY <1>t, <1>2
    <3>5. /\ pc'[d] = "await" /\ call'[d] = n
          /\ n.accepted = 0 /\ n.retried = l.retried
      BY <1>2, <1>3, <2>2
    <3>. QED
      BY <3>1, <3>2, <3>3, <3>4, <3>5 DEF CallOK
  <2>. QED
    BY <2>1, <2>2
<1>9. OneInFlight'
  <2> SUFFICES ASSUME resets = 0, NEW y \in Exchanges, exchange'[y] \in {"asking", "settled"}
               PROVE  y = x
    BY <1>1 DEF OneInFlight
  <2>1. CASE y # x
    <3>1. y = inflight
      BY <1>4, <2>1 DEF ClientInv, OneInFlight
    <3>. QED
      BY <1>1, <1>t, <2>1, <3>1
  <2>. QED
    BY <2>1
<1>10. SessionKept'
  <2> SUFFICES ASSUME resets = 0
               PROVE  /\ \A y \in Exchanges : exchange'[y] = "settled" /\ obtained[y] => Kept'
                      /\ \A d \in Callers : Owns(d)' => Kept'
    BY DEF SessionKept
  <2>1. Kept /\ pc[c] # "refused" => Kept'
    BY <1>3 DEF Kept
  <2>2. ASSUME NEW y \in Exchanges, exchange'[y] = "settled", obtained[y] PROVE Kept'
    BY <1>5, <2>1, <2>2 DEF ClientInv, SessionKept, Kept
  <2>3. ASSUME NEW d \in Callers, Owns(d)' PROVE Kept'
    <3>1. CASE d = c
      <4>1. Answered(x)' /\ l.retried
        BY <1>2, <1>3, <2>3, <3>1 DEF Owns
      <4>2. exchange'[x] = "settled" /\ obtained[x]
        BY <1>1, <4>1 DEF Answered, Ended
      <4>. QED
        BY <2>2, <4>2
    <3>2. CASE d # c
      <4>1. call[d].waits \in Exchanges \cup {None} /\ (pc[d] = "await" => call[d].waits # None)
        BY <3>2, InvTypes DEF Locals, CallOK
      <4>2. Owns(d)
        BY <1>3, <1>5, <2>3, <3>2, <4>1 DEF Owns
      <4>. QED
        BY <2>1, <4>2 DEF ClientInv, SessionKept, Kept
    <3>. QED
      BY <3>1, <3>2
  <2>. QED
    BY <2>2, <2>3
<1>11. ExpiredMeansRefused'
  <2> SUFFICES ASSUME resets = 0, NEW d \in Callers, call'[d].error = "session_expired"
               PROVE  call'[d].refused # {}
    BY DEF ExpiredMeansRefused
  <2>. QED
    BY <1>2, <1>3 DEF ClientInv, ExpiredMeansRefused
<1>. QED
  BY <1>6, <1>7, <1>8, <1>9, <1>10, <1>11 DEF ClientInv

(* A call that goes from one step to another and leaves the session and    *)
(* the exchanges alone: what is to be shown of its new state, l at p.      *)
LEMMA StepAlone ==
  ASSUME ClientInv, NEW c \in Callers, NEW p \in Steps, NEW l \in Locals,
         pc' = [pc EXCEPT ![c] = p], call' = [call EXCEPT ![c] = l],
         UNCHANGED <<token, inflight, exchange, obtained, since, resets>>,
         CallOK(c)', Owns(c)' /\ resets = 0 => Kept,
         p = "refused" /\ resets = 0 =>
           /\ \A d \in Callers : ~ Owns(d)'
           /\ \A x \in Exchanges : ~ (exchange[x] = "settled" /\ obtained[x]),
         resets = 0 /\ l.error = "session_expired" => l.refused # {}
  PROVE  ClientInv'
<1>t. call \in [Callers -> Locals] /\ pc \in [Callers -> Steps]
  BY InvTypes
<1>1. /\ call'[c] = l /\ pc'[c] = p
      /\ \A d \in Callers \ {c} : call'[d] = call[d] /\ pc'[d] = pc[d]
  BY <1>t
<1>2. ClientTypeOK'
  BY <1>t DEF ClientInv, ClientTypeOK
<1>3. (token # None => Ended(token))' /\ OneInFlight'
  BY DEF ClientInv, Ended, OneInFlight
<1>4. \A d \in Callers : CallOK(d)'
  <2> SUFFICES ASSUME NEW d \in Callers, d # c PROVE CallOK(d)'
    OBVIOUS
  <2>. QED
    BY <1>1, Others DEF Ended
<1>5. SessionKept'
  <2> SUFFICES ASSUME resets = 0
               PROVE  /\ \A x \in Exchanges : exchange[x] = "settled" /\ obtained[x] => Kept'
                      /\ \A d \in Callers : Owns(d)' => Kept'
    BY DEF SessionKept
  <2>1. Kept /\ p # "refused" => Kept'
    BY <1>1 DEF Kept
  <2>2. \A d \in Callers : d # c => (Owns(d)' <=> Owns(d))
    BY <1>1 DEF Owns, Answered, Ended
  <2>3. CASE p = "refused"
    BY <2>3
  <2>4. CASE p # "refused"
    BY <2>1, <2>2, <2>4 DEF ClientInv, SessionKept
  <2>. QED
    BY <2>3, <2>4
<1>6. ExpiredMeansRefused'
  <2> SUFFICES ASSUME resets = 0, NEW d \in Callers, call'[d].error = "session_expired"
               PROVE  call'[d].refused # {}
    BY DEF ExpiredMeansRefused
  <2>. QED
    BY <1>1 DEF ClientInv, ExpiredMeansRefused
<1>. QED
  BY <1>2, <1>3, <1>4, <1>5, <1>6 DEF ClientInv

(* A call that ends with an error, with one more message taken or not      *)
LEMMA StepFails ==
  ASSUME ClientInv, NEW c \in Callers, NEW l \in Locals,
         pc[c] # "new", l.retried = call[c].retried, l.refused = call[c].refused, l.accepted <= 1,
         resets = 0 /\ l.error = "session_expired" => l.refused # {},
         \A s, t \in l.refused : s = t,
         pc' = [pc EXCEPT ![c] = "failed"], call' = [call EXCEPT ![c] = l],
         UNCHANGED <<token, inflight, exchange, obtained, since, resets>>,
         ~ l.retried => l.refused = {}
  PROVE  ClientInv'
<1>1. CallOK(c) /\ call \in [Callers -> Locals] /\ pc \in [Callers -> Steps]
  BY InvTypes
<1>2. pc'[c] = "failed" /\ call'[c] = l /\ "failed" \in Steps
  BY <1>1 DEF Steps
<1>3. CallOK(c)'
  <2>1. \A s \in l.refused : Ended(s)'
    BY <1>1 DEF CallOK, Ended
  <2>2. \E s, t \in Exchanges \cup {None} : \A r \in l.refused : r = s \/ r = t
    BY <1>1 DEF CallOK
  <2>. QED
    BY <1>2, <2>1, <2>2 DEF CallOK, Early
<1>4. ~ Owns(c)'
  BY <1>2 DEF Owns
<1>. QED
  BY <1>2, <1>3, <1>4, StepAlone

LEMMA StepBegin ==
  ASSUME ClientInv, NEW c \in Callers, NEW sending \in BOOLEAN, Begin(c, sending)
  PROVE  ClientInv'
<1> DEFINE l == [call[c] EXCEPT !.sending = sending]
<1>1. /\ call[c] \in Locals /\ CallOK(c) /\ pc[c] = "new"
      /\ call \in [Callers -> Locals] /\ pc \in [Callers -> Steps]
  BY InvTypes DEF Begin
<1>2. /\ l \in Locals /\ ~ l.retried /\ l.accepted = 0
      /\ l.refused = call[c].refused /\ l.error = call[c].error
  BY <1>1 DEF Locals, CallOK, Early
<1>3. l.refused = {} /\ l.error = ""
  BY <1>1, <1>2 DEF CallOK
<1>4. CASE token # None
  <2>1. /\ pc' = [pc EXCEPT ![c] = "resume"] /\ call' = [call EXCEPT ![c] = l]
        /\ UNCHANGED <<token, inflight, exchange, obtained, since, resets>>
    BY <1>4 DEF Begin, Goes
  <2> HIDE DEF l
  <2>2. pc'[c] = "resume" /\ call'[c] = l /\ "resume" \in Steps
    BY <1>1, <2>1 DEF Steps
  <2>3. CallOK(c)'
    <3>1. /\ \E s, t \in Exchanges \cup {None} : \A r \in l.refused : r = s \/ r = t
          /\ \A s, t \in l.refused : s = t
      BY <1>1, <1>2, <1>3 DEF CallOK
    <3>2. l.accepted <= 1
      BY <1>2
    <3>. QED
      BY <1>2, <1>3, <2>2, <3>1, <3>2 DEF CallOK
  <2>4. ~ Owns(c)'
    BY <1>2, <2>2 DEF Owns
  <2>. QED
    BY <1>2, <1>3, <2>1, <2>2, <2>3, <2>4, StepAlone
<1>5. CASE token = None
  <2>1. AwaitExchange(c, l) /\ UNCHANGED <<token, obtained, resets>>
    BY <1>5 DEF Begin
  <2> HIDE DEF l
  <2>. QED
    BY <1>1, <1>2, <1>5, <2>1, StepAwait
<1>. QED
  BY <1>4, <1>5

LEMMA StepRetry ==
  ASSUME ClientInv, NEW c \in Callers, Retry(c)
  PROVE  ClientInv'
<1> DEFINE l == [call[c] EXCEPT !.retried = TRUE]
<1>1. call[c] \in Locals /\ CallOK(c) /\ pc[c] = "refused"
  BY InvTypes DEF Retry
<1>2. /\ l \in Locals /\ l.retried /\ l.accepted = 0
      /\ l.refused = call[c].refused /\ l.error = call[c].error
  BY <1>1 DEF Locals, CallOK, Early
<1>3. AwaitExchange(c, l) /\ token' = None /\ UNCHANGED <<obtained, resets>>
  BY DEF Retry
<1> HIDE DEF l
<1>. QED
  BY <1>1, <1>2, <1>3, StepAwait

(* Going on with the same local state, when nothing new is claimed of it   *)
LEMMA StepWake ==
  ASSUME ClientInv, NEW c \in Callers, Wake(c)
  PROVE  ClientInv'
<1>1. /\ call[c] \in Locals /\ CallOK(c) /\ pc[c] = "await"
      /\ call \in [Callers -> Locals] /\ pc \in [Callers -> Steps]
      /\ obtained \in [Exchanges -> BOOLEAN]
      /\ UNCHANGED <<token, inflight, exchange, obtained, since, resets>>
      /\ exchange[call[c].waits] = "over"
  BY InvTypes DEF Wake
<1>2. CASE obtained[call[c].waits]
  <2>1. pc' = [pc EXCEPT ![c] = "resume"] /\ call' = [call EXCEPT ![c] = call[c]]
    BY <1>1, <1>2 DEF Wake, Goes
  <2>2. pc'[c] = "resume" /\ call'[c] = call[c] /\ "resume" \in Steps
    BY <1>1, <2>1 DEF Steps
  <2>3. CallOK(c)'
    BY <1>1, <2>2 DEF CallOK, Early, Ended
  <2>4. Owns(c)' /\ resets = 0 => Kept
    BY <1>1, <1>2, <2>2 DEF ClientInv, SessionKept, Owns, Answered, Ended
  <2>5. resets = 0 /\ call[c].error = "session_expired" => call[c].refused # {}
    BY DEF ClientInv, ExpiredMeansRefused
  <2>. QED
    BY <1>1, <2>1, <2>2, <2>3, <2>4, <2>5, StepAlone
<1>3. CASE ~ obtained[call[c].waits]
  <2> DEFINE l == [call[c] EXCEPT !.error = "exchange"]
  <2>1. pc' = [pc EXCEPT ![c] = "failed"] /\ call' = [call EXCEPT ![c] = l]
    BY <1>1, <1>3 DEF Wake, Goes, Fails
  <2>2. /\ l \in Locals /\ l.error = "exchange" /\ l.refused = call[c].refused
        /\ l.accepted = call[c].accepted /\ l.retried = call[c].retried
    BY <1>1 DEF Locals, Errors
  <2> HIDE DEF l
  <2>3. /\ l.accepted <= 1 /\ \A s, t \in l.refused : s = t
        /\ ~ l.retried => l.refused = {}
    BY <1>1, <2>2 DEF CallOK, Early
  <2>4. pc[c] # "new" /\ l.error # "session_expired"
    BY <1>1, <2>2
  <2>. QED
    BY <1>1, <2>1, <2>2, <2>3, <2>4, StepFails, Zenon
<1>. QED
  BY <1>2, <1>3

LEMMA StepOpen ==
  ASSUME ClientInv, NEW c \in Callers, Open(c)
  PROVE  ClientInv'
<1>1. /\ call[c] \in Locals /\ CallOK(c) /\ pc[c] = "resume"
      /\ call \in [Callers -> Locals] /\ pc \in [Callers -> Steps]
      /\ token \in Exchanges \cup {None}
      /\ UNCHANGED <<token, inflight, exchange, obtained, since, resets>>
  BY InvTypes DEF Open
<1>2. resets = 0 /\ call[c].error = "session_expired" => call[c].refused # {}
  BY DEF ClientInv, ExpiredMeansRefused
<1>3. CASE ~ call[c].sending
  <2>1. pc' = [pc EXCEPT ![c] = "done"] /\ call' = [call EXCEPT ![c] = call[c]]
    BY <1>1, <1>3 DEF Open, Goes
  <2>2. pc'[c] = "done" /\ call'[c] = call[c] /\ "done" \in Steps
    BY <1>1, <2>1 DEF Steps
  <2>3. CallOK(c)' /\ ~ Owns(c)'
    BY <1>1, <2>2 DEF CallOK, Early, Ended, Owns
  <2>. QED
    BY <1>1, <1>2, <2>1, <2>2, <2>3, StepAlone
<1>4. CASE call[c].sending /\ token # None
  <2> DEFINE l == [call[c] EXCEPT !.with = token]
  <2>1. pc' = [pc EXCEPT ![c] = "chat"] /\ call' = [call EXCEPT ![c] = l]
    BY <1>1, <1>4 DEF Open, Goes
  <2>2. /\ l \in Locals /\ l.with = token /\ l.refused = call[c].refused
        /\ l.accepted = call[c].accepted /\ l.retried = call[c].retried
        /\ l.error = call[c].error
    BY <1>1 DEF Locals
  <2> HIDE DEF l
  <2>3. pc'[c] = "chat" /\ call'[c] = l /\ "chat" \in Steps
    BY <1>1, <2>1 DEF Steps
  <2>4. CallOK(c)' /\ ~ Owns(c)'
    <3>1. Ended(token)' /\ token \notin l.refused
      BY <1>1, <1>4, <2>2 DEF ClientInv, CallOK, Ended
    <3>. QED
      BY <1>1, <1>4, <2>2, <2>3, <3>1 DEF CallOK, Early, Ended, Owns
  <2>. QED
    BY <1>1, <1>2, <2>1, <2>2, <2>3, <2>4, StepAlone
<1>5. CASE call[c].sending /\ token = None /\ call[c].retried
  <2> DEFINE l == [call[c] EXCEPT !.error = "session_expired"]
  <2>1. pc' = [pc EXCEPT ![c] = "failed"] /\ call' = [call EXCEPT ![c] = l]
    BY <1>1, <1>5 DEF Open, Goes, Fails
  <2>2. /\ l \in Locals
        /\ l.refused = call[c].refused
        /\ l.accepted = call[c].accepted /\ l.retried = call[c].retried
    BY <1>1 DEF Locals, Errors
  <2>3. resets # 0
    BY <1>1, <1>5 DEF ClientInv, SessionKept, Owns, Kept
  <2> HIDE DEF l
  <2>4. /\ l.accepted <= 1 /\ \A s, t \in l.refused : s = t
        /\ ~ l.retried => l.refused = {}
    BY <1>1, <2>2 DEF CallOK, Early
  <2>. QED
    BY <1>1, <2>1, <2>2, <2>3, <2>4, StepFails
<1>6. CASE call[c].sending /\ token = None /\ ~ call[c].retried
  <2>1. pc' = [pc EXCEPT ![c] = "refused"] /\ call' = [call EXCEPT ![c] = call[c]]
    BY <1>1, <1>6 DEF Open, Goes
  <2>2. pc'[c] = "refused" /\ call'[c] = call[c] /\ "refused" \in Steps
    BY <1>1, <2>1 DEF Steps
  <2>3. CallOK(c)' /\ ~ Owns(c)'
    BY <1>1, <2>2 DEF CallOK, Early, Ended, Owns
  <2>4. resets = 0 => /\ \A d \in Callers : ~ Owns(d)
                      /\ \A x \in Exchanges : ~ (exchange[x] = "settled" /\ obtained[x])
    BY <1>6 DEF ClientInv, SessionKept, Kept
  <2>5. \A d \in Callers \ {c} : Owns(d)' => Owns(d)
    BY <1>1, <2>1 DEF Owns, Answered, Ended
  <2>. QED
    BY <1>1, <1>2, <2>1, <2>2, <2>3, <2>4, <2>5, StepAlone
<1>. QED
  BY <1>3, <1>4, <1>5, <1>6

LEMMA StepRefuse ==
  ASSUME ClientInv, NEW c \in Callers, Refuse(c)
  PROVE  ClientInv'
<1> DEFINE refused == call[c].refused \cup {call[c].with}
<1>1. /\ call[c] \in Locals /\ CallOK(c) /\ pc[c] = "chat" /\ Quiet
      /\ call \in [Callers -> Locals] /\ pc \in [Callers -> Steps]
      /\ UNCHANGED <<token, inflight, exchange, obtained, since, resets>>
  BY InvTypes DEF Refuse
<1>2. /\ call[c].with \in Exchanges /\ Ended(call[c].with)
      /\ \A s, t \in call[c].refused : s = t
      /\ \A s \in call[c].refused : Ended(s)
      /\ call[c].accepted = 0
  BY <1>1 DEF CallOK, Locals, Early
<1>3. /\ \A s \in refused : Ended(s)
      /\ \E s, t \in Exchanges \cup {None} : \A r \in refused : r = s \/ r = t
  <2>1. CASE call[c].refused = {}
    BY <1>2, <2>1
  <2>2. CASE call[c].refused # {}
    <3>1. PICK s \in call[c].refused : TRUE
      BY <2>2
    <3>2. s \in Exchanges
      BY <1>1, <3>1 DEF Locals
    <3>. QED
      BY <1>2, <3>1, <3>2
  <2>. QED
    BY <2>1, <2>2
<1>4. CASE call[c].retried
  <2> DEFINE l == [call[c] EXCEPT !.refused = refused, !.error = "session_expired"]
  <2>1. pc' = [pc EXCEPT ![c] = "failed"] /\ call' = [call EXCEPT ![c] = l]
    BY <1>1, <1>4 DEF Refuse, Goes
  <2>2. /\ l \in Locals /\ l.refused = refused /\ l.error = "session_expired"
        /\ l.accepted = 0 /\ l.retried
    BY <1>1, <1>2, <1>4 DEF Locals, Errors
  <2>3. refused # {}
    OBVIOUS
  <2> HIDE DEF l, refused
  <2>4. pc'[c] = "failed" /\ call'[c] = l /\ "failed" \in Steps
    BY <1>1, <2>1 DEF Steps
  <2>5. l.accepted <= 1
    BY <2>2
  <2>6. CallOK(c)' /\ ~ Owns(c)'
    BY <1>1, <1>3, <2>2, <2>4, <2>5 DEF CallOK, Early, Ended, Owns
  <2>. QED
    BY <1>1, <2>1, <2>2, <2>3, <2>4, <2>6, StepAlone
<1>5. CASE ~ call[c].retried
  <2> DEFINE l == [call[c] EXCEPT !.refused = refused]
  <2>1. pc' = [pc EXCEPT ![c] = "refused"] /\ call' = [call EXCEPT ![c] = l]
    BY <1>1, <1>5 DEF Refuse, Goes
  <2>2. /\ l \in Locals /\ l.refused = refused
        /\ l.accepted = 0 /\ ~ l.retried
    BY <1>1, <1>2, <1>5 DEF Locals
  <2>3. refused # {} /\ \A s, t \in refused : s = t
    BY <1>1, <1>5 DEF CallOK
  <2> HIDE DEF l, refused
  <2>4. pc'[c] = "refused" /\ call'[c] = l /\ "refused" \in Steps
    BY <1>1, <2>1 DEF Steps
  <2>5. l.accepted <= 1
    BY <2>2
  <2>6. CallOK(c)' /\ ~ Owns(c)'
    BY <1>1, <1>3, <2>2, <2>3, <2>4, <2>5 DEF CallOK, Early, Ended, Owns
  <2>7. ASSUME NEW d \in Callers PROVE ~ Owns(d)'
    <3>1. CASE d = c
      BY <2>6, <3>1
    <3>2. CASE d # c
      <4>1. pc'[d] = pc[d] /\ call'[d] = call[d]
        BY <1>1, <2>1, <3>2
      <4>2. call[d].waits \in Exchanges \cup {None} /\ (pc[d] = "await" => call[d].waits # None)
        BY InvTypes DEF Locals, CallOK
      <4>. QED
        BY <1>1, <4>1, <4>2 DEF Owns, Quiet, Answered, Ended
    <3>. QED
      BY <3>1, <3>2
  <2>8. \A x \in Exchanges : exchange[x] # "settled"
    BY <1>1 DEF Quiet
  <2>. QED
    BY <1>1, <2>1, <2>2, <2>3, <2>4, <2>6, <2>7, <2>8, StepAlone
<1>. QED
  BY <1>4, <1>5

LEMMA StepAnswer ==
  ASSUME ClientInv, NEW c \in Callers, Answer(c) \/ NetworkError(c)
  PROVE  ClientInv'
<1>1. /\ call[c] \in Locals /\ CallOK(c) /\ pc[c] = "chat"
      /\ call \in [Callers -> Locals] /\ pc \in [Callers -> Steps]
      /\ UNCHANGED <<token, inflight, exchange, obtained, since, resets>>
  BY InvTypes DEF Answer, NetworkError
<1>2. call[c].accepted = 0
  BY <1>1 DEF CallOK, Early
<1>3. /\ \A s, t \in call[c].refused : s = t
      /\ ~ call[c].retried => call[c].refused = {}
  BY <1>1 DEF CallOK
<1>4. ASSUME NEW l \in Locals, l.refused = call[c].refused, l.retried = call[c].retried,
             l.accepted \in {0, 1}, l.error \in {"network", "response"},
             call' = [call EXCEPT ![c] = l], pc' = [pc EXCEPT ![c] = "failed"]
      PROVE  ClientInv'
  <2>1. l.accepted <= 1
    BY <1>4
  <2>2. pc[c] # "new" /\ l.error # "session_expired"
    BY <1>1, <1>4
  <2>3. (\A s, t \in l.refused : s = t) /\ (~ l.retried => l.refused = {})
    BY <1>3, <1>4
  <2>. QED
    BY <1>1, <1>4, <2>1, <2>2, <2>3, StepFails
<1>5. CASE NetworkError(c)
  <2>1. PICK accepted \in {0, 1} :
          /\ call' = [call EXCEPT ![c].accepted = @ + accepted, ![c].error = "network"]
          /\ pc' = [pc EXCEPT ![c] = "failed"]
    BY <1>5 DEF NetworkError, Goes
  <2> DEFINE l == [call[c] EXCEPT !.accepted = @ + accepted, !.error = "network"]
  <2>2. call' = [call EXCEPT ![c] = l]
    BY <1>1, <2>1
  <2>3. call[c].accepted + accepted \in {0, 1} /\ call[c].accepted + accepted \in 0..2
    BY <1>2
  <2>4. l \in Locals
    BY <1>1, <2>3 DEF Locals, Errors
  <2>5. /\ l.refused = call[c].refused /\ l.retried = call[c].retried
        /\ l.accepted = call[c].accepted + accepted /\ l.error = "network"
    BY <1>1 DEF Locals
  <2> HIDE DEF l
  <2>. QED
    BY <1>4, <2>1, <2>2, <2>3, <2>4, <2>5
<1>6. CASE Answer(c)
  <2>1. CASE Fails(c, "response")
    <3> DEFINE l == [call[c] EXCEPT !.error = "response"]
    <3>1. call' = [call EXCEPT ![c] = l] /\ pc' = [pc EXCEPT ![c] = "failed"]
      BY <1>1, <2>1 DEF Fails, Goes
    <3>2. /\ l \in Locals /\ l.refused = call[c].refused /\ l.retried = call[c].retried
          /\ l.accepted = call[c].accepted /\ l.error = "response"
      BY <1>1 DEF Locals, Errors
    <3> HIDE DEF l
    <3>. QED
      BY <1>2, <1>4, <3>1, <3>2
  <2>2. CASE Goes(c, "stream") /\ call' = [call EXCEPT ![c].accepted = @ + 1]
    <3> DEFINE l == [call[c] EXCEPT !.accepted = @ + 1]
    <3>1. call' = [call EXCEPT ![c] = l] /\ pc' = [pc EXCEPT ![c] = "stream"]
      BY <1>1, <2>2 DEF Goes
    <3>2. /\ l \in Locals /\ l.refused = call[c].refused /\ l.retried = call[c].retried
          /\ l.accepted = 1 /\ l.error = call[c].error
      BY <1>1, <1>2 DEF Locals
    <3> HIDE DEF l
    <3>3. l.accepted <= 1
      BY <3>2
    <3>4. pc'[c] = "stream" /\ call'[c] = l /\ "stream" \in Steps
      BY <1>1, <3>1 DEF Steps
    <3>5. CallOK(c)' /\ ~ Owns(c)'
      BY <1>1, <3>2, <3>3, <3>4 DEF CallOK, Early, Ended, Owns
    <3>6. resets = 0 /\ l.error = "session_expired" => l.refused # {}
      BY <3>2 DEF ClientInv, ExpiredMeansRefused
    <3>. QED
      BY <1>1, <3>1, <3>2, <3>4, <3>5, <3>6, StepAlone
  <2>. QED
    BY <1>6, <2>1, <2>2 DEF Answer
<1>. QED
  BY <1>5, <1>6

LEMMA StepStreamEnds ==
  ASSUME ClientInv, NEW c \in Callers, StreamEnds(c)
  PROVE  ClientInv'
<1>1. /\ call[c] \in Locals /\ CallOK(c) /\ pc[c] = "stream"
      /\ call \in [Callers -> Locals] /\ pc \in [Callers -> Steps]
      /\ UNCHANGED <<token, inflight, exchange, obtained, since, resets>>
  BY InvTypes DEF StreamEnds
<1>2. CASE Goes(c, "done") /\ UNCHANGED call
  <2>1. pc' = [pc EXCEPT ![c] = "done"] /\ call' = [call EXCEPT ![c] = call[c]]
    BY <1>1, <1>2 DEF Goes
  <2>2. pc'[c] = "done" /\ call'[c] = call[c] /\ "done" \in Steps
    BY <1>1, <2>1 DEF Steps
  <2>3. CallOK(c)' /\ ~ Owns(c)'
    BY <1>1, <2>2 DEF CallOK, Early, Ended, Owns
  <2>4. resets = 0 /\ call[c].error = "session_expired" => call[c].refused # {}
    BY DEF ClientInv, ExpiredMeansRefused
  <2>. QED
    BY <1>1, <2>1, <2>2, <2>3, <2>4, StepAlone
<1>3. CASE Fails(c, "stream")
  <2> DEFINE l == [call[c] EXCEPT !.error = "stream"]
  <2>1. call' = [call EXCEPT ![c] = l] /\ pc' = [pc EXCEPT ![c] = "failed"]
    BY <1>1, <1>3 DEF Fails, Goes
  <2>2. /\ l \in Locals /\ l.refused = call[c].refused /\ l.retried = call[c].retried
        /\ l.accepted = call[c].accepted /\ l.error = "stream"
    BY <1>1 DEF Locals, Errors
  <2> HIDE DEF l
  <2>3. l.accepted <= 1
    BY <1>1, <2>2 DEF CallOK
  <2>4. (\A s, t \in l.refused : s = t) /\ (~ l.retried => l.refused = {})
    BY <1>1, <2>2 DEF CallOK
  <2>5. pc[c] # "new" /\ l.error # "session_expired"
    BY <1>1, <2>2
  <2>. QED
    BY <1>1, <2>1, <2>2, <2>3, <2>4, <2>5, StepFails
<1>. QED
  BY <1>2, <1>3 DEF StreamEnds

(* The answer of an exchange comes when no call is about to drop the       *)
(* session.                                                                *)
LEMMA StepExchangeAnswered ==
  ASSUME ClientInv, NEW x \in Exchanges, NEW good \in BOOLEAN, ExchangeAnswered(x, good)
  PROVE  ClientInv'
<1>1. /\ Quiet /\ exchange[x] = "asking"
      /\ exchange' = [exchange EXCEPT ![x] = "settled"]
      /\ obtained' = [obtained EXCEPT ![x] = good]
      /\ token' = IF good THEN x ELSE token
      /\ UNCHANGED <<inflight, since, resets, pc, call>>
  BY DEF ExchangeAnswered
<1>2. /\ exchange \in [Exchanges -> {"unused", "asking", "settled", "over"}]
      /\ obtained \in [Exchanges -> BOOLEAN] /\ None \notin Exchanges
      /\ token \in Exchanges \cup {None} /\ inflight \in Exchanges \cup {None}
  BY DEF ClientInv, ClientTypeOK, None, Exchanges
<1>3. /\ exchange'[x] = "settled"
      /\ \A y \in Exchanges : Ended(y) => Ended(y)'
      /\ \A y \in Exchanges : y # x => exchange'[y] = exchange[y] /\ obtained'[y] = obtained[y]
  BY <1>1, <1>2 DEF Ended
<1>4. ClientTypeOK'
  BY <1>1, <1>2, <1>3 DEF ClientInv, ClientTypeOK
<1>5. token' # None => Ended(token)'
  BY <1>1, <1>2, <1>3 DEF ClientInv, Ended
<1>6. \A c \in Callers : CallOK(c)'
  BY <1>1, <1>3, Others DEF Ended
<1>7. OneInFlight' /\ ExpiredMeansRefused'
  BY <1>1, <1>3 DEF ClientInv, OneInFlight, ExpiredMeansRefused
<1>8. SessionKept'
  <2> SUFFICES ASSUME resets = 0
               PROVE  /\ \A y \in Exchanges : exchange'[y] = "settled" /\ obtained'[y] => Kept'
                      /\ \A c \in Callers : Owns(c)' => Kept'
    BY <1>1 DEF SessionKept
  <2>1. \A c \in Callers : pc'[c] # "refused"
    BY <1>1 DEF Quiet
  <2>2. token' # None => Kept'
    BY <2>1 DEF Kept
  <2>3. good => token' # None
    BY <1>1, <1>2
  <2>4. ASSUME NEW y \in Exchanges, exchange'[y] = "settled", obtained'[y]
        PROVE  Kept'
    BY <1>1, <1>2, <1>3, <2>2, <2>3, <2>4 DEF Quiet
  <2>5. ASSUME NEW c \in Callers, Owns(c)' PROVE Kept'
    <3>1. /\ pc[c] = "await" /\ Answered(call[c].waits)'
          /\ exchange[call[c].waits] # "over"
      BY <1>1, <2>5 DEF Owns, Quiet
    <3>2. call[c].waits \in Exchanges
      BY <3>1, InvTypes DEF CallOK, Locals
    <3>3. Ended(call[c].waits)' /\ obtained'[call[c].waits]
      BY <1>1, <3>1 DEF Answered
    <3>4. call[c].waits = x /\ obtained'[x]
      BY <1>1, <1>3, <3>1, <3>2, <3>3 DEF Ended, Quiet
    <3>. QED
      BY <1>3, <2>4, <3>4
  <2>. QED
    BY <2>4, <2>5
<1>. QED
  BY <1>4, <1>5, <1>6, <1>7, <1>8 DEF ClientInv

(* Without a reset, the exchange whose finally runs is the one in flight.  *)
LEMMA StepFinally ==
  ASSUME ClientInv, NEW x \in Exchanges, Finally(x)
  PROVE  ClientInv'
<1>1. /\ exchange[x] = "settled"
      /\ exchange' = [exchange EXCEPT ![x] = "over"]
      /\ inflight' = None
      /\ UNCHANGED <<token, obtained, since, resets, pc, call>>
  BY DEF Finally
<1>2. /\ exchange \in [Exchanges -> {"unused", "asking", "settled", "over"}]
      /\ None \notin Exchanges /\ token \in Exchanges \cup {None}
  BY DEF ClientInv, ClientTypeOK, None, Exchanges
<1>3. /\ exchange'[x] = "over"
      /\ \A y \in Exchanges : Ended(y) <=> Ended(y)'
      /\ \A y \in Exchanges : y # x => exchange'[y] = exchange[y]
  BY <1>1, <1>2 DEF Ended
<1>4. ClientTypeOK'
  BY <1>1, <1>2 DEF ClientInv, ClientTypeOK
<1>5. token' # None => Ended(token)'
  BY <1>1, <1>2, <1>3 DEF ClientInv
<1>6. \A c \in Callers : CallOK(c)'
  BY <1>1, <1>3, Others
<1>7. OneInFlight' /\ ExpiredMeansRefused'
  <2>1. resets = 0 => x = inflight
    BY <1>1 DEF ClientInv, OneInFlight
  <2>2. OneInFlight'
    BY <1>1, <1>3, <2>1 DEF ClientInv, OneInFlight
  <2>. QED
    BY <1>1, <2>2 DEF ClientInv, ExpiredMeansRefused
<1>8. SessionKept'
  <2> SUFFICES ASSUME resets = 0
               PROVE  /\ \A y \in Exchanges : exchange'[y] = "settled" /\ obtained[y] => Kept
                      /\ \A c \in Callers : Owns(c)' => Kept
    BY <1>1 DEF SessionKept, Kept
  <2>1. \A c \in Callers : Owns(c)' => Owns(c)
    <3> SUFFICES ASSUME NEW c \in Callers, Owns(c)' PROVE Owns(c)
      OBVIOUS
    <3>1. pc[c] = "await" => call[c].waits \in Exchanges
      BY InvTypes DEF CallOK, Locals
    <3>. QED
      BY <1>1, <1>3, <3>1 DEF Owns, Answered
  <2>. QED
    BY <1>3, <2>1 DEF ClientInv, SessionKept
<1>. QED
  BY <1>4, <1>5, <1>6, <1>7, <1>8 DEF ClientInv

LEMMA StepReset ==
  ASSUME ClientInv, Reset
  PROVE  ClientInv'
<1>1. /\ resets < MaxResets /\ resets' = resets + 1 /\ token' = None /\ inflight' = None
      /\ UNCHANGED <<exchange, obtained, since, pc, call>>
  BY DEF Reset
<1>2. resets' \in 0..MaxResets /\ resets' # 0 /\ 0..resets \subseteq 0..resets'
  BY <1>1, ClientAssumption DEF ClientInv, ClientTypeOK
<1>3. since' \in [Exchanges -> 0..resets']
  BY <1>1, <1>2 DEF ClientInv, ClientTypeOK
<1>4. ClientTypeOK'
  BY <1>1, <1>2, <1>3 DEF ClientInv, ClientTypeOK
<1>5. \A c \in Callers : CallOK(c)'
  BY <1>1, Others DEF Ended
<1>6. OneInFlight' /\ ExpiredMeansRefused' /\ SessionKept'
  BY <1>2 DEF OneInFlight, ExpiredMeansRefused, SessionKept
<1>. QED
  BY <1>1, <1>4, <1>5, <1>6 DEF ClientInv

LEMMA StepClient == ClientInv /\ [Next]_vars => ClientInv'
<1> SUFFICES ASSUME ClientInv, [Next]_vars PROVE ClientInv'
  OBVIOUS
<1>1. ASSUME NEW c \in Callers, NEW sending \in BOOLEAN, Begin(c, sending) PROVE ClientInv'
  BY <1>1, StepBegin
<1>2. ASSUME NEW c \in Callers, Microtask(c) PROVE ClientInv'
  BY <1>2, StepWake, StepOpen, StepRetry DEF Microtask
<1>3. ASSUME NEW c \in Callers, Network(c) PROVE ClientInv'
  BY <1>3, StepRefuse, StepAnswer, StepStreamEnds DEF Network
<1>4. ASSUME NEW x \in Exchanges, NEW good \in BOOLEAN, ExchangeAnswered(x, good)
      PROVE  ClientInv'
  BY <1>4, StepExchangeAnswered
<1>5. ASSUME NEW x \in Exchanges, Finally(x) PROVE ClientInv'
  BY <1>5, StepFinally
<1>6. CASE Reset
  BY <1>6, StepReset
<1>7. CASE UNCHANGED vars
  <2>1. UNCHANGED <<token, inflight, exchange, obtained, since, resets, pc, call>>
    BY <1>7 DEF vars
  <2>2. (\A c \in Callers : CallOK(c)') /\ ClientTypeOK'
    BY <2>1, Others DEF Ended, ClientInv, ClientTypeOK
  <2>3. OneInFlight' /\ SessionKept' /\ ExpiredMeansRefused'
    BY <2>1 DEF ClientInv, OneInFlight, SessionKept, Owns, Answered, Ended, Kept,
                ExpiredMeansRefused
  <2>. QED
    BY <2>1, <2>2, <2>3 DEF ClientInv, Ended
<1>. QED
  BY <1>1, <1>2, <1>3, <1>4, <1>5, <1>6, <1>7 DEF Next

(* Small sets: one whose elements are equal, and one that two elements cover *)
LEMMA AllEqual ==
  ASSUME NEW S, \A p, q \in S : p = q
  PROVE  IsFiniteSet(S) /\ Cardinality(S) <= 1
<1>1. CASE S = {}
  <2>1. IsFiniteSet(S) /\ Cardinality(S) = 0
    BY <1>1, FS_EmptySet, Zenon
  <2>. QED
    BY <2>1
<1>2. CASE S # {}
  <2>1. PICK p \in S : TRUE
    BY <1>2
  <2>2. S = {p}
    BY <2>1
  <2>3. IsFiniteSet(S) /\ Cardinality(S) = 1
    BY <2>2, FS_Singleton, Zenon
  <2>. QED
    BY <2>3
<1>. QED
  BY <1>1, <1>2

LEMMA CoveredByTwo ==
  ASSUME NEW S, NEW s, NEW t, \A r \in S : r = s \/ r = t
  PROVE  IsFiniteSet(S) /\ Cardinality(S) <= 2 /\ Cardinality(S) \in Nat
<1>1. IsFiniteSet({s}) /\ Cardinality({s}) = 1
  BY FS_Singleton, Zenon
<1>2. /\ IsFiniteSet({s} \cup {t})
      /\ Cardinality({s} \cup {t}) = IF t \in {s} THEN Cardinality({s}) ELSE Cardinality({s}) + 1
  BY <1>1, FS_AddElement, Zenon
<1>3. S \in SUBSET ({s} \cup {t})
  OBVIOUS
<1>4. IsFiniteSet(S) /\ Cardinality(S) <= Cardinality({s} \cup {t})
  BY <1>2, <1>3, FS_Subset, Zenon
<1>5. Cardinality(S) \in Nat
  BY <1>4, FS_CardinalityType, Zenon
<1>. QED
  BY <1>1, <1>2, <1>4, <1>5

LEMMA ClientInvariant == Spec => []ClientInv
BY InitClient, StepClient, PTL DEF Spec

-----------------------------------------------------------------------------

(* The variables of the SDK have their types, and what is in flight is not *)
(* over: a later caller never gets the answer of an earlier exchange.      *)
THEOREM ClientTypes == Spec => []ClientTypeOK
<1>1. ClientInv => ClientTypeOK
  BY DEF ClientInv
<1>. QED
  BY <1>1, ClientInvariant, PTL

(* Of one send the broker takes a message at most once: the retry happens  *)
(* only after a refusal, and a refusal is an answer.                       *)
THEOREM MessageSentOnce == Spec => []NeverSentTwice
<1>1. ClientInv => NeverSentTwice
  BY DEF ClientInv, CallOK, NeverSentTwice
<1>. QED
  BY <1>1, ClientInvariant, PTL

(* No more than two sessions are refused to a call, the second one ends    *)
(* it, and what is sent carries no session refused before, for any number  *)
(* of callers that share and drop the session.                             *)
THEOREM RetryIsFresh == Spec => []OneFreshRetry
<1>1. ASSUME ClientInv, NEW c \in Callers
      PROVE  /\ pc[c] = "chat" => call[c].with \notin call[c].refused
             /\ Cardinality(call[c].refused) <= 2
             /\ Cardinality(call[c].refused) = 2 =>
                  pc[c] = "failed" /\ call[c].error = "session_expired"
  <2>1. CallOK(c)
    BY <1>1, InvTypes
  <2> DEFINE R == call[c].refused
  <2>2. PICK s, t \in Exchanges \cup {None} : \A r \in R : r = s \/ r = t
    BY <2>1 DEF CallOK
  <2>3. IsFiniteSet(R) /\ Cardinality(R) <= 2 /\ Cardinality(R) \in Nat
    BY <2>2, CoveredByTwo
  <2>4. (\A p, q \in R : p = q) => Cardinality(R) <= 1
    BY AllEqual
  <2>5. (\A p, q \in R : p = q) => Cardinality(R) # 2
    BY <2>3, <2>4
  <2>. QED
    BY <2>1, <2>3, <2>5 DEF CallOK
<1>2. ClientInv => OneFreshRetry
  BY <1>1 DEF OneFreshRetry
<1>. QED
  BY <1>2, ClientInvariant, PTL

(* Until the first reset, no two exchanges are asked for at the same time, *)
(* however calls, refusals and retries interleave.                         *)
THEOREM ExchangesAreShared == Spec => []OneExchange
<1>1. ASSUME ClientInv, resets = 0
      PROVE  Cardinality({x \in Exchanges : exchange[x] = "asking"}) <= 1
  <2>1. {x \in Exchanges : exchange[x] = "asking"} \subseteq {inflight}
    BY <1>1 DEF ClientInv, OneInFlight
  <2>. QED
    BY <2>1, AllEqual
<1>2. ClientInv => OneExchange
  BY <1>1 DEF OneExchange
<1>. QED
  BY <1>2, ClientInvariant, PTL

(* Until the first reset, a send says session_expired only if the broker   *)
(* refused its session: a session that others dropped is asked for again.  *)
THEOREM ExpiredIsRefused == Spec => []ExpiredMeansRefused
<1>1. ClientInv => ExpiredMeansRefused
  BY DEF ClientInv
<1>. QED
  BY <1>1, ClientInvariant, PTL

-----------------------------------------------------------------------------
(***************************************************************************)
(* The events of one answer.  What the parser holds after p characters is  *)
(* what the stream says up to p: LineRead and BlankRead follow a line of   *)
(* the stream through the definition of Events, LineTaken through the      *)
(* buffer.                                                                 *)
(***************************************************************************)

(* A set of places in its order: the first ones do not change when one is  *)
(* added behind all others.                                                *)
Upto(bs, p) == {c \in bs : c <= p}

LEMMA SamePlace ==
  ASSUME NEW S, NEW T, NEW k,
         \A b : b \in S /\ Cardinality({c \in S : c <= b}) = k
                  <=> b \in T /\ Cardinality({c \in T : c <= b}) = k
  PROVE  (CHOOSE b \in S : Cardinality({c \in S : c <= b}) = k)
           = (CHOOSE b \in T : Cardinality({c \in T : c <= b}) = k)
  OBVIOUS

LEMMA FirstOnes ==
  ASSUME NEW S \in SUBSET Nat, IsFiniteSet(S), NEW p \in Nat
  PROVE  LET T == Upto(S, p) IN
         /\ IsFiniteSet(T) /\ Cardinality(T) \in Nat /\ Cardinality(S) \in Nat
         /\ Cardinality(T) <= Cardinality(S)
         /\ DOMAIN InOrder(T) = 1..Cardinality(T)
         /\ \A k \in 1..Cardinality(T) : InOrder(S)[k] = InOrder(T)[k]
<1> DEFINE T == Upto(S, p)
           n == Cardinality(T)
<1>1. /\ IsFiniteSet(T) /\ n \in Nat /\ Cardinality(S) \in Nat
      /\ n <= Cardinality(S)
  <2>1. T \in SUBSET S
    BY DEF Upto
  <2> QED
    BY <2>1, FS_Subset, FS_CardinalityType
<1>2. ASSUME NEW b \in T
      PROVE  {c \in S : c <= b} = {c \in T : c <= b}
  <2>1. b \in Nat /\ b <= p
    BY <1>2 DEF Upto
  <2>2. ASSUME NEW c \in S, c <= b PROVE c \in T
    <3>1. c \in Nat
      OBVIOUS
    <3>2. c <= p
      BY <2>1, <2>2, <3>1
    <3> QED
      BY <3>2 DEF Upto
  <2>3. T \subseteq S
    BY DEF Upto
  <2> HIDE DEF T
  <2> QED
    BY <2>2, <2>3
<1>3. ASSUME NEW b \in S, b \notin T
      PROVE  Cardinality({c \in S : c <= b}) > n
  <2> DEFINE R == {c \in S : c <= b}
  <2>1. T \cup {b} \in SUBSET R
    <3>1. b \in Nat /\ ~ (b <= p)
      BY <1>3 DEF Upto
    <3>2. ASSUME NEW c \in T PROVE c \in R
      <4>1. c \in S /\ c \in Nat /\ c <= p
        BY <3>2 DEF Upto
      <4>2. c <= b
        BY <4>1, <3>1
      <4> QED
        BY <4>1, <4>2
    <3>3. b \in R
      BY <3>1, <1>3
    <3> QED
      BY <3>2, <3>3
  <2>2. R \in SUBSET S
    OBVIOUS
  <2>3. IsFiniteSet(R) /\ Cardinality(R) \in Nat
    BY <2>2, FS_Subset, FS_CardinalityType
  <2>4. Cardinality(T \cup {b}) = n + 1
    BY <1>1, <1>3, FS_AddElement
  <2>5. Cardinality(T \cup {b}) <= Cardinality(R)
    BY <2>1, <2>3, FS_Subset
  <2> QED
    BY <2>3, <2>4, <2>5, <1>1
<1>4. ASSUME NEW k \in 1..n
      PROVE  InOrder(S)[k] = InOrder(T)[k]
  <2>1. \A b : b \in S /\ Cardinality({c \in S : c <= b}) = k
                 <=> b \in T /\ Cardinality({c \in T : c <= b}) = k
    <3> SUFFICES ASSUME NEW b
                 PROVE b \in S /\ Cardinality({c \in S : c <= b}) = k
                         <=> b \in T /\ Cardinality({c \in T : c <= b}) = k
      OBVIOUS
    <3>1. CASE b \in T
      <4>1. b \in S
        BY <3>1 DEF Upto
      <4> QED
        BY <4>1, <3>1, <1>2
    <3>2. CASE b \in S /\ b \notin T
      <4>1. Cardinality({c \in S : c <= b}) > n
        BY <3>2, <1>3
      <4>2. Cardinality({c \in S : c <= b}) # k
        <5>1. k \in Int /\ k <= n
          BY <1>1
        <5> HIDE DEF n
        <5> QED
          BY <4>1, <5>1, <1>1
      <4> QED
        BY <4>2, <3>2
    <3>3. CASE b \notin S
      BY <3>3 DEF Upto
    <3> QED
      BY <3>1, <3>2, <3>3
  <2>2. k \in 1..Cardinality(S) /\ k \in 1..Cardinality(T)
    BY <1>1
  <2> HIDE DEF T
  <2>3. InOrder(S)[k] = CHOOSE b \in S : Cardinality({c \in S : c <= b}) = k
    BY <2>2 DEF InOrder
  <2>4. InOrder(T)[k] = CHOOSE b \in T : Cardinality({c \in T : c <= b}) = k
    BY <2>2 DEF InOrder
  <2> QED
    BY <2>1, <2>3, <2>4, SamePlace
<1> QED
  BY <1>1, <1>4 DEF InOrder

LEMMA OneMore ==
  ASSUME NEW S \in SUBSET Nat, IsFiniteSet(S), NEW m \in Nat, \A c \in S : c < m
  PROVE  LET n == Cardinality(S)
             T == S \cup {m} IN
         /\ n \in Nat /\ DOMAIN InOrder(S) = 1..n
         /\ DOMAIN InOrder(T) = 1..(n + 1)
         /\ \A k \in 1..n : InOrder(T)[k] = InOrder(S)[k]
         /\ InOrder(T)[n + 1] = m
<1> DEFINE n == Cardinality(S)
           T == S \cup {m}
<1>1. n \in Nat /\ IsFiniteSet(T) /\ Cardinality(T) = n + 1
  BY FS_CardinalityType, FS_AddElement
<1>2. DOMAIN InOrder(S) = 1..n /\ DOMAIN InOrder(T) = 1..(n + 1)
  <2> HIDE DEF T
  <2> QED
    BY <1>1 DEF InOrder
<1>3. \A k \in 1..n : InOrder(T)[k] = InOrder(S)[k]
  <2>1. CASE m = 0
    <3>1. S = {}
      BY <2>1
    <3>2. n = 0
      BY <3>1, FS_EmptySet
    <3> QED
      BY <3>2
  <2>2. CASE m # 0
    <3>1. m - 1 \in Nat /\ S = Upto(T, m - 1)
      <4>1. m - 1 \in Nat /\ ~ (m <= m - 1)
        BY <2>2
      <4>2. \A c \in S : c <= m - 1
        OBVIOUS
      <4> QED
        BY <4>1, <4>2 DEF Upto
    <3>2. T \in SUBSET Nat
      OBVIOUS
    <3> QED
      BY <3>1, <3>2, <1>1, FirstOnes
  <2> QED
    BY <2>1, <2>2
<1>4. InOrder(T)[n + 1] = m
  <2>1. {c \in T : c <= m} = T
    <3>1. \A c \in T : c <= m
      OBVIOUS
    <3> HIDE DEF T
    <3> QED
      BY <3>1
  <2>2. ASSUME NEW b \in T, b # m PROVE Cardinality({c \in T : c <= b}) # n + 1
    <3>1. {c \in T : c <= b} \in SUBSET S
      <4>1. b < m /\ b \in Nat
        BY <2>2
      <4>2. ~ (m <= b)
        BY <4>1
      <4> QED
        BY <4>2
    <3>2. Cardinality({c \in T : c <= b}) <= n /\ Cardinality({c \in T : c <= b}) \in Nat
      BY <3>1, FS_Subset, FS_CardinalityType
    <3> HIDE DEF n
    <3> QED
      BY <3>2, <1>1
  <2>3. InOrder(T)[n + 1] = CHOOSE b \in T : Cardinality({c \in T : c <= b}) = n + 1
    <3>1. n + 1 \in 1..Cardinality(T)
      BY <1>1
    <3> HIDE DEF T, n
    <3> QED
      BY <3>1 DEF InOrder
  <2>4. m \in T /\ Cardinality({c \in T : c <= m}) = n + 1
    BY <2>1, <1>1
  <2> HIDE DEF T, n
  <2> QED
    BY <2>2, <2>3, <2>4
<1> QED
  BY <1>1, <1>2, <1>3, <1>4

(***************************************************************************)
(* The least and the largest of some numbers                               *)
(***************************************************************************)
Smaller == {ss \in Nat \X Nat : ss[1] < ss[2]}

LEMMA LeastNumber ==
  ASSUME NEW S \in SUBSET Nat, S # {}
  PROVE  \E n \in S : \A m \in S : n <= m
<1>1. IsWellFoundedOn(Smaller, Nat)
  BY NatLessThanWellFounded DEF Smaller, OpToRel
<1>2. PICK n \in S : \A m \in S : ~ (<<m, n>> \in Smaller)
  BY <1>1, WFMin
<1>3. ASSUME NEW m \in S PROVE n <= m
  <2>1. m \in Nat /\ n \in Nat
    OBVIOUS
  <2>2. ~ (m < n)
    <3> SUFFICES ASSUME m < n PROVE FALSE
      OBVIOUS
    <3>1. <<m, n>> \in Smaller
      BY <2>1 DEF Smaller
    <3> QED
      BY <3>1, <1>2
  <2> QED
    BY <2>1, <2>2
<1> QED
  BY <1>3

LEMMA MinIsLeast ==
  ASSUME NEW S \in SUBSET Nat, NEW n \in S, \A m \in S : n <= m
  PROVE  Min(S) = n
<1>1. ASSUME NEW k \in S, \A m \in S : k =< m PROVE k = n
  BY <1>1
<1> QED
  BY <1>1 DEF Min

LEMMA MaxIsLargest ==
  ASSUME NEW S \in SUBSET Nat, NEW n \in S, \A m \in S : m <= n
  PROVE  Max(S) = n
<1>1. ASSUME NEW k \in S, \A m \in S : k >= m PROVE k = n
  BY <1>1
<1> QED
  BY <1>1 DEF Max

LEMMA MaxOfBounded ==
  ASSUME NEW S \in SUBSET Nat, 0 \in S, NEW p \in Nat, \A m \in S : m <= p
  PROVE  Max(S) \in S
<1> DEFINE B == {n \in Nat : \A m \in S : m <= n}
<1>1. p \in B
  OBVIOUS
<1>2. PICK n \in B : \A k \in B : n <= k
  BY <1>1, LeastNumber
<1>3. n \in S
  <2> SUFFICES ASSUME n \notin S PROVE FALSE
    OBVIOUS
  <2>1. n # 0
    OBVIOUS
  <2>2. n - 1 \in B
    <3>1. n - 1 \in Nat
      BY <2>1
    <3>2. \A m \in S : m <= n - 1
      <4> TAKE m \in S
      <4>1. m \in Nat /\ m <= n /\ m # n
        BY <1>2
      <4> QED
        BY <4>1
    <3> QED
      BY <3>1, <3>2
  <2>3. n <= n - 1
    BY <2>2, <1>2
  <2> QED
    BY <2>3
<1> QED
  BY <1>2, <1>3, MaxIsLargest

(***************************************************************************)
(* The lines of a stream                                                   *)
(***************************************************************************)
IsEnd(c) == c \in {CR, LF}

LEMMA LineTo ==
  ASSUME NEW S, NEW s \in Seq(S), NEW b \in 1..Len(s), NEW i \in b..Len(s),
         IsEnd(s[i]), \A j \in b..(i - 1) : ~ IsEnd(s[j])
  PROVE  LineAt(s, b) = SubSeq(s, b, i - 1)
<1> DEFINE stops == {j \in b..Len(s) : s[j] \in {CR, LF}}
<1>1. stops \in SUBSET Nat /\ i \in stops
  BY DEF IsEnd
<1>2. \A m \in stops : i <= m
  <2> TAKE m \in stops
  <2>1. m \in b..Len(s) /\ IsEnd(s[m])
    BY DEF IsEnd
  <2> QED
    BY <2>1
<1>3. Min(stops) = i
  BY <1>1, <1>2, MinIsLeast
<1> QED
  BY <1>1, <1>3 DEF LineAt

LEMMA LineToEnd ==
  ASSUME NEW S, NEW s \in Seq(S), NEW b \in 1..Len(s),
         \A j \in b..Len(s) : ~ IsEnd(s[j])
  PROVE  LineAt(s, b) = SubSeq(s, b, Len(s))
<1>1. {j \in b..Len(s) : s[j] \in {CR, LF}} = {}
  BY DEF IsEnd
<1> QED
  BY <1>1 DEF LineAt

LEMMA BlankLine ==
  ASSUME NEW S, NEW s \in Seq(S), NEW b \in 1..Len(s)
  PROVE  /\ IsEnd(s[b]) => LineAt(s, b) = <<>>
         /\ ~ IsEnd(s[b]) => LineAt(s, b) # <<>> /\ LineAt(s, b)[1] = s[b]
<1>1. ASSUME IsEnd(s[b]) PROVE LineAt(s, b) = <<>>
  <2>1. LineAt(s, b) = SubSeq(s, b, b - 1)
    BY <1>1, LineTo
  <2> QED
    BY <2>1, SubSeqEmpty
<1>2. ASSUME ~ IsEnd(s[b]) PROVE LineAt(s, b) # <<>> /\ LineAt(s, b)[1] = s[b]
  <2>1. PICK e \in b..Len(s) : LineAt(s, b) = SubSeq(s, b, e)
    <3> DEFINE stops == {j \in b..Len(s) : IsEnd(s[j])}
    <3>1. CASE stops = {}
      BY <3>1, LineToEnd
    <3>2. CASE stops # {}
      <4>1. stops \in SUBSET Nat
        OBVIOUS
      <4>2. PICK i \in stops : \A m \in stops : i <= m
        BY <3>2, <4>1, LeastNumber
      <4>3. i # b /\ i \in b..Len(s) /\ IsEnd(s[i])
        BY <1>2
      <4>4. \A j \in b..(i - 1) : ~ IsEnd(s[j])
        <5> SUFFICES ASSUME NEW j \in b..(i - 1), IsEnd(s[j]) PROVE FALSE
          OBVIOUS
        <5>1. j \in stops /\ j < i
          BY <4>3
        <5> QED
          BY <5>1, <4>2
      <4>5. LineAt(s, b) = SubSeq(s, b, i - 1)
        BY <4>3, <4>4, LineTo
      <4>6. i - 1 \in b..Len(s)
        BY <4>3
      <4> QED
        BY <4>5, <4>6
    <3> QED
      BY <3>1, <3>2
  <2>2. \A j \in b..e : s[j] \in S
    OBVIOUS
  <2>3. /\ Len(SubSeq(s, b, e)) = (e - b) + 1
        /\ \A j \in 1..((e - b) + 1) : SubSeq(s, b, e)[j] = s[b + j - 1]
    BY <2>2, SubSeqProperties
  <2>4. SubSeq(s, b, e)[1] = s[b]
    BY <2>3
  <2>5. SubSeq(s, b, e) # <<>>
    BY <2>3
  <2> QED
    BY <2>1, <2>4, <2>5
<1> QED
  BY <1>1, <1>2


(***************************************************************************)
(* What has been read when p places of the stream have                     *)
(***************************************************************************)
Blanks(s, p) == Upto(Blank(s), p)
Where(s, p) == Max({0} \cup Blanks(s, p)) + 1
LinesOf(s, bs) == [k \in DOMAIN InOrder(bs) |-> LineAt(s, InOrder(bs)[k])]
EventsOf(s, es) == [k \in DOMAIN InOrder(es) |-> EventAt(s, InOrder(es)[k])]
DataTo(s, p) == LinesOf(s, FieldLines(s, DataPieces, Where(s, p), p))
TypeTo(s, p) == LastLine(s, FieldLines(s, {"event"}, Where(s, p), p))
IdTo(s, p) == LastLine(s, FieldLines(s, {"id"}, 1, p))
RetryTo(s, p) == LastLine(s, FieldLines(s, {"retry"}, Where(s, p), p))
Full(s) == {e \in Blank(s) : LET v == EventAt(s, e) IN v.data # <<>> \/ v.event # Unset}
EventsTo(s, p) == EventsOf(s, Upto(Full(s), p))

LEMMA Places ==
  ASSUME NEW S, NEW s \in Seq(S)
  PROVE  /\ Len(s) \in Nat
         /\ Begins(s) \in SUBSET (Nat \ {0}) /\ \A b \in Begins(s) : b # 1 => b <= Len(s)
         /\ Blank(s) \in SUBSET (1..(Len(s) + 1)) /\ Full(s) \in SUBSET Blank(s)
         /\ IsFiniteSet(Full(s))
         /\ \A b \in 1..Len(s) : b \in Blank(s) <=> b \in Begins(s) /\ IsEnd(s[b])
         /\ Len(s) + 1 \in Blank(s)
<1>1. /\ Len(s) \in Nat
      /\ Begins(s) \in SUBSET (Nat \ {0}) /\ \A b \in Begins(s) : b # 1 => b <= Len(s)
  BY DEF Begins
<1>2. Blank(s) \in SUBSET (1..(Len(s) + 1)) /\ Len(s) + 1 \in Blank(s)
  BY <1>1 DEF Blank
<1>3. Full(s) \in SUBSET Blank(s)
  BY DEF Full
<1>4. IsFiniteSet(Full(s))
  <2>1. IsFiniteSet(1..(Len(s) + 1))
    BY <1>1, FS_Interval
  <2>2. Full(s) \in SUBSET (1..(Len(s) + 1))
    BY <1>2, <1>3
  <2> QED
    BY <2>1, <2>2, FS_Subset
<1>5. ASSUME NEW b \in 1..Len(s)
      PROVE  b \in Blank(s) <=> b \in Begins(s) /\ IsEnd(s[b])
  <2>1. b <= Len(s) /\ b # Len(s) + 1
    BY <1>1
  <2>2. LineAt(s, b) = <<>> <=> IsEnd(s[b])
    BY BlankLine
  <2> QED
    BY <2>1, <2>2 DEF Blank
<1> QED
  BY <1>1, <1>2, <1>3, <1>4, <1>5

(* The lines of a field are those that begin with it.                      *)
LEMMA LinesOfField ==
  ASSUME NEW S, NEW s \in Seq(S), NEW F, CR \notin F, LF \notin F, NEW a \in Int, NEW p \in Int
  PROVE  /\ FieldLines(s, F, a, p)
              = {b \in Begins(s) : b \in 1..Len(s) /\ a <= b /\ b <= p /\ s[b] \in F}
         /\ FieldLines(s, F, a, p) \in SUBSET Nat
         /\ IsFiniteSet(FieldLines(s, F, a, p))
<1>1. ASSUME NEW b
      PROVE  b \in FieldLines(s, F, a, p)
               <=> b \in Begins(s) /\ b \in 1..Len(s) /\ a <= b /\ b <= p /\ s[b] \in F
  <2>1. CASE b \in Begins(s) /\ b <= Len(s)
    <3>1. b \in 1..Len(s)
      BY <2>1, Places
    <3>2. CASE IsEnd(s[b])
      <4>1. LineAt(s, b) = <<>> /\ s[b] \notin F
        BY <3>1, <3>2, BlankLine DEF IsEnd
      <4> QED
        BY <4>1 DEF FieldLines
    <3>3. CASE ~ IsEnd(s[b])
      <4>1. LineAt(s, b) # <<>> /\ LineAt(s, b)[1] = s[b]
        BY <3>1, <3>3, BlankLine
      <4>2. b \in a..p <=> a <= b /\ b <= p
        BY <3>1
      <4> QED
        BY <4>1, <4>2, <3>1, <2>1 DEF FieldLines
    <3> QED
      BY <3>2, <3>3
  <2>2. CASE b \notin Begins(s)
    BY <2>2 DEF FieldLines
  <2>3. CASE b \in Begins(s) /\ ~ (b <= Len(s))
    BY <2>3 DEF FieldLines
  <2> QED
    BY <2>1, <2>2, <2>3
<1>2. FieldLines(s, F, a, p) \in SUBSET (1..Len(s))
  BY <1>1
<1>3. IsFiniteSet(1..Len(s))
  BY FS_Interval
<1>4. IsFiniteSet(FieldLines(s, F, a, p))
  BY <1>2, <1>3, FS_Subset
<1>5. FieldLines(s, F, a, p) \in SUBSET Nat
  BY <1>2
<1>6. FieldLines(s, F, a, p)
        = {b \in Begins(s) : b \in 1..Len(s) /\ a <= b /\ b <= p /\ s[b] \in F}
  BY <1>1
<1> QED
  BY <1>4, <1>5, <1>6

LEMMA WhereType ==
  ASSUME NEW S, NEW s \in Seq(S), NEW p \in Nat
  PROVE  Where(s, p) \in 1..(p + 1)
<1> DEFINE B == {0} \cup Blanks(s, p)
<1>1. B \in SUBSET Nat /\ 0 \in B /\ \A m \in B : m <= p
  BY Places DEF Blanks, Upto
<1>2. Max(B) \in B
  BY <1>1, MaxOfBounded
<1>3. Max(B) \in Nat /\ Max(B) <= p
  BY <1>1, <1>2
<1> QED
  BY <1>3 DEF Where

LEMMA WhereBlank ==
  ASSUME NEW S, NEW s \in Seq(S), NEW p \in Nat, p \in Blank(s)
  PROVE  Where(s, p) = p + 1
<1> DEFINE B == {0} \cup Blanks(s, p)
<1>1. B \in SUBSET Nat /\ p \in B /\ \A m \in B : m <= p
  BY Places DEF Blanks, Upto
<1>2. Max(B) = p
  BY <1>1, MaxIsLargest
<1> QED
  BY <1>2 DEF Where

(* A function on the first places, and one that has one place more         *)
OnFirst(f, n) == DOMAIN f = 1..n /\ f = [k \in 1..n |-> f[k]]

LEMMA LenOnFirst ==
  ASSUME NEW n \in Nat, NEW f, OnFirst(f, n)
  PROVE  Len(f) = n /\ f \in Seq({f[k] : k \in 1..n})
<1> DEFINE S == {f[k] : k \in 1..n}
<1>1. f \in Seq(S)
  BY DEF OnFirst
<1>2. Len(f) \in Nat /\ DOMAIN f = 1..Len(f)
  BY <1>1, LenProperties
<1>3. 1..n = 1..Len(f)
  BY <1>2 DEF OnFirst
<1>4. PICK l \in Nat : l = Len(f)
  BY <1>2
<1>5. ~ (l < n) /\ ~ (n < l)
  <2>1. \A k \in Int : k \in 1..n <=> k \in 1..l
    BY <1>3, <1>4
  <2>2. ASSUME l < n PROVE FALSE
    BY <2>1, <2>2
  <2>3. ASSUME n < l PROVE FALSE
    BY <2>1, <2>3
  <2> QED
    BY <2>2, <2>3
<1> QED
  BY <1>1, <1>4, <1>5

LEMMA OneLonger ==
  ASSUME NEW n \in Nat, NEW f, NEW g, OnFirst(f, n), OnFirst(g, n + 1),
         \A k \in 1..n : g[k] = f[k]
  PROVE  g = Append(f, g[n + 1])
<1> DEFINE S == {f[k] : k \in 1..n}
           T == S \cup {g[n + 1]}
<1>1. f \in Seq(T)
  BY DEF OnFirst
<1>2. Len(f) = n
  BY LenOnFirst
<1>3. g \in Seq(T)
  <2>1. \A k \in 1..(n + 1) : g[k] \in T
    <3> TAKE k \in 1..(n + 1)
    <3>1. k \in 1..n \/ k = n + 1
      OBVIOUS
    <3> QED
      BY <3>1
  <2> HIDE DEF T
  <2> QED
    BY <2>1 DEF OnFirst
<1>4. Len(g) = n + 1
  <2>1. n + 1 \in Nat
    OBVIOUS
  <2> QED
    BY <2>1, LenOnFirst
<1> DEFINE h == Append(f, g[n + 1])
<1>5. /\ h \in Seq(T) /\ Len(h) = n + 1
      /\ \A k \in 1..n : h[k] = f[k]
      /\ h[n + 1] = g[n + 1]
  <2>1. g[n + 1] \in T
    OBVIOUS
  <2> HIDE DEF T
  <2> QED
    BY <1>1, <1>2, <2>1
<1>6. \A k \in 1..(n + 1) : g[k] = h[k]
  <2> TAKE k \in 1..(n + 1)
  <2>1. k \in 1..n \/ k = n + 1
    OBVIOUS
  <2> HIDE DEF h
  <2> QED
    BY <2>1, <1>5
<1>7. g = h
  <2>1. Len(g) = Len(h) /\ \A k \in 1..Len(g) : g[k] = h[k]
    BY <1>4, <1>5, <1>6
  <2> HIDE DEF h, T
  <2> QED
    BY <1>3, <1>5, <2>1, SeqEqual
<1> QED
  BY <1>7

(* One more line: what comes behind the last of some lines                 *)
LEMMA LinesGrow ==
  ASSUME NEW s, NEW bs \in SUBSET Nat, IsFiniteSet(bs), NEW b \in Nat, \A c \in bs : c < b
  PROVE  /\ LinesOf(s, bs \cup {b}) = Append(LinesOf(s, bs), LineAt(s, b))
         /\ EventsOf(s, bs \cup {b}) = Append(EventsOf(s, bs), EventAt(s, b))
         /\ LastLine(s, bs \cup {b}) = LineAt(s, b)
<1> DEFINE n == Cardinality(bs)
           at == InOrder(bs)
           more == InOrder(bs \cup {b})
<1>1. /\ n \in Nat /\ DOMAIN at = 1..n /\ DOMAIN more = 1..(n + 1)
      /\ \A k \in 1..n : more[k] = at[k]
      /\ more[n + 1] = b
  BY OneMore
<1>3. LinesOf(s, bs \cup {b}) = Append(LinesOf(s, bs), LineAt(s, b))
  <2> DEFINE f == LinesOf(s, bs)
             g == LinesOf(s, bs \cup {b})
  <2> HIDE DEF n
  <2>1. DOMAIN f = 1..n /\ \A k \in 1..n : f[k] = LineAt(s, at[k])
    BY <1>1 DEF LinesOf
  <2>2. DOMAIN g = 1..(n + 1) /\ \A k \in 1..(n + 1) : g[k] = LineAt(s, more[k])
    BY <1>1 DEF LinesOf
  <2>3. OnFirst(f, n) /\ OnFirst(g, n + 1)
    BY <1>1 DEF LinesOf, OnFirst
  <2>4. \A k \in 1..n : g[k] = f[k]
    <3> TAKE k \in 1..n
    <3>1. k \in 1..(n + 1)
      BY <1>1
    <3> QED
      BY <3>1, <2>1, <2>2, <1>1
  <2>5. g[n + 1] = LineAt(s, b)
    <3>1. n + 1 \in 1..(n + 1)
      BY <1>1
    <3> QED
      BY <3>1, <2>2, <1>1
  <2>6. g = Append(f, g[n + 1])
    <3> HIDE DEF f, g
    <3> QED
      BY <2>3, <2>4, <1>1, OneLonger
  <2> QED
    BY <2>5, <2>6
<1>4. EventsOf(s, bs \cup {b}) = Append(EventsOf(s, bs), EventAt(s, b))
  <2> DEFINE f == EventsOf(s, bs)
             g == EventsOf(s, bs \cup {b})
  <2> HIDE DEF n
  <2>1. DOMAIN f = 1..n /\ \A k \in 1..n : f[k] = EventAt(s, at[k])
    BY <1>1 DEF EventsOf
  <2>2. DOMAIN g = 1..(n + 1) /\ \A k \in 1..(n + 1) : g[k] = EventAt(s, more[k])
    BY <1>1 DEF EventsOf
  <2>3. OnFirst(f, n) /\ OnFirst(g, n + 1)
    BY <1>1 DEF EventsOf, OnFirst
  <2>4. \A k \in 1..n : g[k] = f[k]
    <3> TAKE k \in 1..n
    <3>1. k \in 1..(n + 1)
      BY <1>1
    <3> QED
      BY <3>1, <2>1, <2>2, <1>1
  <2>5. g[n + 1] = EventAt(s, b)
    <3>1. n + 1 \in 1..(n + 1)
      BY <1>1
    <3> QED
      BY <3>1, <2>2, <1>1
  <2>6. g = Append(f, g[n + 1])
    <3> HIDE DEF f, g
    <3> QED
      BY <2>3, <2>4, <1>1, OneLonger
  <2> QED
    BY <2>5, <2>6
<1>5. LastLine(s, bs \cup {b}) = LineAt(s, b)
  <2>1. \A m \in bs \cup {b} : m <= b
    OBVIOUS
  <2>2. Max(bs \cup {b}) = b
    BY <2>1, MaxIsLargest
  <2> QED
    BY <2>2 DEF LastLine
<1> QED
  BY <1>3, <1>4, <1>5

(* An event is what was read before the blank line that ends it.           *)
LEMMA EventIsWhatWasRead ==
  ASSUME NEW S, NEW s \in Seq(S), NEW e \in Blank(s)
  PROVE  EventAt(s, e) = Event(DataTo(s, e - 1), TypeTo(s, e - 1), IdTo(s, e - 1), RetryTo(s, e - 1))
<1> DEFINE from == Where(s, e - 1)
<1>1. e \in 1..(Len(s) + 1) /\ e - 1 \in Nat
  BY Places
<1>2. {b \in Blank(s) : b < e} = Blanks(s, e - 1)
  <2>1. \A b \in Blank(s) : b < e <=> b <= e - 1
    BY <1>1, Places
  <2> QED
    BY <2>1 DEF Blanks, Upto
<1>3. from \in Int
  BY <1>1, WhereType
<1>4. ASSUME NEW F, CR \notin F, LF \notin F, NEW a \in Int
      PROVE  FieldLines(s, F, a, e) = FieldLines(s, F, a, e - 1)
  <2>1. \A b \in Begins(s) : b \in 1..Len(s) /\ s[b] \in F => (b <= e <=> b <= e - 1)
    <3> TAKE b \in Begins(s)
    <3> HAVE b \in 1..Len(s) /\ s[b] \in F
    <3>1. b # e
      BY <1>4, Places DEF IsEnd
    <3> QED
      BY <3>1, <1>1
  <2>2. e \in Int /\ e - 1 \in Int
    BY <1>1
  <2>3. FieldLines(s, F, a, e)
          = {b \in Begins(s) : b \in 1..Len(s) /\ a <= b /\ b <= e /\ s[b] \in F}
    BY <2>2, <1>4, LinesOfField
  <2>4. FieldLines(s, F, a, e - 1)
          = {b \in Begins(s) : b \in 1..Len(s) /\ a <= b /\ b <= e - 1 /\ s[b] \in F}
    BY <2>2, <1>4, LinesOfField
  <2> QED
    BY <2>1, <2>3, <2>4
<1>5. CR \notin DataPieces /\ LF \notin DataPieces /\ 1 \in Int
  BY DEF DataPieces, CR, LF
<1>6. \A f \in {"event", "id", "retry"} : CR \notin {f} /\ LF \notin {f}
  BY DEF CR, LF
<1>7. /\ FieldLines(s, DataPieces, from, e) = FieldLines(s, DataPieces, from, e - 1)
      /\ FieldLines(s, {"event"}, from, e) = FieldLines(s, {"event"}, from, e - 1)
      /\ FieldLines(s, {"id"}, 1, e) = FieldLines(s, {"id"}, 1, e - 1)
      /\ FieldLines(s, {"retry"}, from, e) = FieldLines(s, {"retry"}, from, e - 1)
  BY <1>3, <1>4, <1>5, <1>6
<1>8. EventAt(s, e) =
        Event(LinesOf(s, FieldLines(s, DataPieces, from, e)),
              LastLine(s, FieldLines(s, {"event"}, from, e)),
              LastLine(s, FieldLines(s, {"id"}, 1, e)),
              LastLine(s, FieldLines(s, {"retry"}, from, e)))
  BY <1>2 DEF EventAt, Where, LinesOf
<1> QED
  BY <1>7, <1>8 DEF DataTo, TypeTo, IdTo, RetryTo

(* From p to q nothing begins but at p + 1.                                *)
OneLine(s, p, q) ==
  /\ p \in Nat /\ q \in (p + 1)..(Len(s) + 1)
  /\ p = Len(s) \/ (p + 1 \in Begins(s) /\ q <= Len(s))
  /\ \A b \in (p + 2)..q : b \notin Begins(s)

LEMMA NoBlankBetween ==
  ASSUME NEW S, NEW s \in Seq(S), NEW p, NEW q, OneLine(s, p, q)
  PROVE  \A b \in (p + 2)..q : b \notin Blank(s) /\ b \notin Full(s)
<1> SUFFICES ASSUME NEW b \in (p + 2)..q, b \in Blank(s) PROVE FALSE
  BY Places
<1>1. b \notin Begins(s)
  BY DEF OneLine
<1>2. b = Len(s) + 1
  BY <1>1 DEF Blank
<1>3. p \in Nat /\ q \in Nat /\ Len(s) \in Nat
  BY DEF OneLine
<1>4. q = Len(s) + 1
  BY <1>2, <1>3 DEF OneLine
<1>5. p = Len(s)
  BY <1>3, <1>4 DEF OneLine
<1> QED
  BY <1>2, <1>3, <1>5

(* A line that is not blank *)
LEMMA LineRead ==
  ASSUME NEW S, NEW s \in Seq(S), NEW p, NEW q, OneLine(s, p, q), p < Len(s), ~ IsEnd(s[p + 1])
  PROVE  LET line == LineAt(s, p + 1)
             field == s[p + 1] IN
         /\ DataTo(s, q) = IF field \in DataPieces THEN Append(DataTo(s, p), line) ELSE DataTo(s, p)
         /\ TypeTo(s, q) = IF field = "event" THEN line ELSE TypeTo(s, p)
         /\ IdTo(s, q) = IF field = "id" THEN line ELSE IdTo(s, p)
         /\ RetryTo(s, q) = IF field = "retry" THEN line ELSE RetryTo(s, p)
         /\ EventsTo(s, q) = EventsTo(s, p)
<1> DEFINE line == LineAt(s, p + 1)
           field == s[p + 1]
<1>1. /\ p \in Nat /\ q \in Nat /\ Len(s) \in Nat /\ p + 1 \in 1..Len(s) /\ p + 1 <= q
      /\ p + 1 \in Begins(s)
  BY DEF OneLine
<1>2. p + 1 \notin Blank(s) /\ p + 1 \notin Full(s)
  BY <1>1, Places
<1>3. \A b \in Blank(s) : b <= q <=> b <= p
  <2> TAKE b \in Blank(s)
  <2>1. b \in Int /\ b # p + 1 /\ b \notin (p + 2)..q
    BY <1>2, NoBlankBetween, Places
  <2> QED
    BY <2>1, <1>1
<1>4. Where(s, q) = Where(s, p) /\ Where(s, p) \in 1..(p + 1)
  <2>1. Blanks(s, q) = Blanks(s, p)
    BY <1>3 DEF Blanks, Upto
  <2> QED
    BY <2>1, <1>1, WhereType DEF Where
<1>5. EventsTo(s, q) = EventsTo(s, p)
  <2>1. Upto(Full(s), q) = Upto(Full(s), p)
    BY <1>3, Places DEF Upto
  <2> QED
    BY <2>1 DEF EventsTo
<1>6. ASSUME NEW F, CR \notin F, LF \notin F, NEW a \in 1..(p + 1)
      PROVE  /\ FieldLines(s, F, a, q) =
                  IF field \in F THEN FieldLines(s, F, a, p) \cup {p + 1} ELSE FieldLines(s, F, a, p)
             /\ FieldLines(s, F, a, p) \in SUBSET Nat
             /\ IsFiniteSet(FieldLines(s, F, a, p))
             /\ \A c \in FieldLines(s, F, a, p) : c < p + 1
  <2>1. a \in Int /\ p \in Int /\ q \in Int /\ a <= p + 1
    BY <1>1
  <2>2. /\ FieldLines(s, F, a, p)
             = {b \in Begins(s) : b \in 1..Len(s) /\ a <= b /\ b <= p /\ s[b] \in F}
        /\ FieldLines(s, F, a, p) \in SUBSET Nat
        /\ IsFiniteSet(FieldLines(s, F, a, p))
    BY <2>1, <1>6, LinesOfField
  <2>3. FieldLines(s, F, a, q)
             = {b \in Begins(s) : b \in 1..Len(s) /\ a <= b /\ b <= q /\ s[b] \in F}
    BY <2>1, <1>6, LinesOfField
  <2>4. \A b \in Begins(s) : b \in 1..Len(s) => (b <= q <=> b <= p \/ b = p + 1)
    <3> TAKE b \in Begins(s)
    <3> HAVE b \in 1..Len(s)
    <3>1. b \notin (p + 2)..q
      BY DEF OneLine
    <3> QED
      BY <3>1, <1>1
  <2>5. \A c \in FieldLines(s, F, a, p) : c < p + 1
    BY <2>2, <1>1
  <2>6. \A b : b \in FieldLines(s, F, a, q) <=>
                 b \in FieldLines(s, F, a, p) \/ (b = p + 1 /\ field \in F)
    BY <2>2, <2>3, <2>4, <2>1, <1>1
  <2> HIDE DEF field
  <2>7. FieldLines(s, F, a, q) =
          IF field \in F THEN FieldLines(s, F, a, p) \cup {p + 1} ELSE FieldLines(s, F, a, p)
    BY <2>6
  <2> QED
    BY <2>2, <2>5, <2>7
<1>7. CR \notin DataPieces /\ LF \notin DataPieces /\ 1 \in 1..(p + 1) /\ p + 1 \in Nat
  BY <1>1 DEF DataPieces, CR, LF
<1>8. \A f \in {"event", "id", "retry"} : CR \notin {f} /\ LF \notin {f}
  BY DEF CR, LF
<1> DEFINE from == Where(s, p)
<1>9. DataTo(s, q) = IF field \in DataPieces THEN Append(DataTo(s, p), line) ELSE DataTo(s, p)
  <2> DEFINE bs == FieldLines(s, DataPieces, from, p)
  <2>1. /\ FieldLines(s, DataPieces, from, q) = IF field \in DataPieces THEN bs \cup {p + 1} ELSE bs
        /\ bs \in SUBSET Nat /\ IsFiniteSet(bs) /\ \A c \in bs : c < p + 1
    BY <1>4, <1>6, <1>7
  <2>2. LinesOf(s, bs \cup {p + 1}) = Append(LinesOf(s, bs), line)
    BY <2>1, <1>7, LinesGrow
  <2>3. DataTo(s, p) = LinesOf(s, bs)
    BY DEF DataTo
  <2>4. DataTo(s, q) = LinesOf(s, FieldLines(s, DataPieces, from, q))
    BY <1>4 DEF DataTo
  <2> HIDE DEF bs, field, line, from
  <2> QED
    BY <2>1, <2>2, <2>3, <2>4
<1>10. ASSUME NEW f \in {"event", "id", "retry"}, NEW a \in 1..(p + 1)
       PROVE  LastLine(s, FieldLines(s, {f}, a, q)) =
                IF field = f THEN line ELSE LastLine(s, FieldLines(s, {f}, a, p))
  <2> DEFINE bs == FieldLines(s, {f}, a, p)
  <2>1. /\ FieldLines(s, {f}, a, q) = IF field \in {f} THEN bs \cup {p + 1} ELSE bs
        /\ bs \in SUBSET Nat /\ IsFiniteSet(bs) /\ \A c \in bs : c < p + 1
    BY <1>6, <1>8
  <2>2. LastLine(s, bs \cup {p + 1}) = line
    BY <2>1, <1>7, LinesGrow
  <2> HIDE DEF field, line
  <2> QED
    BY <2>1, <2>2
<1>11. TypeTo(s, q) = IF field = "event" THEN line ELSE TypeTo(s, p)
  BY <1>4, <1>10 DEF TypeTo
<1>12. IdTo(s, q) = IF field = "id" THEN line ELSE IdTo(s, p)
  BY <1>7, <1>10 DEF IdTo
<1>13. RetryTo(s, q) = IF field = "retry" THEN line ELSE RetryTo(s, p)
  BY <1>4, <1>10 DEF RetryTo
<1> QED
  BY <1>5, <1>9, <1>11, <1>12, <1>13

(* A blank line, or the end of the stream *)
LEMMA BlankRead ==
  ASSUME NEW S, NEW s \in Seq(S), NEW p, NEW q, OneLine(s, p, q), p + 1 \in Blank(s)
  PROVE  /\ DataTo(s, q) = <<>> /\ TypeTo(s, q) = Unset /\ RetryTo(s, q) = Unset
         /\ IdTo(s, q) = IdTo(s, p)
         /\ EventsTo(s, q) =
              IF DataTo(s, p) # <<>> \/ TypeTo(s, p) # Unset
              THEN Append(EventsTo(s, p), Event(DataTo(s, p), TypeTo(s, p), IdTo(s, p), RetryTo(s, p)))
              ELSE EventsTo(s, p)
<1>1. p \in Nat /\ q \in Nat /\ Len(s) \in Nat /\ p + 1 <= q /\ (p + 1) - 1 = p
  BY DEF OneLine
<1>2. \A b \in Blank(s) : b <= q <=> b <= p \/ b = p + 1
  <2> TAKE b \in Blank(s)
  <2>1. b \in Int /\ b \notin (p + 2)..q
    BY NoBlankBetween, Places
  <2> QED
    BY <2>1, <1>1
<1>3. Where(s, q) = p + 2
  <2> DEFINE B == {0} \cup Blanks(s, q)
  <2>1. B \in SUBSET Nat
    BY Places DEF Blanks, Upto
  <2>2. p + 1 \in B /\ \A m \in B : m <= p + 1
    BY <1>1, <1>2, Places DEF Blanks, Upto
  <2>3. Max(B) = p + 1
    BY <2>1, <2>2, MaxIsLargest
  <2> QED
    BY <2>3, <1>1 DEF Where
<1>4. \A b \in Begins(s) : ~ (p + 2 <= b /\ b <= q)
  <2> TAKE b \in Begins(s)
  <2>1. b \in Int /\ b \notin (p + 2)..q
    BY Places DEF OneLine
  <2> QED
    BY <2>1, <1>1
<1>5. CR \notin DataPieces /\ LF \notin DataPieces
  BY DEF DataPieces, CR, LF
<1>6. \A f \in {"event", "id", "retry"} : CR \notin {f} /\ LF \notin {f}
  BY DEF CR, LF
<1>7. ASSUME NEW F, CR \notin F, LF \notin F
      PROVE  FieldLines(s, F, p + 2, q) = {}
  <2>1. p + 2 \in Int /\ q \in Int
    BY <1>1
  <2> QED
    BY <2>1, <1>4, <1>7, LinesOfField
<1>8. DataTo(s, q) = <<>> /\ TypeTo(s, q) = Unset /\ RetryTo(s, q) = Unset
  <2>1. FieldLines(s, DataPieces, p + 2, q) = {}
    BY <1>5, <1>7
  <2>2. FieldLines(s, {"event"}, p + 2, q) = {} /\ FieldLines(s, {"retry"}, p + 2, q) = {}
    BY <1>6, <1>7
  <2>3. DOMAIN InOrder({}) = {}
    <3>1. Cardinality({}) = 0
      BY FS_EmptySet
    <3> QED
      BY <3>1 DEF InOrder
  <2>4. LinesOf(s, {}) = <<>>
    BY <2>3 DEF LinesOf
  <2>5. LastLine(s, {}) = Unset
    BY DEF LastLine
  <2> QED
    BY <2>1, <2>2, <2>4, <2>5, <1>3 DEF DataTo, TypeTo, RetryTo
<1>9. IdTo(s, q) = IdTo(s, p)
  <2>1. \A b \in Begins(s) : b \in 1..Len(s) /\ s[b] \in {"id"} => (b <= q <=> b <= p)
    <3> TAKE b \in Begins(s)
    <3> HAVE b \in 1..Len(s) /\ s[b] \in {"id"}
    <3>1. b # p + 1
      BY <1>6, Places DEF IsEnd
    <3>2. ~ (p + 2 <= b /\ b <= q)
      BY <1>4
    <3> QED
      BY <3>1, <3>2, <1>1
  <2>2. p \in Int /\ q \in Int /\ 1 \in Int
    BY <1>1
  <2>3. /\ FieldLines(s, {"id"}, 1, q)
             = {b \in Begins(s) : b \in 1..Len(s) /\ 1 <= b /\ b <= q /\ s[b] \in {"id"}}
        /\ FieldLines(s, {"id"}, 1, p)
             = {b \in Begins(s) : b \in 1..Len(s) /\ 1 <= b /\ b <= p /\ s[b] \in {"id"}}
    BY <2>2, <1>6, LinesOfField
  <2>4. FieldLines(s, {"id"}, 1, q) = FieldLines(s, {"id"}, 1, p)
    BY <2>1, <2>3
  <2> QED
    BY <2>4 DEF IdTo
<1>10. EventsTo(s, q) =
         IF DataTo(s, p) # <<>> \/ TypeTo(s, p) # Unset
         THEN Append(EventsTo(s, p), Event(DataTo(s, p), TypeTo(s, p), IdTo(s, p), RetryTo(s, p)))
         ELSE EventsTo(s, p)
  <2> DEFINE es == Upto(Full(s), p)
             ev == EventAt(s, p + 1)
  <2>1. ev = Event(DataTo(s, p), TypeTo(s, p), IdTo(s, p), RetryTo(s, p))
    BY <1>1, EventIsWhatWasRead
  <2>2. ev.data = DataTo(s, p) /\ ev.event = TypeTo(s, p)
    BY <2>1 DEF Event
  <2>3. p + 1 \in Full(s) <=> DataTo(s, p) # <<>> \/ TypeTo(s, p) # Unset
    BY <2>2 DEF Full
  <2>4. \A b : b \in Upto(Full(s), q) <=> b \in es \/ (b = p + 1 /\ p + 1 \in Full(s))
    BY <1>2, <1>1, Places DEF Upto
  <2>5. /\ es \in SUBSET Nat /\ p + 1 \in Nat /\ \A c \in es : c < p + 1
        /\ es \in SUBSET Full(s)
    BY <1>1, Places DEF Upto
  <2>6. IsFiniteSet(es)
    BY <2>5, Places, FS_Subset
  <2>7. EventsOf(s, es \cup {p + 1}) = Append(EventsOf(s, es), ev)
    BY <2>5, <2>6, LinesGrow
  <2>8. CASE p + 1 \in Full(s)
    <3>1. Upto(Full(s), q) = es \cup {p + 1}
      BY <2>4, <2>8
    <3> QED
      BY <3>1, <2>1, <2>3, <2>7, <2>8 DEF EventsTo
  <2>9. CASE p + 1 \notin Full(s)
    <3>1. Upto(Full(s), q) = es
      BY <2>4, <2>9
    <3> QED
      BY <3>1, <2>3, <2>9 DEF EventsTo
  <2> QED
    BY <2>8, <2>9
<1> QED
  BY <1>8, <1>9, <1>10

(***************************************************************************)
(* The buffer                                                              *)
(***************************************************************************)
LEMMA PartOfStream ==
  ASSUME NEW S, NEW s \in Seq(S), NEW p \in Nat, NEW r \in p..Len(s)
  PROVE  LET buf == SubSeq(s, p + 1, r) IN
         /\ buf \in Seq(S) /\ Len(buf) = r - p /\ DOMAIN buf = 1..(r - p)
         /\ \A i \in 1..(r - p) : buf[i] = s[p + i]
<1>1. p + 1 \in Int /\ r \in Int /\ (r - (p + 1)) + 1 = r - p
  OBVIOUS
<1>2. \A i \in (p + 1)..r : s[i] \in S
  OBVIOUS
<1> DEFINE buf == SubSeq(s, p + 1, r)
<1>3. /\ buf \in Seq(S)
      /\ Len(buf) = IF p + 1 <= r THEN (r - (p + 1)) + 1 ELSE 0
      /\ \A i \in 1..((r - (p + 1)) + 1) : buf[i] = s[(p + 1) + i - 1]
  BY <1>1, <1>2, SubSeqProperties
<1> HIDE DEF buf
<1>4. Len(buf) = r - p
  BY <1>3
<1>5. \A i \in 1..(r - p) : buf[i] = s[p + i]
  <2> TAKE i \in 1..(r - p)
  <2>1. i \in 1..((r - (p + 1)) + 1) /\ (p + 1) + i - 1 = p + i
    BY <1>1
  <2> QED
    BY <2>1, <1>3
<1>6. DOMAIN buf = 1..(r - p)
  BY <1>3, <1>4
<1> QED
  BY <1>3, <1>4, <1>5, <1>6 DEF buf

LEMMA LineTaken ==
  ASSUME NEW S, NEW s \in Seq(S), NEW p \in Nat, NEW r \in p..Len(s),
         p = Len(s) \/ p + 1 \in Begins(s),
         LineEnds(SubSeq(s, p + 1, r)) # {}
  PROVE  LET buf == SubSeq(s, p + 1, r)
             i == Min(LineEnds(buf)) IN
         /\ p < Len(s)
         /\ i = 1 => IsEnd(s[p + 1])
         /\ i # 1 => ~ IsEnd(s[p + 1]) /\ SubSeq(buf, 1, i - 1) = LineAt(s, p + 1)
         /\ \E q \in (p + 1)..r : /\ OneLine(s, p, q)
                                  /\ After(buf, i) = SubSeq(s, q + 1, r)
                                  /\ q = Len(s) \/ q + 1 \in Begins(s)
<1> DEFINE buf == SubSeq(s, p + 1, r)
           ends == LineEnds(buf)
           i == Min(ends)
           n == r - p
<1>1. /\ buf \in Seq(S) /\ Len(buf) = n /\ DOMAIN buf = 1..n
      /\ \A j \in 1..n : buf[j] = s[p + j]
      /\ n \in Nat /\ p + n = r /\ Len(s) \in Nat
  BY PartOfStream
<1>2. ends = {j \in 1..n : buf[j] = LF \/ (buf[j] = CR /\ j < n)}
  <2> HIDE DEF buf, n
  <2> QED
    BY <1>1 DEF LineEnds
<1> HIDE DEF buf, ends, n
<1>3. ends \in SUBSET Nat /\ ends # {}
  BY <1>2 DEF ends, buf
<1>4. PICK k \in ends : \A m \in ends : k <= m
  BY <1>3, LeastNumber
<1>5. i = k
  BY <1>3, <1>4, MinIsLeast
<1>6. /\ i \in 1..n /\ buf[i] = s[p + i]
      /\ buf[i] = LF \/ (buf[i] = CR /\ i < n)
      /\ \A m \in ends : i <= m
  BY <1>1, <1>2, <1>4, <1>5
<1> HIDE DEF i
<1>7. ASSUME NEW j \in 1..(i - 1) PROVE ~ IsEnd(s[p + j])
  <2>1. j \in 1..n /\ j < i /\ j < n
    BY <1>6, <1>1
  <2>2. j \notin ends
    BY <1>6, <2>1
  <2>3. buf[j] # LF /\ buf[j] # CR
    BY <2>1, <2>2, <1>2
  <2> QED
    BY <2>1, <2>3, <1>1 DEF IsEnd
<1>8. IsEnd(s[p + i])
  BY <1>6 DEF IsEnd
<1>9. p < Len(s) /\ p + 1 \in Begins(s) /\ p + i \in 1..Len(s) /\ p + i <= r
  BY <1>1, <1>6
<1>10. i = 1 => IsEnd(s[p + 1])
  BY <1>8
<1>11. ASSUME i # 1
       PROVE  ~ IsEnd(s[p + 1]) /\ SubSeq(buf, 1, i - 1) = LineAt(s, p + 1)
  <2>1. 1 \in 1..(i - 1)
    BY <1>6, <1>11, <1>1
  <2>2. ~ IsEnd(s[p + 1])
    BY <2>1, <1>7
  <2>3. \A j \in (p + 1)..(p + i - 1) : ~ IsEnd(s[j])
    <3> TAKE j \in (p + 1)..(p + i - 1)
    <3>1. j - p \in 1..(i - 1) /\ p + (j - p) = j
      BY <1>6, <1>1
    <3> QED
      BY <3>1, <1>7
  <2>4. p + 1 \in 1..Len(s) /\ p + i \in (p + 1)..Len(s) /\ (p + i) - 1 = p + i - 1
    BY <1>9, <1>6, <1>1
  <2>5. LineAt(s, p + 1) = SubSeq(s, p + 1, p + i - 1)
    BY <2>3, <2>4, <1>8, LineTo
  <2> DEFINE a == SubSeq(buf, 1, i - 1)
             b == SubSeq(s, p + 1, p + i - 1)
  <2>6. /\ b \in Seq(S) /\ Len(b) = i - 1
        /\ \A j \in 1..(i - 1) : b[j] = s[p + j]
    <3> DEFINE e == p + i - 1
    <3>1. e \in p..Len(s) /\ e - p = i - 1
      BY <1>9, <1>6, <1>1
    <3> HIDE DEF e
    <3>2. /\ SubSeq(s, p + 1, e) \in Seq(S) /\ Len(SubSeq(s, p + 1, e)) = e - p
          /\ \A j \in 1..(e - p) : SubSeq(s, p + 1, e)[j] = s[p + j]
      BY <3>1, PartOfStream
    <3> QED
      BY <3>1, <3>2 DEF e
  <2>7. /\ a \in Seq(S) /\ Len(a) = i - 1
        /\ \A j \in 1..(i - 1) : a[j] = buf[j]
    <3> DEFINE e == i - 1
    <3>1. e \in 0..Len(buf) /\ 0 \in Nat /\ e - 0 = e /\ 0 + 1 = 1
      BY <1>6, <1>1
    <3> HIDE DEF e
    <3>2. /\ SubSeq(buf, 0 + 1, e) \in Seq(S) /\ Len(SubSeq(buf, 0 + 1, e)) = e - 0
          /\ \A j \in 1..(e - 0) : SubSeq(buf, 0 + 1, e)[j] = buf[0 + j]
      BY <3>1, <1>1, PartOfStream
    <3>3. \A j \in 1..e : 0 + j = j
      OBVIOUS
    <3> QED
      BY <3>1, <3>2, <3>3 DEF e
  <2>8. \A j \in 1..(i - 1) : a[j] = b[j]
    <3> TAKE j \in 1..(i - 1)
    <3>1. j \in 1..n
      BY <1>6, <1>1
    <3> QED
      BY <3>1, <2>6, <2>7, <1>1
  <2>9. a = b
    <3> HIDE DEF a, b
    <3> QED
      BY <2>6, <2>7, <2>8, SeqEqual
  <2> QED
    BY <2>2, <2>5, <2>9
<1>12. ASSUME NEW j \in (p + 2)..(p + i) PROVE j \notin Begins(s)
  <2>1. /\ (j - 1) - p \in 1..(i - 1) /\ p + ((j - 1) - p) = j - 1
        /\ j # 1 /\ j \in Nat
    BY <1>6, <1>1
  <2>2. ~ IsEnd(s[j - 1])
    BY <2>1, <1>7
  <2> QED
    BY <2>1, <2>2 DEF Begins, IsEnd
<1>13. \E q \in (p + 1)..r : /\ OneLine(s, p, q)
                             /\ After(buf, i) = SubSeq(s, q + 1, r)
                             /\ q = Len(s) \/ q + 1 \in Begins(s)
  <2> DEFINE two == buf[i] = CR /\ i < n /\ buf[i + 1] = LF
             d == IF two THEN i + 1 ELSE i
             q == p + d
  <2>1. d \in 1..n /\ q \in (p + 1)..r /\ q <= Len(s) /\ q \in Nat
    BY <1>1, <1>6
  <2>2. After(buf, i) = SubSeq(buf, d + 1, n)
    BY <1>1, <1>6 DEF After
  <2>3. SubSeq(buf, d + 1, n) = SubSeq(s, q + 1, r)
    <3> HIDE DEF d
    <3>1. d \in Nat /\ n \in d..Len(buf) /\ r \in q..Len(s) /\ r - q = n - d
      BY <1>1, <2>1
    <3> DEFINE a == SubSeq(buf, d + 1, n)
               b == SubSeq(s, q + 1, r)
    <3>2. a \in Seq(S) /\ Len(a) = n - d /\ \A j \in 1..(n - d) : a[j] = buf[d + j]
      <4>1. buf \in Seq(S)
        BY <1>1
      <4> HIDE DEF n, q
      <4> QED
        BY <4>1, <3>1, PartOfStream
    <3>3. b \in Seq(S) /\ Len(b) = r - q /\ \A j \in 1..(r - q) : b[j] = s[q + j]
      <4> HIDE DEF q
      <4> QED
        BY <3>1, <2>1, PartOfStream
    <3>4. \A j \in 1..(n - d) : a[j] = b[j]
      <4> TAKE j \in 1..(n - d)
      <4>1. d + j \in 1..n /\ p + (d + j) = q + j /\ j \in 1..(r - q)
        BY <3>1, <2>1, <1>1
      <4> HIDE DEF a, b, q
      <4> QED
        BY <4>1, <3>2, <3>3, <1>1
    <3> HIDE DEF a, b
    <3>5. a = b
      BY <3>1, <3>2, <3>3, <3>4, SeqEqual
    <3> QED
      BY <3>5 DEF a, b
  <2>4. OneLine(s, p, q)
    <3>1. ASSUME NEW j \in (p + 2)..q PROVE j \notin Begins(s)
      <4>1. CASE j \in (p + 2)..(p + i)
        BY <4>1, <1>12
      <4>2. CASE j \notin (p + 2)..(p + i)
        <5>1. two /\ j = p + (i + 1)
          BY <4>2, <1>1, <1>6
        <5>2. i + 1 \in 1..n /\ j - 1 = p + i /\ j # 1
          BY <5>1, <1>1, <1>6
        <5>3. s[j] = LF /\ s[j - 1] = CR
          BY <5>1, <5>2, <1>1, <1>6
        <5> QED
          BY <5>2, <5>3 DEF Begins, CR, LF
      <4> QED
        BY <4>1, <4>2
    <3> HIDE DEF q
    <3> QED
      BY <3>1, <2>1, <1>9, <1>1 DEF OneLine
  <2>5. q = Len(s) \/ q + 1 \in Begins(s)
    <3> SUFFICES ASSUME q # Len(s) PROVE q + 1 \in Begins(s)
      OBVIOUS
    <3>1. q + 1 \in 2..Len(s) /\ (q + 1) - 1 = q
      BY <2>1, <1>1
    <3>2. s[q] = LF \/ (s[q] = CR /\ s[q + 1] # LF)
      <4>1. CASE two
        <5>1. i + 1 \in 1..n /\ q = p + (i + 1)
          BY <4>1, <1>1, <1>6
        <5> QED
          BY <5>1, <4>1, <1>1
      <4>2. CASE ~ two
        <5>1. q = p + i
          BY <4>2
        <5>2. CASE s[q] = LF
          BY <5>2
        <5>3. CASE s[q] # LF
          <6>1. buf[i] = CR /\ i < n
            BY <5>1, <5>3, <1>6
          <6>2. i + 1 \in 1..n /\ p + (i + 1) = q + 1
            BY <6>1, <5>1, <1>1, <1>6
          <6>3. buf[i + 1] # LF
            BY <6>1, <4>2
          <6> QED
            BY <6>1, <6>2, <6>3, <5>1, <1>1, <1>6
        <5> QED
          BY <5>2, <5>3
      <4> QED
        BY <4>1, <4>2
    <3> HIDE DEF q
    <3> QED
      BY <3>1, <3>2 DEF Begins
  <2> HIDE DEF q, d
  <2> QED
    BY <2>1, <2>2, <2>3, <2>4, <2>5
<1> QED
  BY <1>9, <1>10, <1>11, <1>13 DEF i, ends, buf

(* The last line, when no line end comes behind it                         *)
LEMMA LineLeft ==
  ASSUME NEW S, NEW s \in Seq(S), NEW p \in Nat, p <= Len(s),
         p = Len(s) \/ p + 1 \in Begins(s),
         SubSeq(s, p + 1, Len(s)) # <<>>, LineEnds(SubSeq(s, p + 1, Len(s))) = {},
         s[Len(s)] # CR
  PROVE  /\ p < Len(s) /\ ~ IsEnd(s[p + 1])
         /\ OneLine(s, p, Len(s))
         /\ SubSeq(s, p + 1, Len(s)) = LineAt(s, p + 1)
<1> DEFINE buf == SubSeq(s, p + 1, Len(s))
           n == Len(s) - p
<1>1. /\ Len(buf) = n /\ DOMAIN buf = 1..n /\ n \in Nat
      /\ \A j \in 1..n : buf[j] = s[p + j]
  BY PartOfStream
<1>2. n # 0
  <2> SUFFICES ASSUME n = 0 PROVE FALSE
    OBVIOUS
  <2>1. Len(s) < p + 1
    OBVIOUS
  <2> QED
    BY <2>1, SubSeqEmpty
<1>3. p < Len(s) /\ p + 1 \in 1..Len(s)
  BY <1>1, <1>2
<1>4. ASSUME NEW j \in (p + 1)..Len(s) PROVE ~ IsEnd(s[j])
  <2>1. j - p \in 1..n /\ p + (j - p) = j
    BY <1>3
  <2>2. buf[j - p] = s[j] /\ j - p \in DOMAIN buf
    BY <2>1, <1>1
  <2>3. j - p \notin LineEnds(buf)
    OBVIOUS
  <2>4. s[j] # LF
    <3> HIDE DEF buf
    <3> QED
      BY <2>2, <2>3 DEF LineEnds
  <2>5. ASSUME s[j] = CR PROVE FALSE
    <3>1. j # Len(s)
      BY <2>5
    <3>2. j - p < Len(buf)
      BY <3>1, <1>1, <1>3
    <3> HIDE DEF buf
    <3> QED
      BY <2>2, <2>3, <2>5, <3>2 DEF LineEnds
  <2> QED
    BY <2>4, <2>5 DEF IsEnd
<1>5. ASSUME NEW j \in (p + 2)..Len(s) PROVE j \notin Begins(s)
  <2>1. j - 1 \in (p + 1)..Len(s) /\ j # 1
    BY <1>3
  <2>2. ~ IsEnd(s[j - 1])
    BY <2>1, <1>4
  <2> QED
    BY <2>1, <2>2 DEF Begins, IsEnd
<1>6. OneLine(s, p, Len(s))
  BY <1>3, <1>5 DEF OneLine
<1>7. buf = LineAt(s, p + 1)
  BY <1>3, <1>4, LineToEnd
<1> QED
  BY <1>3, <1>4, <1>6, <1>7

(***************************************************************************)
(* The parser                                                              *)
(***************************************************************************)
Chars == Pieces \cup {CR, LF}

(* It has taken the stream up to p, and what it holds is what was read.    *)
TakenTo(p) ==
  /\ data = DataTo(input, p) /\ type = TypeTo(input, p)
  /\ lastId = IdTo(input, p) /\ retry = RetryTo(input, p)
  /\ data # <<>> \/ type # Unset => sawField
  /\ out = EventsTo(input, p)

(* The rest of what has arrived is in the buffer, and begins a line.       *)
ReadingAt(p) ==
  /\ ~ ended
  /\ p \in 0..Len(input) /\ read \in p..Len(input)
  /\ buffer = SubSeq(input, p + 1, read)
  /\ p = Len(input) \/ p + 1 \in Begins(input)

(* After flush no event is left, or the one that has no blank line.        *)
FlushedAt(p) ==
  ended /\ (p = Len(input) \/ (p = Len(input) + 1 /\ ~ sawField))

InStream == \E p : TakenTo(p) /\ (ReadingAt(p) \/ FlushedAt(p))

ParserInv ==
  /\ input \in Seq(Chars) /\ said = Events(input) /\ sawField \in BOOLEAN
  /\ ~ EndsInCR => InStream

LEMMA NothingRead ==
  ASSUME NEW S, NEW s \in Seq(S)
  PROVE  /\ DataTo(s, 0) = <<>> /\ TypeTo(s, 0) = Unset
         /\ IdTo(s, 0) = Unset /\ RetryTo(s, 0) = Unset
         /\ EventsTo(s, 0) = <<>>
<1>1. ASSUME NEW F, NEW a PROVE FieldLines(s, F, a, 0) = {}
  <2> SUFFICES ASSUME NEW b \in FieldLines(s, F, a, 0) PROVE FALSE
    OBVIOUS
  <2>1. b \in Begins(s) /\ b \in a..0
    BY DEF FieldLines
  <2>2. b \in Nat \ {0}
    BY <2>1, Places
  <2> QED
    BY <2>1, <2>2
<1>2. DOMAIN InOrder({}) = {}
  <2>1. Cardinality({}) = 0
    BY FS_EmptySet
  <2> QED
    BY <2>1 DEF InOrder
<1>3. LinesOf(s, {}) = <<>> /\ EventsOf(s, {}) = <<>> /\ LastLine(s, {}) = Unset
  BY <1>2 DEF LinesOf, EventsOf, LastLine
<1>4. Upto(Full(s), 0) = {}
  <2>1. \A e \in Full(s) : e \in Nat /\ ~ (e <= 0)
    BY Places
  <2> QED
    BY <2>1 DEF Upto
<1> QED
  BY <1>1, <1>3, <1>4 DEF DataTo, TypeTo, IdTo, RetryTo, EventsTo

LEMMA ParserStarts == ParserInit => ParserInv
<1> SUFFICES ASSUME ParserInit PROVE ParserInv
  OBVIOUS
<1>1. input \in Seq(Chars)
  BY DEF ParserInit, Streams, Chars
<1>2. TakenTo(0)
  BY <1>1, NothingRead DEF ParserInit, TakenTo
<1>3. ReadingAt(0)
  <2>1. Len(input) \in Nat /\ 1 \in Begins(input)
    BY <1>1 DEF Begins
  <2>2. SubSeq(input, 1, 0) = <<>>
    BY SubSeqEmpty
  <2> QED
    BY <2>1, <2>2 DEF ParserInit, ReadingAt
<1> QED
  BY <1>1, <1>2, <1>3 DEF ParserInv, InStream, ParserInit

(* A line that is not blank changes what is held as HandleLine does.       *)
LEMMA HandleReads ==
  ASSUME input \in Seq(Chars), NEW p, NEW q, TakenTo(p), sawField \in BOOLEAN,
         OneLine(input, p, q), p < Len(input), ~ IsEnd(input[p + 1]),
         HandleLine(LineAt(input, p + 1)), UNCHANGED <<input, out>>
  PROVE  TakenTo(q)' /\ sawField' \in BOOLEAN
<1> DEFINE line == LineAt(input, p + 1)
           field == input[p + 1]
<1>1. /\ DataTo(input, q) = IF field \in DataPieces THEN Append(DataTo(input, p), line) ELSE DataTo(input, p)
      /\ TypeTo(input, q) = IF field = "event" THEN line ELSE TypeTo(input, p)
      /\ IdTo(input, q) = IF field = "id" THEN line ELSE IdTo(input, p)
      /\ RetryTo(input, q) = IF field = "retry" THEN line ELSE RetryTo(input, p)
      /\ EventsTo(input, q) = EventsTo(input, p)
  BY LineRead
<1>2. line[1] = field
  <2>1. p + 1 \in 1..Len(input)
    BY DEF OneLine
  <2> QED
    BY <2>1, BlankLine
<1>3. /\ data' = IF field \in DataPieces THEN Append(data, line) ELSE data
      /\ type' = IF field = "event" THEN line ELSE type
      /\ lastId' = IF field = "id" THEN line ELSE lastId
      /\ retry' = IF field = "retry" THEN line ELSE retry
      /\ sawField' = (sawField \/ field # "comment")
  BY <1>2 DEF HandleLine
<1>4. /\ data' = DataTo(input, q) /\ type' = TypeTo(input, q)
      /\ lastId' = IdTo(input, q) /\ retry' = RetryTo(input, q)
      /\ out' = EventsTo(input, q)
  <2> HIDE DEF line, field
  <2> QED
    BY <1>1, <1>3 DEF TakenTo
<1>5. data' # <<>> \/ type' # Unset => sawField'
  <2>1. CASE field \in DataPieces \/ field = "event"
    <3>1. field # "comment"
      BY <2>1 DEF DataPieces
    <3> QED
      BY <3>1, <1>3
  <2>2. CASE ~ (field \in DataPieces \/ field = "event")
    <3>1. data' = data /\ type' = type
      BY <2>2, <1>3
    <3>2. data # <<>> \/ type # Unset => sawField
      BY DEF TakenTo
    <3> QED
      BY <3>1, <3>2, <1>3
  <2> QED
    BY <2>1, <2>2
<1>6. sawField' \in BOOLEAN
  BY <1>3
<1>7. input' = input
  OBVIOUS
<1> HIDE DEF line, field
<1> QED
  BY <1>4, <1>5, <1>6, <1>7 DEF TakenTo

(* A blank line does it as Dispatch does.                                  *)
LEMMA DispatchReads ==
  ASSUME input \in Seq(Chars), NEW p, NEW q, TakenTo(p),
         OneLine(input, p, q), p + 1 \in Blank(input), Dispatch, UNCHANGED input
  PROVE  TakenTo(q)' /\ ~ sawField' /\ sawField' \in BOOLEAN
<1>1. /\ DataTo(input, q) = <<>> /\ TypeTo(input, q) = Unset /\ RetryTo(input, q) = Unset
      /\ IdTo(input, q) = IdTo(input, p)
      /\ EventsTo(input, q) =
           IF DataTo(input, p) # <<>> \/ TypeTo(input, p) # Unset
           THEN Append(EventsTo(input, p),
                       Event(DataTo(input, p), TypeTo(input, p), IdTo(input, p), RetryTo(input, p)))
           ELSE EventsTo(input, p)
  BY BlankRead
<1>2. /\ data' = <<>> /\ type' = Unset /\ retry' = Unset /\ sawField' = FALSE /\ lastId' = lastId
      /\ out' = IF sawField /\ (data # <<>> \/ type # Unset)
                THEN Append(out, Event(data, type, lastId, retry)) ELSE out
  BY DEF Dispatch, ResetEvent
<1>3. out' = EventsTo(input, q)
  <2>1. CASE data # <<>> \/ type # Unset
    BY <2>1, <1>1, <1>2 DEF TakenTo
  <2>2. CASE ~ (data # <<>> \/ type # Unset)
    BY <2>2, <1>1, <1>2 DEF TakenTo
  <2> QED
    BY <2>1, <2>2
<1>4. input' = input
  OBVIOUS
<1> QED
  BY <1>1, <1>2, <1>3, <1>4 DEF TakenTo

LEMMA PushReads ==
  ASSUME ParserInv, InStream, Push
  PROVE  ParserInv'
<1>1. PICK p : TakenTo(p) /\ (ReadingAt(p) \/ FlushedAt(p))
  BY DEF InStream
<1>2. ~ ended /\ UNCHANGED <<input, said, data, type, lastId, retry, sawField, out, ended>>
  BY DEF Push
<1>3. ReadingAt(p)
  BY <1>1, <1>2 DEF FlushedAt
<1>4. PICK n \in 1..(Len(input) - read) :
        read' = read + n /\ buffer' = buffer \o SubSeq(input, read + 1, read + n)
  BY DEF Push
<1>5. input \in Seq(Chars) /\ Len(input) \in Nat
  BY DEF ParserInv
<1>6. /\ p \in Nat /\ read \in Nat /\ p <= read /\ n \in Nat /\ read + n \in p..Len(input)
      /\ read + n <= Len(input)
  BY <1>3, <1>4, <1>5 DEF ReadingAt
<1>7. buffer' = SubSeq(input, p + 1, read + n)
  <2> DEFINE m == p + 1
             e == read + n
  <2>1. m \in 1..(Len(input) + 1) /\ read \in (m - 1)..Len(input) /\ e \in read..Len(input)
    BY <1>6, <1>5
  <2>2. SubSeq(input, m, read) \o SubSeq(input, read + 1, e) = SubSeq(input, m, e)
    <3> HIDE DEF m, e
    <3> QED
      BY <2>1, <1>5, ConcatAdjacentSubSeq
  <2> QED
    BY <2>2, <1>3, <1>4 DEF ReadingAt
<1>8. ReadingAt(p)'
  BY <1>2, <1>3, <1>4, <1>6, <1>7 DEF ReadingAt
<1>9. TakenTo(p)'
  BY <1>1, <1>2 DEF TakenTo
<1>10. InStream'
  BY <1>8, <1>9 DEF InStream
<1> QED
  BY <1>2, <1>10 DEF ParserInv

LEMMA TakeLineReads ==
  ASSUME ParserInv, InStream, TakeLine
  PROVE  ParserInv'
<1>1. PICK p : TakenTo(p) /\ (ReadingAt(p) \/ FlushedAt(p))
  BY DEF InStream
<1>2. ~ ended /\ LineEnds(buffer) # {} /\ UNCHANGED <<input, said, read, ended>>
  BY DEF TakeLine
<1>3. ReadingAt(p)
  BY <1>1, <1>2 DEF FlushedAt
<1>4. /\ input \in Seq(Chars) /\ Len(input) \in Nat /\ sawField \in BOOLEAN /\ said = Events(input)
      /\ p \in Nat /\ read \in p..Len(input) /\ buffer = SubSeq(input, p + 1, read)
      /\ p = Len(input) \/ p + 1 \in Begins(input)
  BY <1>3 DEF ParserInv, ReadingAt
<1> DEFINE i == Min(LineEnds(buffer))
<1>5. /\ p < Len(input)
      /\ i = 1 => IsEnd(input[p + 1])
      /\ i # 1 => ~ IsEnd(input[p + 1]) /\ SubSeq(buffer, 1, i - 1) = LineAt(input, p + 1)
  BY <1>2, <1>4, LineTaken
<1>6. PICK q \in (p + 1)..read : /\ OneLine(input, p, q)
                                 /\ After(buffer, i) = SubSeq(input, q + 1, read)
                                 /\ q = Len(input) \/ q + 1 \in Begins(input)
  BY <1>2, <1>4, LineTaken
<1>7. buffer' = After(buffer, i)
  BY DEF TakeLine
<1>8. ReadingAt(q)'
  <2>1. q \in 0..Len(input) /\ read \in q..Len(input)
    BY <1>4, <1>6
  <2> HIDE DEF i
  <2> QED
    BY <2>1, <1>2, <1>6, <1>7 DEF ReadingAt
<1>9. TakenTo(q)' /\ sawField' \in BOOLEAN
  <2>1. CASE i = 1
    <3>1. Dispatch
      BY <2>1 DEF TakeLine
    <3>2. p + 1 \in 1..Len(input) /\ p + 1 \in Begins(input)
      BY <1>4, <1>5
    <3>3. p + 1 \in Blank(input)
      BY <3>2, <1>4, <1>5, <2>1, Places
    <3> QED
      BY <3>1, <3>3, <1>1, <1>2, <1>4, <1>6, DispatchReads
  <2>2. CASE i # 1
    <3>1. HandleLine(SubSeq(buffer, 1, i - 1)) /\ UNCHANGED out
      BY <2>2 DEF TakeLine
    <3>2. HandleLine(LineAt(input, p + 1))
      BY <3>1, <2>2, <1>5
    <3>3. ~ IsEnd(input[p + 1])
      BY <2>2, <1>5
    <3> HIDE DEF i
    <3> QED
      BY <3>1, <3>2, <3>3, <1>1, <1>2, <1>4, <1>5, <1>6, HandleReads
  <2> QED
    BY <2>1, <2>2
<1>10. InStream'
  BY <1>8, <1>9 DEF InStream
<1> QED
  BY <1>2, <1>4, <1>9, <1>10 DEF ParserInv

LEMMA FlushLineReads ==
  ASSUME ParserInv, InStream, ~ EndsInCR, FlushLine
  PROVE  ParserInv'
<1>1. PICK p : TakenTo(p) /\ (ReadingAt(p) \/ FlushedAt(p))
  BY DEF InStream
<1>2. /\ ~ ended /\ read = Len(input) /\ LineEnds(buffer) = {} /\ ended' = TRUE
      /\ UNCHANGED <<input, said, out>>
  BY DEF FlushLine
<1>3. ReadingAt(p)
  BY <1>1, <1>2 DEF FlushedAt
<1>4. /\ input \in Seq(Chars) /\ Len(input) \in Nat /\ sawField \in BOOLEAN /\ said = Events(input)
      /\ p \in Nat /\ p <= Len(input) /\ buffer = SubSeq(input, p + 1, Len(input))
      /\ p = Len(input) \/ p + 1 \in Begins(input)
  BY <1>2, <1>3 DEF ParserInv, ReadingAt
<1>5. CASE buffer = <<>>
  <2>1. UNCHANGED <<data, type, lastId, retry, sawField>>
    BY <1>5 DEF FlushLine
  <2>2. p = Len(input)
    <3>1. Len(buffer) = Len(input) - p
      BY <1>4, PartOfStream
    <3>2. Len(buffer) = 0
      BY <1>5
    <3> QED
      BY <3>1, <3>2, <1>4
  <2>3. TakenTo(p)' /\ FlushedAt(p)'
    BY <2>1, <2>2, <1>1, <1>2 DEF TakenTo, FlushedAt
  <2> QED
    BY <2>1, <2>3, <1>2, <1>4 DEF ParserInv, InStream
<1>6. CASE buffer # <<>>
  <2>1. HandleLine(buffer)
    BY <1>6 DEF FlushLine
  <2>2. input # <<>> /\ input[Len(input)] # CR
    <3>1. Len(buffer) = Len(input) - p /\ buffer \in Seq(Chars)
      BY <1>4, PartOfStream
    <3>2. Len(input) # 0
      BY <3>1, <1>4, <1>6
    <3>3. input # <<>>
      BY <3>2
    <3> QED
      BY <3>3 DEF EndsInCR
  <2>3. /\ p < Len(input) /\ ~ IsEnd(input[p + 1])
        /\ OneLine(input, p, Len(input))
        /\ buffer = LineAt(input, p + 1)
    BY <1>2, <1>4, <1>6, <2>2, LineLeft
  <2>4. HandleLine(LineAt(input, p + 1))
    BY <2>1, <2>3
  <2>5. TakenTo(Len(input))' /\ sawField' \in BOOLEAN
    <3> DEFINE q == Len(input)
    <3>1. OneLine(input, p, q) /\ p < Len(input)
      BY <2>3
    <3>2. q' = q
      BY <1>2
    <3>3. \A k : k = q => TakenTo(k)' /\ sawField' \in BOOLEAN
      <4> TAKE k
      <4> HAVE k = q
      <4>1. OneLine(input, p, k)
        BY <3>1
      <4> QED
        BY <4>1, <2>3, <2>4, <1>1, <1>2, <1>4, HandleReads
    <3> QED
      BY <3>2, <3>3 DEF TakenTo
  <2>6. FlushedAt(Len(input))'
    BY <1>2 DEF FlushedAt
  <2> QED
    BY <2>5, <2>6, <1>2, <1>4 DEF ParserInv, InStream
<1> QED
  BY <1>5, <1>6

LEMMA FlushEventReads ==
  ASSUME ParserInv, InStream, FlushEvent
  PROVE  ParserInv'
<1>1. PICK p : TakenTo(p) /\ (ReadingAt(p) \/ FlushedAt(p))
  BY DEF InStream
<1>2. ended /\ sawField /\ Dispatch /\ UNCHANGED <<input, said, read, buffer, ended>>
  BY DEF FlushEvent
<1>3. p = Len(input)
  BY <1>1, <1>2 DEF ReadingAt, FlushedAt
<1>4. input \in Seq(Chars) /\ Len(input) \in Nat /\ said = Events(input)
  BY DEF ParserInv
<1>5. PICK q : q = p + 1
  OBVIOUS
<1>6. OneLine(input, p, q) /\ p + 1 \in Blank(input)
  <2>1. \A b \in (p + 2)..q : FALSE
    BY <1>3, <1>4, <1>5
  <2> QED
    BY <2>1, <1>3, <1>4, <1>5, Places DEF OneLine
<1>7. TakenTo(q)' /\ ~ sawField' /\ sawField' \in BOOLEAN
  BY <1>1, <1>2, <1>4, <1>6, DispatchReads
<1>8. FlushedAt(q)'
  BY <1>2, <1>3, <1>5, <1>7 DEF FlushedAt
<1> QED
  BY <1>2, <1>4, <1>7, <1>8 DEF ParserInv, InStream

LEMMA ParserSteps == ParserInv /\ [AnswerNext]_answerVars => ParserInv'
<1> SUFFICES ASSUME ParserInv, [AnswerNext]_answerVars PROVE ParserInv'
  OBVIOUS
<1>1. CASE UNCHANGED parserVars
  BY <1>1 DEF parserVars, ParserInv, InStream, TakenTo, ReadingAt, FlushedAt, EndsInCR
<1>2. CASE Push \/ TakeLine \/ FlushLine \/ FlushEvent
  <2>1. UNCHANGED <<input, said>>
    BY <1>2 DEF Push, TakeLine, FlushLine, FlushEvent
  <2>2. CASE EndsInCR
    <3>1. sawField' \in BOOLEAN
      BY <1>2 DEF ParserInv, Push, TakeLine, FlushLine, FlushEvent, Dispatch, ResetEvent, HandleLine
    <3>2. EndsInCR'
      BY <2>1, <2>2 DEF EndsInCR
    <3> QED
      BY <2>1, <3>1, <3>2 DEF ParserInv
  <2>3. CASE ~ EndsInCR
    BY <1>2, <2>3, PushReads, TakeLineReads, FlushLineReads, FlushEventReads DEF ParserInv
  <2> QED
    BY <2>2, <2>3
<1>3. CASE AnswerNext
  BY <1>1, <1>2, <1>3
     DEF AnswerNext, Loop, Parse, Parses, Skip, Yield, Done, ErrorEvent, StreamOver, AskForMore,
         CallerStops, ReadFails, answerVars
<1> QED
  BY <1>1, <1>3 DEF answerVars

LEMMA FirstOfMore ==
  ASSUME NEW n \in Nat, NEW m \in Nat, n <= m, NEW f, NEW g, OnFirst(f, n), OnFirst(g, m),
         \A k \in 1..n : f[k] = g[k]
  PROVE  IsPrefixOf(f, g)
<1> DEFINE T == {g[k] : k \in 1..m}
           h == SubSeq(g, 1, n)
<1>1. g \in Seq(T) /\ Len(g) = m
  BY LenOnFirst
<1>2. f \in Seq(T) /\ Len(f) = n
  <2>1. \A k \in 1..n : f[k] \in T
    <3> TAKE k \in 1..n
    <3>1. k \in 1..m
      OBVIOUS
    <3> QED
      BY <3>1
  <2> DEFINE S == {f[k] : k \in 1..n}
  <2>2. S \subseteq T
    BY <2>1
  <2>3. f \in Seq(S)
    BY LenOnFirst
  <2>4. Len(f) = n
    BY LenOnFirst
  <2>5. f \in Seq(T)
    BY <2>2, <2>3, SeqMonotonic
  <2> QED
    BY <2>4, <2>5
<1> HIDE DEF T
<1>3. /\ h \in Seq(T) /\ Len(h) = n
      /\ \A k \in 1..n : h[k] = g[k]
  <2>1. n \in 0..Len(g) /\ 0 \in Nat /\ 0 + 1 = 1 /\ n - 0 = n /\ \A k \in 1..n : 0 + k = k
    BY <1>1
  <2>2. LET buf == SubSeq(g, 0 + 1, n) IN
        /\ buf \in Seq(T) /\ Len(buf) = n - 0
        /\ \A i \in 1..(n - 0) : buf[i] = g[0 + i]
    BY <2>1, <1>1, PartOfStream
  <2> QED
    BY <2>1, <2>2
<1>4. h = f
  <2> HIDE DEF h
  <2>1. Len(h) = Len(f) /\ \A k \in 1..Len(h) : h[k] = f[k]
    BY <1>2, <1>3
  <2> QED
    BY <2>1, <1>2, <1>3, SeqEqual
<1> QED
  BY <1>1, <1>2, <1>4 DEF IsPrefixOf

LEMMA EventsBegin ==
  ASSUME NEW S, NEW s \in Seq(S), NEW p \in Nat
  PROVE  IsPrefixOf(EventsTo(s, p), Events(s))
<1> DEFINE T == Upto(Full(s), p)
           n == Cardinality(T)
           m == Cardinality(Full(s))
           f == EventsTo(s, p)
           g == Events(s)
<1>1. Full(s) \in SUBSET Nat /\ IsFiniteSet(Full(s))
  BY Places
<1>2. /\ n \in Nat /\ m \in Nat /\ n <= m
      /\ DOMAIN InOrder(T) = 1..n
      /\ \A k \in 1..n : InOrder(Full(s))[k] = InOrder(T)[k]
  BY <1>1, FirstOnes
<1>3. DOMAIN InOrder(Full(s)) = 1..m
  BY DEF InOrder
<1> HIDE DEF n, m, T
<1>4. /\ f = [k \in 1..n |-> EventAt(s, InOrder(T)[k])]
      /\ g = [k \in 1..m |-> EventAt(s, InOrder(Full(s))[k])]
  BY <1>2, <1>3 DEF EventsTo, EventsOf, Events, Full, T
<1> HIDE DEF f, g
<1>5. OnFirst(f, n) /\ OnFirst(g, m)
  BY <1>4 DEF OnFirst
<1>6. \A k \in 1..n : f[k] = g[k]
  <2> TAKE k \in 1..n
  <2>1. k \in 1..m
    BY <1>2
  <2> QED
    BY <2>1, <1>2, <1>4
<1>7. IsPrefixOf(f, g)
  BY <1>2, <1>5, <1>6, FirstOfMore
<1> QED
  BY <1>7 DEF f, g

(* However a stream is cut, and however long it is, the events handed on   *)
(* are the first of those that the whole stream says (push, takeLine,      *)
(* handleLine, dispatch and flush of sse.ts).                              *)
THEOREM EventsKeepTheirOrder == AnswerSpec => []EventsInOrder
<1>1. ParserInv => EventsInOrder
  <2> SUFFICES ASSUME ParserInv, ~ EndsInCR PROVE IsPrefixOf(out, said)
    BY DEF EventsInOrder
  <2>1. PICK p : TakenTo(p) /\ (ReadingAt(p) \/ FlushedAt(p))
    BY DEF ParserInv, InStream
  <2>2. input \in Seq(Chars) /\ said = Events(input) /\ Len(input) \in Nat
    BY DEF ParserInv
  <2>3. p \in Nat
    BY <2>1, <2>2 DEF ReadingAt, FlushedAt
  <2>4. IsPrefixOf(EventsTo(input, p), Events(input))
    BY <2>2, <2>3, EventsBegin
  <2> QED
    BY <2>1, <2>2, <2>4 DEF TakenTo
<1>2. AnswerInit => ParserInv
  BY ParserStarts DEF AnswerInit
<1> QED
  BY <1>1, <1>2, ParserSteps, PTL DEF AnswerSpec
=============================================================================
