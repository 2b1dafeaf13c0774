---------------------------- MODULE ChatHistory -----------------------------
(***************************************************************************)
(* The conversation the broker remembers for a visitor: history.get and    *)
(* history.append, and the part of handleChat between them                 *)
(* (src/broker/internal/broker/chat.go).                                   *)
(*                                                                         *)
(* A turn reads the conversation when it starts and adds to it when its    *)
(* answer is over; in between other turns of the same visitor may do both. *)
(* The text of a message is the turn it belongs to.                        *)
(***************************************************************************)
EXTENDS Integers, Sequences

CONSTANTS
  Visitors,    \* embedID|visitorID
  Requests,    \* handlers that can be running at once
  Cap,         \* maxHistoryMessages
  MaxTurns     \* bound of the model: turns started

ASSUME HistoryAssumption ==
  /\ Visitors # {}
  /\ Cap \in Nat \ {0} /\ Cap % 2 = 0
  /\ MaxTurns \in Nat

VARIABLES
  msgs,      \* msgs[v]: the remembered messages
  pc,        \* pc[r]: the next step of handler r
  req,       \* req[r]: its variables
  turns,     \* turns started so far; their number names the next one
  finished,  \* history: finished[v], the turns appended, in order
  told       \* history: told[v], the turns whose last event was sent

vars == <<msgs, pc, req, turns, finished, told>>

(* The body has a message, or messages with or without one of the user     *)
Modes == {"message", "messages", "noUserMessage"}
Turn == [n : Nat, mode : Modes]
Message == [role : {"user", "assistant"}, turn : Turn]
Steps == {"idle", "check", "stream", "append", "reply"}
Locals == [visitor : Visitors, turn : Turn, sent : Seq(Message),
           answered : BOOLEAN, before : SUBSET Turn]

NoTurn == [n |-> 0, mode |-> "message"]
NoRequest == [visitor |-> CHOOSE v \in Visitors : TRUE, turn |-> NoTurn,
              sent |-> <<>>, answered |-> FALSE, before |-> {}]

Said(role, t) == [role |-> role, turn |-> t]

Init ==
  /\ msgs = [v \in Visitors |-> <<>>]
  /\ pc = [r \in Requests |-> "idle"]
  /\ req = [r \in Requests |-> NoRequest]
  /\ turns = 0
  /\ finished = [v \in Visitors |-> <<>>]
  /\ told = [v \in Visitors |-> {}]

(* A message is sent after a copy of the conversation; with messages the   *)
(* caller brings its own.                                                  *)
Begin(r, v, mode) ==
  LET t == [n |-> turns + 1, mode |-> mode] IN
  /\ pc[r] = "idle" /\ turns < MaxTurns
  /\ turns' = turns + 1
  /\ pc' = [pc EXCEPT ![r] = "check"]
  /\ req' = [req EXCEPT ![r] =
       [visitor |-> v, turn |-> t, answered |-> FALSE, before |-> told[v],
        sent |-> IF mode = "message" THEN Append(msgs[v], Said("user", t)) ELSE <<>>]]
  /\ UNCHANGED <<msgs, finished, told>>

(* The budgets and the resolver: a turn that is refused leaves no trace.   *)
Check(r) ==
  /\ pc[r] = "check"
  /\ pc' = [pc EXCEPT ![r] = "stream"] \/ pc' = [pc EXCEPT ![r] = "idle"]
  /\ UNCHANGED <<msgs, req, turns, finished, told>>

(* However it ended, an answer counts if any text of it came.              *)
Stream(r) ==
  /\ pc[r] = "stream"
  /\ pc' = [pc EXCEPT ![r] = "append"]
  /\ \E answered \in BOOLEAN : req' = [req EXCEPT ![r].answered = answered]
  /\ UNCHANGED <<msgs, turns, finished, told>>

(* mutant: an answer already over the cap is kept *)
TrimmedLate(s) == IF Len(s) > Cap + 1 THEN SubSeq(s, Len(s) - Cap, Len(s)) ELSE s

(* mutant: the oldest message goes alone *)
TrimmedByOne(s) == IF Len(s) > Cap THEN SubSeq(s, 2, Len(s)) ELSE s

Trimmed(s) == IF Len(s) > Cap THEN SubSeq(s, Len(s) - Cap + 1, Len(s)) ELSE s

(* mutant: what is stored is the conversation as this turn has read it *)
RememberedStale(r) ==
  LET t == req[r].turn IN
  IF t.mode = "message" THEN Append(req[r].sent, Said("assistant", t))
  ELSE msgs[req[r].visitor] \o <<Said("user", t), Said("assistant", t)>>

(* h.msgs[k] as it is now, and the two messages of this turn               *)
Remembered(r) ==
  msgs[req[r].visitor]
    \o <<Said("user", req[r].turn), Said("assistant", req[r].turn)>>

(* mutant: the last event is sent before the turn is remembered *)
ReplyFirst(r) ==
  /\ pc[r] = "append"
  /\ pc' = [pc EXCEPT ![r] = "reply"]
  /\ told' = [told EXCEPT ![req[r].visitor] = @ \cup {req[r].turn}]
  /\ UNCHANGED <<msgs, req, turns, finished>>

(* userText and assembled are not empty.  A caller's own messages have a   *)
(* userText too, if one of them is the user's, so those turns persist as   *)
(* well (the comment at chat.go:207 says that they do not).                *)
Persists(r) == req[r].turn.mode # "noUserMessage" /\ req[r].answered

Persist(r) ==
  /\ pc[r] = "append"
  /\ pc' = [pc EXCEPT ![r] = "reply"]
  /\ LET v == req[r].visitor IN
     IF Persists(r)
     THEN /\ msgs' = [msgs EXCEPT ![v] = Trimmed(Remembered(r))]
          /\ finished' = [finished EXCEPT ![v] = Append(@, req[r].turn)]
     ELSE UNCHANGED <<msgs, finished>>
  /\ UNCHANGED <<req, turns, told>>

(* done, or an error: the visitor may go on                                *)
Reply(r) ==
  /\ pc[r] = "reply"
  /\ pc' = [pc EXCEPT ![r] = "idle"]
  /\ told' = IF Persists(r)
             THEN [told EXCEPT ![req[r].visitor] = @ \cup {req[r].turn}] ELSE told
  /\ UNCHANGED <<msgs, req, turns, finished>>

(* The conversations are kept in memory.                                   *)
Restart ==
  /\ msgs' = [v \in Visitors |-> <<>>]
  /\ pc' = [r \in Requests |-> "idle"]
  /\ req' = [r \in Requests |-> NoRequest]
  /\ finished' = [v \in Visitors |-> <<>>]
  /\ told' = [v \in Visitors |-> {}]
  /\ UNCHANGED turns

Next ==
  \/ \E r \in Requests :
       \/ \E v \in Visitors, mode \in Modes : Begin(r, v, mode)
       \/ Check(r) \/ Stream(r) \/ Persist(r) \/ Reply(r)
  \/ Restart

Spec == Init /\ [][Next]_vars

-----------------------------------------------------------------------------

(* The variables have their types, and a conversation is never longer than *)
(* the cap.                                                                *)
HistoryTypeOK ==
  /\ msgs \in [Visitors -> Seq(Message)]
  /\ \A v \in Visitors : Len(msgs[v]) <= Cap
  /\ pc \in [Requests -> Steps]
  /\ req \in [Requests -> Locals]
  /\ turns \in Nat
  /\ finished \in [Visitors -> Seq(Turn)]
  /\ told \in [Visitors -> SUBSET Turn]

(* The messages of a sequence of turns, and the last ones the cap has room *)
(* for                                                                     *)
Messages(s) ==
  [i \in 1..2 * Len(s) |->
     Said(IF i % 2 = 1 THEN "user" ELSE "assistant", s[(i + 1) \div 2])]

Turns == Cap \div 2

Latest(s) == IF Len(s) > Turns THEN SubSeq(s, Len(s) - Turns + 1, Len(s)) ELSE s

(* The conversation is the last turns that finished, whole and in order:   *)
(* questions and answers stay paired however turns overlap, none that      *)
(* finished is overwritten by another that had read an older conversation, *)
(* and trimming never leaves an answer without its question.               *)
LastTurnsRemembered == \A v \in Visitors : msgs[v] = Messages(Latest(finished[v]))

Mentions(s, t) == \E i \in DOMAIN s : s[i].turn = t

(* A visitor who saw an answer end and then asks again is understood: the  *)
(* agent is sent every such turn, unless the cap has pushed it out.        *)
AnsweredTurnsSent ==
  \A r \in Requests :
    pc[r] # "idle" /\ req[r].turn.mode = "message" =>
      \A t \in req[r].before :
        Mentions(req[r].sent, t) \/ Len(req[r].sent) = Cap + 1
=============================================================================
