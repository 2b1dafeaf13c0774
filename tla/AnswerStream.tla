---------------------------- MODULE AnswerStream ----------------------------
(***************************************************************************)
(* One answer as the SDK hands it on (send of src/embed/src/client.ts over *)
(* parseSSEStream of src/embed/src/sse.ts): a chunk is read and parsed,    *)
(* its events are taken one by one, each delta is yielded to the caller,   *)
(* and the promise of the whole text is settled in the end.  The caller    *)
(* may stop after a delta, and a read may fail.                            *)
(***************************************************************************)
EXTENDS SSEParser

VARIABLES
  taken,   \* how many events of out the loop of send has had
  yielded, \* the deltas that the caller got, by the number of their events
  phase,   \* "reading", "over"; or "yield" while the caller has a delta
  text,    \* the promise: "pending", "resolved" with yielded, or "rejected"
  why      \* history: what ended the answer

streamVars == <<taken, yielded, phase, text, why>>
answerVars == <<parserVars, streamVars>>

AnswerInit ==
  /\ ParserInit
  /\ taken = 0 /\ yielded = <<>>
  /\ phase = "reading" /\ text = "pending" /\ why = ""

(* JSON.parse of the data: a single line that is one payload is an event   *)
(* of the broker; anything else, also two payloads in two lines or behind  *)
(* each other in one, is no JSON and is skipped, and so is no data at all. *)
Payload(ev) ==
  IF Len(ev.data) = 1 /\ Len(ev.data[1]) = 1 THEN ev.data[1][1] ELSE "data"

Ends(result, cause) ==
  /\ phase' = "over"
  /\ text' = result
  /\ why' = cause

(* parseSSEStream reads on when the events of the last chunk are taken.    *)
AllTaken == phase = "reading" /\ taken = Len(out)
Parses(A) == AllTaken /\ A /\ UNCHANGED streamVars

(* mutant: done is not looked for *)
DoneGoesOn ==
  /\ phase = "reading" /\ taken < Len(out)
  /\ Payload(out[taken + 1]) = "done"
  /\ taken' = taken + 1
  /\ UNCHANGED <<parserVars, yielded, phase, text, why>>

Skip ==
  /\ phase = "reading" /\ taken < Len(out)
  /\ Payload(out[taken + 1]) = "data"
  /\ taken' = taken + 1
  /\ UNCHANGED <<parserVars, yielded, phase, text, why>>

Yield ==
  /\ phase = "reading" /\ taken < Len(out)
  /\ Payload(out[taken + 1]) = "delta"
  /\ taken' = taken + 1
  /\ yielded' = Append(yielded, taken')
  /\ phase' = "yield"
  /\ UNCHANGED <<parserVars, text, why>>

(* The caller asks for more, or breaks its loop: then neither resolve nor  *)
(* reject is ever called.                                                  *)
AskForMore ==
  /\ phase = "yield"
  /\ phase' = "reading"
  /\ UNCHANGED <<parserVars, taken, yielded, text, why>>

CallerStops ==
  /\ phase = "yield"
  /\ Ends(text, "stopped")
  /\ UNCHANGED <<parserVars, taken, yielded>>

Done ==
  /\ phase = "reading" /\ taken < Len(out)
  /\ Payload(out[taken + 1]) = "done"
  /\ taken' = taken + 1
  /\ Ends("resolved", "done")
  /\ UNCHANGED <<parserVars, yielded>>

ErrorEvent ==
  /\ phase = "reading" /\ taken < Len(out)
  /\ Payload(out[taken + 1]) = "error"
  /\ taken' = taken + 1
  /\ Ends("rejected", "error")
  /\ UNCHANGED <<parserVars, yielded>>

(* The stream is over without done or error: that is an answer as well.    *)
StreamOver ==
  /\ AllTaken /\ Flushed
  /\ Ends("resolved", "over")
  /\ UNCHANGED <<parserVars, taken, yielded>>

(* The connection breaks while a chunk is awaited.                         *)
ReadFails ==
  /\ AllTaken /\ ~ ended /\ LineEnds(buffer) = {}
  /\ Ends("rejected", "read")
  /\ UNCHANGED <<parserVars, taken, yielded>>

Loop == Skip \/ Yield \/ Done \/ ErrorEvent \/ StreamOver
Parse == Parses(Push) \/ Parses(TakeLine) \/ Parses(FlushLine) \/ Parses(FlushEvent)

AnswerNext ==
  \/ Loop \/ Parse \/ AskForMore \/ CallerStops \/ ReadFails
  \/ phase = "over" /\ UNCHANGED answerVars

(* The network brings the rest of the stream or breaks, and a caller that  *)
(* has a delta goes on or stops.                                           *)
AnswerSpec == AnswerInit /\ [][AnswerNext]_answerVars
                   /\ WF_answerVars(Loop \/ Parse \/ AskForMore \/ CallerStops \/ ReadFails)

-----------------------------------------------------------------------------
(* What the whole stream answers: its deltas before the first done or      *)
(* error.  (A payload that is the JSON null would fail at client.ts:213;   *)
(* every event of the broker is an object.)                                *)

Says == [k \in DOMAIN said |-> Payload(said[k])]

Stops == {k \in DOMAIN said : Says[k] \in {"done", "error"}}
Deltas == InOrder({k \in DOMAIN said : Says[k] = "delta" /\ \A j \in Stops : k < j})
Rejects == Stops # {} /\ Says[Min(Stops)] = "error"

(* However the stream was cut, the caller gets the deltas that the broker  *)
(* sent, in order, and all of them if it does not stop early; the promise  *)
(* resolves to them when done or the end comes first, and is rejected when *)
(* an error does or the connection breaks.  Nothing behind done or error   *)
(* counts.                                                                 *)
AnswerAsSent ==
  <>[](/\ phase = "over"
       /\ EndsInCR \/
          /\ IsPrefixOf(yielded, Deltas)
          /\ why = "read" => text = "rejected"
          /\ why \in {"done", "error", "over"} =>
               yielded = Deltas /\ text = IF Rejects THEN "rejected" ELSE "resolved")
=============================================================================
