----------------------------- MODULE SSEParser ------------------------------
(***************************************************************************)
(* The parser of server-sent events (src/embed/src/sse.ts): a stream that  *)
(* the network cuts anywhere is cut again at its line ends, and lines      *)
(* become events at blank lines.                                           *)
(*                                                                         *)
(* The stream is a sequence of line ends (CR, LF) and of pieces of lines;  *)
(* a piece is named for the field it makes when a line begins with it, and *)
(* is a part of the value behind another.                                  *)
(***************************************************************************)
EXTENDS Integers, Sequences, FiniteSets, FiniteSetsExt

CONSTANTS
  Pieces,    \* some of DataPieces and of "event", "id", "retry", "other", "comment"
  MaxInput   \* bound of the model: the length of the stream

(* Pieces that are a data field: what the chat stream of the broker holds, *)
(* and a payload that is none of its events.                               *)
DataPieces == {"delta", "done", "error", "data"}

ASSUME SSEAssumption ==
  /\ Pieces \subseteq DataPieces \cup {"event", "id", "retry", "other", "comment"}
  /\ MaxInput \in Nat

VARIABLES
  input,   \* the stream
  said,    \* history: the events of the stream, read as a whole
  read,    \* how much of it has been pushed
  buffer,  \* text behind the last line end
  data,    \* dataLines
  type,    \* eventType, Unset for ''
  lastId,  \* Unset for undefined
  retry,   \* Unset for undefined
  sawField,
  out,     \* the events, in order
  ended    \* flush was called

parserVars == <<input, said, read, buffer, data, type, lastId, retry, sawField, out, ended>>

CR == "CR"
LF == "LF"
Unset == <<>>
Streams == UNION {[1..n -> Pieces \cup {CR, LF}] : n \in 0..MaxInput}

Event(d, t, i, r) == [data |-> d, event |-> t, id |-> i, retry |-> r]

-----------------------------------------------------------------------------
(* What the stream says, read as a whole                                   *)

(* Where its lines begin: a CR LF ends one line.                           *)
Begins(s) ==
  {1} \cup {i \in 2..Len(s) : s[i - 1] = LF \/ (s[i - 1] = CR /\ s[i] # LF)}

(* The line that begins at b *)
LineAt(s, b) ==
  LET stops == {i \in b..Len(s) : s[i] \in {CR, LF}} IN
  SubSeq(s, b, IF stops = {} THEN Len(s) ELSE Min(stops) - 1)

(* The beginnings of the blank lines, and the end of the stream            *)
Blank(s) == {b \in Begins(s) : b <= Len(s) /\ LineAt(s, b) = <<>>} \cup {Len(s) + 1}

(* The lines of a field among the ones that begin in from..to *)
FieldLines(s, fields, from, to) ==
  {b \in Begins(s) \cap (from..to) :
     b <= Len(s) /\ LineAt(s, b) # <<>> /\ LineAt(s, b)[1] \in fields}

LastLine(s, bs) == IF bs = {} THEN Unset ELSE LineAt(s, Max(bs))

InOrder(bs) == [k \in 1..Cardinality(bs) |-> CHOOSE b \in bs : Cardinality({c \in bs : c <= b}) = k]

(* The event that ends at blank line e *)
EventAt(s, e) ==
  LET from == Max({0} \cup {b \in Blank(s) : b < e}) + 1
      at == InOrder(FieldLines(s, DataPieces, from, e)) IN
  Event([k \in DOMAIN at |-> LineAt(s, at[k])],
        LastLine(s, FieldLines(s, {"event"}, from, e)),
        LastLine(s, FieldLines(s, {"id"}, 1, e)),
        LastLine(s, FieldLines(s, {"retry"}, from, e)))

Events(s) ==
  LET ends == {e \in Blank(s) : LET v == EventAt(s, e) IN v.data # <<>> \/ v.event # Unset}
      at == InOrder(ends) IN
  [k \in DOMAIN at |-> EventAt(s, at[k])]

-----------------------------------------------------------------------------
ParserInit ==
  /\ input \in Streams
  /\ said = Events(input)
  /\ read = 0
  /\ buffer = <<>>
  /\ data = <<>> /\ type = Unset /\ lastId = Unset /\ retry = Unset
  /\ sawField = FALSE
  /\ out = <<>>
  /\ ended = FALSE

(* mutant: a CR at the end of the buffer is a line end already *)
LineEndsEager(s) == {i \in DOMAIN s : s[i] \in {CR, LF}}

(* indexOfLineEnd: a CR that is last may be half of a CR LF.               *)
LineEnds(s) == {i \in DOMAIN s : s[i] = LF \/ (s[i] = CR /\ i < Len(s))}

(* takeLine *)
After(s, i) ==
  SubSeq(s, IF s[i] = CR /\ i < Len(s) /\ s[i + 1] = LF THEN i + 2 ELSE i + 1, Len(s))

(* handleLine; a line that begins with a line end or other text is of a    *)
(* field that is not known.                                                *)
HandleLine(line) ==
  LET field == line[1] IN
  /\ sawField' = (sawField \/ field # "comment")
  /\ data' = IF field \in DataPieces THEN Append(data, line) ELSE data
  /\ type' = IF field = "event" THEN line ELSE type
  /\ lastId' = IF field = "id" THEN line ELSE lastId
  /\ retry' = IF field = "retry" THEN line ELSE retry

ResetEvent ==
  /\ data' = <<>> /\ type' = Unset /\ retry' = Unset /\ sawField' = FALSE
  /\ UNCHANGED lastId

Dispatch ==
  /\ out' = IF sawField /\ (data # <<>> \/ type # Unset)
            THEN Append(out, Event(data, type, lastId, retry)) ELSE out
  /\ ResetEvent

(* A chunk arrives, when push has taken all lines of the one before. *)
Push ==
  /\ ~ ended /\ LineEnds(buffer) = {}
  /\ \E n \in 1..(Len(input) - read) :
       /\ read' = read + n
       /\ buffer' = buffer \o SubSeq(input, read + 1, read + n)
  /\ UNCHANGED <<input, said, data, type, lastId, retry, sawField, out, ended>>

(* The loop of push: one line of the buffer *)
TakeLine ==
  /\ ~ ended /\ LineEnds(buffer) # {}
  /\ LET i == Min(LineEnds(buffer)) IN
     /\ buffer' = After(buffer, i)
     /\ IF i = 1 THEN Dispatch ELSE HandleLine(SubSeq(buffer, 1, i - 1)) /\ UNCHANGED out
  /\ UNCHANGED <<input, said, read, ended>>

(* flush, its leftover line and its last dispatch *)
FlushLine ==
  /\ ~ ended /\ read = Len(input) /\ LineEnds(buffer) = {}
  /\ ended' = TRUE
  /\ buffer' = <<>>
  /\ IF buffer # <<>> THEN HandleLine(buffer)
     ELSE UNCHANGED <<data, type, lastId, retry, sawField>>
  /\ UNCHANGED <<input, said, read, out>>

FlushEvent ==
  /\ ended /\ sawField
  /\ Dispatch
  /\ UNCHANGED <<input, said, read, buffer, ended>>

Flushed == ended /\ ~ sawField

-----------------------------------------------------------------------------

IsPrefixOf(s, t) == Len(s) <= Len(t) /\ SubSeq(t, 1, Len(s)) = s

(* A CR at the very end waits for the next character, which never comes,   *)
(* and is left in the value of its line (sse.ts:71).                       *)
EndsInCR == input # <<>> /\ input[Len(input)] = CR

(* However the stream was cut, the events so far are the first of the ones *)
(* that the whole stream says: none is split, merged, repeated or early.   *)
EventsInOrder ==
  ~ EndsInCR => IsPrefixOf(out, said)
=============================================================================
