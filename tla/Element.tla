------------------------------ MODULE Element -------------------------------
(***************************************************************************)
(* The state and the handlers of the chat widget                           *)
(* (src/embed/src/clankstack-agent.ts): its list of bubbles, its busy flag *)
(* and the handle that aborts a stream, while the turns of sendMessage,    *)
(* the calls of ensureConfig that open and reset make, and the removal of  *)
(* the element from the page interleave at the awaits.  The SDK below it   *)
(* is Client: a call of ensureSession succeeds or fails, a stream brings   *)
(* deltas and then ends or fails.  Widget adds what is on the page.        *)
(***************************************************************************)
EXTENDS Integers, Sequences, FiniteSets, SequencesExt

CONSTANTS
  Turns,      \* texts, each for one call of sendMessage
  HostTexts,  \* the ones that the host page sends; a visitor writes the others
  Opens,      \* calls of open, each with its ensureConfig
  Resets,     \* calls of reset, each with its ensureConfig
  MaxDeltas,  \* bound of the model: deltas of one stream
  MaxErrors   \* bound of the model: error bubbles in the list

None == "none"
Calls == Turns \cup Opens \cup Resets

ASSUME ElementAssumption ==
  /\ None \notin Calls
  /\ Turns \cap (Opens \cup Resets) = {}
  /\ MaxDeltas \in Nat

VARIABLES
  messages,     \* the bubbles
  streaming,    \* the busy flag: the input is disabled
  abortStream,  \* the turn whose stream the handle aborts, or None
  sessionConfig,\* TRUE when it is not null
  open_,
  ready,        \* there is a client
  resolvedTitle,
  draft,        \* the text in the input, or None
  pc,           \* pc[c]: where the call is
  aborted,      \* aborted[t], content[t]: variables of sendMessage
  content,      \* how many deltas the answer has so far
  cleared       \* history: the turns that were shown when reset was called

(* What the page and the visitor see of it, besides the bubbles *)
shell == <<open_, ready, resolvedTitle, draft>>

elementVars == <<messages, streaming, abortStream, sessionConfig, open_, ready,
                 resolvedTitle, draft, pc, aborted, content, cleared>>

(* The bubbles, each with the call that made it; a call makes at most one  *)
(* of each kind, so that kind and call stand for the id.  streaming is     *)
(* TRUE while the bubble shows typing or grows.                            *)
Bubbles == [kind : {"greeting", "user", "assistant", "noConfig", "failure"},
            of : Calls, content : 0..MaxDeltas, streaming : BOOLEAN]

Bubble(kind, c) == [kind |-> kind, of |-> c, content |-> 0, streaming |-> kind = "assistant"]

Key(b) == <<b.kind, b.of>>

ErrorsIn(ms) == Cardinality({i \in DOMAIN ms : ms[i].kind \in {"noConfig", "failure"}})

Answers(b, t) == Key(b) = <<"assistant", t>>

(* A host that gives the element no title and no greeting of its own       *)
ElementInit ==
  /\ messages = <<>>
  /\ streaming = FALSE
  /\ abortStream = None
  /\ sessionConfig = FALSE
  /\ open_ = FALSE
  /\ ready = FALSE
  /\ resolvedTitle = ""
  /\ draft = None
  /\ pc = [c \in Calls |-> "new"]
  /\ aborted = [t \in Turns |-> FALSE]
  /\ content = [t \in Turns |-> 0]
  /\ cleared = {}

GoTo(c, step) == pc' = [pc EXCEPT ![c] = step]

AfterConfig(c) == IF c \in Turns THEN "ready" ELSE "over"

(* bootstrap, with a publishable key: sessionConfig stays as it is.        *)
Bootstrap ==
  /\ ready' = TRUE
  /\ resolvedTitle' = "Assistant"

(* ensureConfig, up to its await: nothing to do without a client           *)
EnsureConfig(c, has) ==
  GoTo(c, IF ready /\ ~ has THEN "config" ELSE AfterConfig(c))

(* mutant: the greeting is put in place whatever is there *)
SeededAnyway(c) == <<Bubble("greeting", c)>>

(* seedGreeting, for an embed that has one *)
Seeded(c) == IF messages = <<>> THEN <<Bubble("greeting", c)>> ELSE messages

(* The rest of ensureConfig, for an embed that has a title                 *)
Configured(c) ==
  /\ pc[c] = "config"
  /\ \/ messages' = Seeded(c) /\ sessionConfig' = TRUE /\ resolvedTitle' = "broker"
     \/ /\ ErrorsIn(messages) < MaxErrors
        /\ messages' = Append(messages, Bubble("noConfig", c))
        /\ UNCHANGED <<sessionConfig, resolvedTitle>>
  /\ GoTo(c, AfterConfig(c))
  /\ UNCHANGED <<streaming, abortStream, open_, ready, draft, aborted, content, cleared>>

-----------------------------------------------------------------------------
(* sendMessage *)

(* The flag is looked at here, and set when the config is there.  A text   *)
(* that comes while it is set, or before there is a client, is dropped.    *)
SendMessage(t) ==
  IF streaming \/ ~ ready THEN UNCHANGED pc ELSE EnsureConfig(t, sessionConfig)

(* A call of the host page *)
Send(t) ==
  /\ t \in HostTexts /\ pc[t] = "new"
  /\ SendMessage(t)
  /\ UNCHANGED <<messages, streaming, abortStream, sessionConfig, shell, aborted, content, cleared>>

(* onInput, and submit: by the button or the Enter key                     *)
Input(t) ==
  /\ t \notin HostTexts /\ pc[t] = "new"
  /\ draft' = t
  /\ UNCHANGED <<messages, streaming, abortStream, sessionConfig, open_, ready,
                 resolvedTitle, pc, aborted, content, cleared>>

Submit ==
  /\ draft # None /\ ~ streaming
  /\ draft' = None
  /\ SendMessage(draft)
  /\ UNCHANGED <<messages, streaming, abortStream, sessionConfig, open_, ready,
                 resolvedTitle, aborted, content, cleared>>

Begin(t) ==
  /\ pc[t] = "ready"
  /\ messages' = messages \o <<Bubble("user", t), Bubble("assistant", t)>>
  /\ streaming' = TRUE
  /\ abortStream' = t
  /\ GoTo(t, "stream")
  /\ UNCHANGED <<sessionConfig, shell, aborted, content,
                 cleared>>

(* mutant: a bubble that is gone is put back *)
BumpOrAdd(t, b) ==
  IF \E i \in DOMAIN messages : Answers(messages[i], t)
  THEN [i \in DOMAIN messages |-> IF Answers(messages[i], t) THEN b ELSE messages[i]]
  ELSE Append(messages, b)

(* bumpMessage: by the id of the bubble, which may be gone                 *)
Bump(t, b) ==
  [i \in DOMAIN messages |-> IF Answers(messages[i], t) THEN b ELSE messages[i]]

(* mutant: the handle stays *)
FinallyKeepsHandle(t) ==
  /\ streaming' = FALSE
  /\ GoTo(t, "over")
  /\ UNCHANGED <<abortStream, sessionConfig, shell, aborted,
                 cleared>>

(* finally: flag and handle are cleared, whatever stream they are of by now *)
Finally(t) ==
  /\ streaming' = FALSE
  /\ abortStream' = None
  /\ GoTo(t, "over")
  /\ UNCHANGED <<sessionConfig, shell, aborted, cleared>>

(* A delta; one that comes after the abort ends the loop.                  *)
Delta(t) ==
  /\ pc[t] = "stream"
  /\ ~ aborted[t]
  /\ content[t] < MaxDeltas
  /\ content' = [content EXCEPT ![t] = @ + 1]
  /\ messages' = Bump(t, [Bubble("assistant", t) EXCEPT !.content = content'[t]])
  /\ UNCHANGED <<streaming, abortStream, sessionConfig, shell, pc, aborted, cleared>>

DeltaAfterAbort(t) ==
  /\ pc[t] = "stream"
  /\ aborted[t]
  /\ Finally(t)
  /\ UNCHANGED <<messages, content>>

StreamEnds(t) ==
  /\ pc[t] = "stream"
  /\ messages' = IF aborted[t] THEN messages
                 ELSE Bump(t, [Bubble("assistant", t) EXCEPT
                                 !.content = content[t], !.streaming = FALSE])
  /\ Finally(t)
  /\ UNCHANGED content

(* No two bubbles have the same id.                                        *)
WithoutAnswer(t) == RemoveFirstMatch(messages, LAMBDA b : Answers(b, t))

(* catch, also of a stream that was aborted: an error takes its place.     *)
StreamFails(t) ==
  /\ pc[t] = "stream"
  /\ ErrorsIn(messages) < MaxErrors
  /\ messages' = Append(WithoutAnswer(t), Bubble("failure", t))
  /\ Finally(t)
  /\ UNCHANGED content

-----------------------------------------------------------------------------
(* open, close, reset, and the page *)

Aborting == [t \in Turns |-> aborted[t] \/ t = abortStream]

Open(p) ==
  /\ pc[p] = "new"
  /\ ~ open_
  /\ open_' = TRUE
  /\ EnsureConfig(p, sessionConfig)
  /\ UNCHANGED <<messages, streaming, abortStream, sessionConfig, ready, resolvedTitle,
                 draft, aborted, content, cleared>>

Close ==
  /\ open_
  /\ open_' = FALSE
  /\ UNCHANGED <<messages, streaming, abortStream, sessionConfig, ready, resolvedTitle,
                 draft, pc, aborted, content, cleared>>

Reset(p) ==
  /\ pc[p] = "new"
  /\ aborted' = Aborting
  /\ streaming' = FALSE
  /\ messages' = <<>>
  /\ sessionConfig' = FALSE
  /\ EnsureConfig(p, FALSE)
  /\ cleared' = cleared \cup {t \in Turns : pc[t] \in {"stream", "over"}}
  /\ UNCHANGED <<abortStream, shell, content>>

(* disconnectedCallback; the element may be put back elsewhere.            *)
Disconnected ==
  /\ aborted' = Aborting
  /\ UNCHANGED <<messages, streaming, abortStream, sessionConfig, shell, pc, content, cleared>>

StreamStep(t) == Delta(t) \/ DeltaAfterAbort(t) \/ StreamEnds(t) \/ StreamFails(t)

-----------------------------------------------------------------------------

(* The variables have their types, and the handle is the one of a stream   *)
(* that is running: reset and removal abort nothing that is over.          *)
ElementTypeOK ==
  /\ messages \in Seq(Bubbles)
  /\ streaming \in BOOLEAN /\ sessionConfig \in BOOLEAN /\ open_ \in BOOLEAN
  /\ ready \in BOOLEAN
  /\ resolvedTitle \in {"", "Assistant", "broker"}
  /\ draft \in Turns \cup {None}
  /\ pc \in [Calls -> {"new", "config", "ready", "stream", "over"}]
  /\ aborted \in [Turns -> BOOLEAN]
  /\ content \in [Turns -> 0..MaxDeltas]
  /\ cleared \subseteq Turns
  /\ abortStream # None => pc[abortStream] = "stream"

(* "clear transcript" (embed README.md:88): no bubble of a turn from       *)
(* before a reset comes back, whatever its stream still does.  (Its        *)
(* failure is shown all the same: StreamFails.)                            *)
ClearedStaysCleared ==
  \A i \in DOMAIN messages :
    messages[i].kind \in {"user", "assistant"} => messages[i].of \notin cleared

(* What the visitor wrote is there until reset clears the list, whichever  *)
(* other turn fails and however late the greeting comes.                   *)
QuestionsStay ==
  [][messages' # <<>> =>
       \A i \in DOMAIN messages :
         messages[i].kind = "user" =>
           \E j \in DOMAIN messages' : messages'[j] = messages[i]]_elementVars

(* What leaves the input goes into a turn: the text of a visitor who hits  *)
(* Enter is not thrown away because a stream runs or no client is there.   *)
SubmittedIsSent ==
  [][draft # None /\ draft' = None => pc'[draft] # "new"]_elementVars
=============================================================================
