------------------------------- MODULE Widget -------------------------------
(***************************************************************************)
(* The chat widget as the visitor has it: the handlers and the state of    *)
(* Element, the update cycle of Lit (ReactiveElement), and the page, drawn *)
(* by render through the parts of lit-html (LitParts).                     *)
(*                                                                         *)
(* What a microtask does (the rest of ensureConfig and of sendMessage for  *)
(* all the calls that waited for one session, and the update) comes in any *)
(* order.  An event of the visitor, a call of the host page and a chunk of *)
(* a stream are tasks: they come when no update is to be made any more.    *)
(***************************************************************************)
EXTENDS Element, LitParts, ReactiveElement

CONSTANT
  Mode  \* the attribute: "popup", or another, where the panel is always there

VARIABLES
  publishableKey,  \* the attribute has a value
  screen           \* what is on the page

vars == <<elementVars, cycleVars, publishableKey, screen>>

-----------------------------------------------------------------------------
(* render *)

Says(b) == <<b.kind, b.of, b.content>>

(* renderMessage: the content of a bubble                                  *)
Shows(b) ==
  IF b.streaming /\ b.content = 0 THEN Template("typing")
  ELSE IF b.kind \in {"assistant", "greeting"} THEN Html(Says(b)) ELSE Text(Says(b))

(* The class of a bubble *)
Role(b) == IF b.kind = "user" THEN "user" ELSE "assistant"
IsError(b) == b.kind \in {"noConfig", "failure"}
Classes(b) == [c \in {"bubble", Role(b), "error"} |-> c = "error" => IsError(b)]

(* renderLauncher: the button of a popup says whether the panel is there.  *)
Launcher == IF Mode = "popup" THEN (IF open_ THEN "Close chat" ELSE "Open chat") ELSE "none"

NoPanel == [panel |-> FALSE, launcher |-> Launcher]

(* The rows: what the list gets for the bubbles of now                     *)
Keys(ms) == [i \in DOMAIN ms |-> Key(ms[i])]

Rows ==
  LET values == [i \in DOMAIN messages |-> Shows(messages[i])]
      flags == [i \in DOMAIN messages |-> Classes(messages[i])] IN
  IF screen.panel THEN UpdateRows(screen.rows, screen.keys, Keys(messages), values, flags)
  ELSE FirstRows(Keys(messages), values, flags)

(* mutant: the input can be used before there is a client *)
DisabledByStream == streaming

Disabled == streaming \/ ~ ready

(* A property of an element of the page is set when it is another value    *)
(* than the one set last, whatever the visitor has made of it since.       *)
SetInput(s) ==
  IF draft = s.inputSet THEN s.input ELSE draft

(* renderPanel: the panel of now, from the one on the page, or a new one   *)
Panel ==
  [panel |-> TRUE, launcher |-> Launcher, title |-> resolvedTitle, badge |-> sessionConfig,
   input |-> IF screen.panel THEN SetInput(screen) ELSE draft, inputSet |-> draft,
   disabled |-> Disabled,
   keys |-> Keys(messages), rows |-> Rows]

ShowPanel == Mode # "popup" \/ open_

Rendered == IF ShowPanel THEN Panel ELSE NoPanel

-----------------------------------------------------------------------------
(* Updates *)

(* The reactive properties.  sessionConfig is none.                        *)
reactive == <<messages, streaming, open_, ready, resolvedTitle, draft>>

(* mutant: bumpMessage changes the bubble in place, the list is the same *)
ShownInPlace ==
  IF <<Len(messages), streaming, open_, ready, resolvedTitle, draft>>'
       # <<Len(messages), streaming, open_, ready, resolvedTitle, draft>>
  THEN {"shown"} ELSE {}

(* The properties that a step sets.  (A list that is set anew and is equal *)
(* draws nothing else.)                                                    *)
Shown == IF reactive' # reactive THEN {"shown"} ELSE {}

(* firstUpdated makes the client.  updated makes it again when one of the  *)
(* parameters of the connection was set, and so at the first update too.   *)
FirstUpdated == ~ hasUpdated
ConnectionChanged == "connection" \in changed /\ (ready \/ FirstUpdated)

Update ==
  /\ MayUpdate
  /\ IF publishableKey /\ (FirstUpdated \/ ConnectionChanged) THEN Bootstrap
     ELSE UNCHANGED <<ready, resolvedTitle>>
  /\ UNCHANGED <<messages, streaming, abortStream, sessionConfig, open_, draft, pc,
                 aborted, content, cleared, publishableKey>>
  /\ Updated(Shown)
  /\ screen' = Rendered

-----------------------------------------------------------------------------
(* The actions of Element, each with the update it asks for *)

(* The rest of a handler behind an await *)
Handler(A) == A /\ RequestUpdate(Shown) /\ UNCHANGED <<publishableKey, screen>>

Task(A) == ~ MayUpdate /\ Handler(A)

(* reset sets the list anew, also an empty one.                            *)
ResetByHost(p) ==
  /\ ~ MayUpdate
  /\ Reset(p)
  /\ RequestUpdate({"shown"})
  /\ UNCHANGED <<publishableKey, screen>>

(* An event of the visitor, on the panel                                   *)
TypeText(t) ==
  /\ ~ MayUpdate /\ screen.panel /\ ~ screen.disabled
  /\ Input(t)
  /\ screen' = [screen EXCEPT !.input = t]
  /\ RequestUpdate(Shown)
  /\ UNCHANGED publishableKey

SubmitText == screen.panel /\ ~ screen.disabled /\ Task(Submit)

(* The launcher or the button of the panel *)
Toggle(p) == IF open_ THEN Close ELSE Open(p)

PutOnPage == Connected /\ UNCHANGED <<elementVars, publishableKey, screen>>

(* bound of the model: when a parameter of the connection is set           *)
SetsNow == ~ open_ /\ messages = <<>>

(* The host page sets a parameter of the connection, for the first time or *)
(* to another value.                                                       *)
SetAttribute ==
  /\ ~ MayUpdate
  /\ SetsNow
  /\ publishableKey' = TRUE
  /\ AttributeChanged({"connection"})
  /\ UNCHANGED <<elementVars, screen>>

Init ==
  /\ ElementInit
  /\ CycleInit({"connection", "shown"})
  /\ publishableKey \in BOOLEAN
  /\ screen = [panel |-> FALSE, launcher |-> "none"]

Next ==
  \/ \E c \in Calls : Handler(Configured(c))
  \/ \E t \in Turns :
       \/ Task(Send(t)) \/ TypeText(t)
       \/ Handler(Begin(t)) \/ Task(StreamStep(t))
  \/ \E p \in Opens : Task(Toggle(p))
  \/ \E p \in Resets : ResetByHost(p)
  \/ SubmitText \/ Task(Disconnected)
  \/ PutOnPage \/ SetAttribute
  \/ Update

(* The event loop goes on after an await (a request is answered or fails), *)
(* runs the update that is asked for, and takes the chunks of a stream,    *)
(* which ends because the broker bounds it.  It is enough to ask that      *)
(* these steps do not all stop.                                            *)
Progress ==
  \/ \E t \in Turns : Task(StreamStep(t)) \/ Handler(Begin(t))
  \/ \E c \in Calls : Handler(Configured(c))
  \/ Update

Spec == Init /\ [][Next]_vars /\ WF_vars(Progress)

-----------------------------------------------------------------------------

(* What an answer's bubble must show: the deltas of its own stream.        *)
Expected(b) ==
  Shows([b EXCEPT !.content = IF b.kind = "assistant" THEN content[b.of] ELSE 0])

(* When no update is to come, the page is the state: the panel is there or *)
(* not, with its title, the text and the state of the input, and a row for *)
(* each bubble in its order, with the text of its own stream and no other. *)
(* A row types only while its stream runs, or when the element was taken   *)
(* off the page and put back (then it does so for ever).                   *)
(* A badge is not that of a session that was dropped.  (The other way it   *)
(* may be missing: sessionConfig is not reactive.)                         *)
ScreenIsCurrent ==
  enabled /\ ~ isUpdatePending =>
    /\ screen.panel = ShowPanel
    /\ screen.launcher = Launcher
    /\ screen.panel =>
         /\ screen.title = resolvedTitle
         /\ screen.input = draft
         /\ screen.disabled = Disabled
         /\ screen.badge => sessionConfig
         /\ Len(screen.rows) = Len(messages)
         /\ \A i \in DOMAIN messages :
              /\ screen.rows[i].node = Key(messages[i])
              /\ "error" \in screen.rows[i].classes <=> IsError(messages[i])
              /\ screen.rows[i].shows = Expected(messages[i])
              /\ screen.rows[i].shows = Template("typing") =>
                   pc[messages[i].of] = "stream" \/ aborted[messages[i].of]

(* While the panel is there an update leaves the nodes of a bubble that    *)
(* stays alone, and the nodes of its text if that is the same: what a      *)
(* visitor has selected, or a screen reader has read out (aria-live), is   *)
(* not made anew because another bubble grows.  (The step that leaves pc alone  *)
(* while an update is asked for is the update.)                            *)
NodesKept ==
  [][screen.panel /\ screen'.panel /\ MayUpdate /\ pc' = pc =>
       \A i \in DOMAIN screen.keys, j \in DOMAIN screen'.rows :
         screen.keys[i] = screen'.keys[j] =>
           /\ screen'.rows[j].node = screen.rows[i].node
           /\ screen'.rows[j].made # "row"
           /\ screen'.rows[j].shows = screen.rows[i].shows
                => screen'.rows[j].made = "nothing"]_vars

(* The input on the page does not stay disabled, however streams end.      *)
InputComesBack ==
  (screen.panel /\ screen.disabled /\ ready) ~> ~ (screen.panel /\ screen.disabled)
=============================================================================
