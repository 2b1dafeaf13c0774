------------------------------- MODULE Chat --------------------------------
(***************************************************************************)
(* POST /v1/embed/chat of the broker (src/broker/internal/broker/chat.go)  *)
(* over the quota counters (quota.go) and the daily spend (spend.go).      *)
(*                                                                         *)
(* Each request is a goroutine running handleChat.  It takes the mutex of  *)
(* Quotas once per call and calls the spend backend outside it, so one     *)
(* action stands for one locked region, one call of the backend, one read  *)
(* from the upstream, or one write to the visitor; between any two of them *)
(* other requests, an edit of the embed, midnight or a restart may come.   *)
(* A request that returned is idle, and its slot may serve another one.    *)
(*                                                                         *)
(* Text is its length in bytes; tokens are what estimateTokens makes of    *)
(* it.  The conversation history, which no budget depends on, is modelled  *)
(* in ChatHistory.                                                         *)
(***************************************************************************)
EXTENDS Integers, FiniteSets, Functions

CONSTANTS
  Requests,       \* handlers that can be running at once
  Embeds,
  Jtis,           \* ids of session tokens
  EmbedOf,        \* the embed a token was minted for
  MsgBudget,      \* the per-session budgets signed into a token (nothing
  TokBudget,      \* keeps an operator from giving negative ones)
  DailyBudgets,   \* the daily budgets an operator may give an embed,
  MaxDaily,       \* and the largest of them
  Prompts,        \* byte lengths of the user text of a request,
  MaxPromptBytes, \* at most this (the body is limited to 256 KiB)
  Deltas,         \* byte lengths of one upstream delta,
  MaxDeltaBytes,  \* at most this (the scanner's line is limited to 1 MiB)
  MaxText,        \* bound of the model: bytes the upstream sends in one answer
  MaxDay,         \* bound of the model: midnights
  Connections,    \* the connections Postgres accepts
  Durable         \* pgSpend (TRUE) or memSpend (FALSE)

ASSUME ChatAssumption ==
  /\ IsFiniteSet(Requests) /\ Requests # {}
  /\ Jtis # {} /\ EmbedOf \in [Jtis -> Embeds]
  /\ MsgBudget \in [Jtis -> Int]
  /\ TokBudget \in [Jtis -> Int]
  /\ MaxDaily \in Nat /\ DailyBudgets \subseteq {b \in Int : b <= MaxDaily}
  /\ MaxPromptBytes \in Nat /\ Prompts \subseteq 0..MaxPromptBytes
  /\ MaxDeltaBytes \in Nat /\ Deltas \subseteq 1..MaxDeltaBytes
  /\ MaxText \in Nat /\ MaxDay \in Nat
  /\ IsFiniteSet(Connections)
  /\ Durable \in BOOLEAN

VARIABLES
  day,          \* the UTC day
  embed,        \* embed[e]: the stored record, [enabled, daily]
  spend,        \* spend[e]: tokens recorded today (SpendBackend)
  lost,         \* lost[c]: the upsert connection c still runs, if AddSpend
                \* no longer waits for it
  seeded,       \* the tokens that have session counters (keys of the maps)
  sessionMsgs,  \* sessionMsgs[j], sessionToks[j]: what is left; 0 if not seeded
  sessionToks,
  pc,           \* pc[r]: the next step of handler r
  req,          \* req[r]: the variables of handler r, a member of Locals
  reply,        \* reply[r]: the event that closed the last answer of r
  admitted      \* history: messages consumed per token since the last start

counters == <<spend, lost, seeded, sessionMsgs, sessionToks>>
vars == <<day, embed, counters, pc, req, reply, admitted>>

Upstream == {"stream", "write", "charge", "chargeSession"}
Steps == {"idle", "seed", "consume", "daily", "session", "prompt",
          "promptSession", "resolve", "finish"} \cup Upstream
Endings == {"none", "done", "eof", "failed", "write", "stop"}
Replies == {"none", "quota_exceeded", "session_quota_exceeded",
            "upstream_error", "done"}

Locals == [jti : Jtis,         \* claims.ID
           budget : Int,       \* embed.DailyTokenBudget, as read
           prompt : Nat,       \* promptTokens
           text : Nat,         \* assembled.Len()
           charged : Nat,
           out : BOOLEAN,      \* the last AddSpend returned dailyRem <= 0
           late : BOOLEAN,     \* the upstream context has expired
           ending : Endings,   \* how StreamChat returned
           unpaid : BOOLEAN]   \* history: the prompt was never recorded

(* The upserts of pgSpend that nobody waits for; memSpend has none.        *)
Conns == IF Durable THEN Connections ELSE {}

Upserts == [embed : Embeds, tokens : Nat, of : {"nothing", "prompt", "delta"}]

NoUpsert == [embed |-> CHOOSE e \in Embeds : TRUE, tokens |-> 0, of |-> "nothing"]

(* len(s)/4, at least 1 for a text that is not empty *)
EstimateTokens(n) == IF n > 0 /\ n < 4 THEN 1 ELSE n \div 4

Fresh(j, b, n) ==
  [jti |-> j, budget |-> b, prompt |-> EstimateTokens(n), text |-> 0,
   charged |-> 0, out |-> FALSE, late |-> FALSE, ending |-> "none",
   unpaid |-> FALSE]

(* The most a prompt costs, and the most a delta adds to the estimate *)
MaxPrompt == EstimateTokens(MaxPromptBytes)
MaxChunk == (MaxDeltaBytes \div 4) + 1

NoRequest == Fresh(CHOOSE j \in Jtis : TRUE, 0, 0)

Account(r) == EmbedOf[req[r].jti]

(* mutant: the whole text is charged again with every delta *)
OwedAgain(r) == EstimateTokens(req[r].text)

(* what emit charges after a delta: total - charged *)
Owed(r) == EstimateTokens(req[r].text) - req[r].charged

GoTo(r, step) == pc' = [pc EXCEPT ![r] = step] /\ UNCHANGED reply

(* streamSSEError or the last switch: one event, and the handler returns *)
Return(r, code) ==
  /\ pc' = [pc EXCEPT ![r] = "idle"]
  /\ req' = [req EXCEPT ![r] = NoRequest]
  /\ reply' = [reply EXCEPT ![r] = code]

Init ==
  /\ day = 0
  /\ embed \in [Embeds -> [enabled : {TRUE}, daily : DailyBudgets]]
  /\ spend = [e \in Embeds |-> 0]
  /\ lost = [c \in Conns |-> NoUpsert]
  /\ seeded = {}
  /\ sessionMsgs = [j \in Jtis |-> 0]
  /\ sessionToks = [j \in Jtis |-> 0]
  /\ pc = [r \in Requests |-> "idle"]
  /\ req = [r \in Requests |-> NoRequest]
  /\ reply = [r \in Requests |-> "none"]
  /\ admitted = [j \in Jtis |-> 0]

-----------------------------------------------------------------------------
(* Before the stream *)

(* A token that verifies, and an embed that is enabled when it is read;    *)
(* the handler works on with this copy of the record.  A request that is   *)
(* turned away here changes nothing.                                       *)
Start(r, j, n) ==
  /\ pc[r] = "idle"
  /\ embed[EmbedOf[j]].enabled
  /\ pc' = [pc EXCEPT ![r] = "seed"]
  /\ req' = [req EXCEPT ![r] = Fresh(j, embed[EmbedOf[j]].daily, n)]
  /\ reply' = [reply EXCEPT ![r] = "none"]
  /\ UNCHANGED <<day, embed, counters, admitted>>

(* mutant: every request starts the counters afresh *)
InitSessionAgain(r) ==
  /\ pc[r] = "seed"
  /\ GoTo(r, "consume")
  /\ seeded' = seeded \cup {req[r].jti}
  /\ sessionMsgs' = [sessionMsgs EXCEPT ![req[r].jti] = MsgBudget[req[r].jti]]
  /\ sessionToks' = [sessionToks EXCEPT ![req[r].jti] = TokBudget[req[r].jti]]
  /\ UNCHANGED <<day, embed, spend, lost, req, admitted>>

(* Counters are made from the claims the first time a token is seen, and   *)
(* left alone after that.                                                  *)
InitSession(r) ==
  /\ pc[r] = "seed"
  /\ GoTo(r, "consume")
  /\ LET j == req[r].jti IN
       IF j \in seeded
       THEN UNCHANGED <<seeded, sessionMsgs, sessionToks>>
       ELSE /\ seeded' = seeded \cup {j}
            /\ sessionMsgs' = [sessionMsgs EXCEPT ![j] = MsgBudget[j]]
            /\ sessionToks' = [sessionToks EXCEPT ![j] = TokBudget[j]]
  /\ UNCHANGED <<day, embed, spend, lost, req, admitted>>

ConsumeMessage(r) ==
  /\ pc[r] = "consume"
  /\ LET j == req[r].jti IN
       \/ /\ sessionMsgs[j] > 0
          /\ sessionMsgs' = [sessionMsgs EXCEPT ![j] = @ - 1]
          /\ admitted' = [admitted EXCEPT ![j] = @ + 1]
          /\ GoTo(r, "daily")
          /\ UNCHANGED req
       \/ /\ sessionMsgs[j] <= 0
          /\ Return(r, "session_quota_exceeded")
          /\ UNCHANGED <<sessionMsgs, admitted>>
  /\ UNCHANGED <<day, embed, spend, lost, seeded, sessionToks>>

(* mutant: a budget spent to the last token still admits *)
DayOpenAtCap(r) == spend[Account(r)] <= req[r].budget

DayOpen(r) == spend[Account(r)] < req[r].budget

(* A failure of Today counts as no budget left. *)
SpendAvailable(r) ==
  /\ pc[r] = "daily"
  /\ \/ /\ DayOpen(r)
        /\ GoTo(r, "session")
        /\ UNCHANGED req
     \/ /\ Durable \/ ~DayOpen(r)
        /\ Return(r, "quota_exceeded")
  /\ UNCHANGED <<day, embed, counters, admitted>>

SessionTokensRemaining(r) ==
  /\ pc[r] = "session"
  /\ \/ /\ sessionToks[req[r].jti] > 0
        /\ GoTo(r, "prompt")
        /\ UNCHANGED req
     \/ /\ sessionToks[req[r].jti] <= 0
        /\ Return(r, "session_quota_exceeded")
  /\ UNCHANGED <<day, embed, counters, admitted>>

(* AddSpend, first half: SpendBackend.Add of a prompt or of a delta.       *)
(* memSpend always applies it and answers.  The upsert may be applied and  *)
(* its answer lost, or fail unapplied, or the 5 seconds are over and the   *)
(* connection it was sent on is given up with the server still to run it.  *)
(* answered tells whether AddSpend learns the new total.                   *)
BackendAdd(e, k, what, answered) ==
  /\ \/ spend' = [spend EXCEPT ![e] = @ + k] /\ UNCHANGED lost
     \/ ~answered /\ UNCHANGED <<spend, lost>>
     \/ ~answered /\ UNCHANGED spend
        /\ \E c \in Conns :
             /\ lost[c] = NoUpsert
             /\ lost' = [lost EXCEPT ![c] =
                           [embed |-> e, tokens |-> k, of |-> what]]
  /\ answered \/ Durable

(* The server gets to an upsert nobody waits for: it counts today, or not  *)
(* at all (it fails, or its transaction began the day before).             *)
Lands(c) ==
  /\ lost[c] # NoUpsert
  /\ spend' \in {spend, [spend EXCEPT ![lost[c].embed] = @ + lost[c].tokens]}
  /\ lost' = [lost EXCEPT ![c] = NoUpsert]
  /\ UNCHANGED <<day, embed, seeded, sessionMsgs, sessionToks, pc, req, reply,
                 admitted>>

(* mutant: the session is not charged *)
SessionSpendNot(j, k) == UNCHANGED sessionToks

(* AddSpend, second half, under the mutex *)
SessionSpend(j, k) == sessionToks' = [sessionToks EXCEPT ![j] = @ - k]

(* The prompt is charged up front; what AddSpend returns is not looked at. *)
ChargePrompt(r) ==
  /\ pc[r] = "prompt"
  /\ \E answered \in BOOLEAN :
       BackendAdd(Account(r), req[r].prompt, "prompt", answered)
  /\ req' = [req EXCEPT ![r].unpaid =
                UNCHANGED <<spend, lost>> /\ req[r].prompt > 0]
  /\ GoTo(r, "promptSession")
  /\ UNCHANGED <<day, embed, seeded, sessionMsgs, sessionToks, admitted>>

ChargePromptSession(r) ==
  /\ pc[r] = "promptSession"
  /\ SessionSpend(req[r].jti, req[r].prompt)
  /\ GoTo(r, "resolve")
  /\ UNCHANGED <<day, embed, spend, lost, seeded, sessionMsgs, req,
                 admitted>>

Resolve(r) ==
  /\ pc[r] = "resolve"
  /\ \/ GoTo(r, "stream") /\ UNCHANGED req
     \/ Return(r, "upstream_error")
  /\ UNCHANGED <<day, embed, counters, admitted>>

-----------------------------------------------------------------------------
(* The stream: StreamChat calling emit *)

(* mutant: the upstream request has no timeout *)
DeadlineNever(r) == FALSE

(* context.WithTimeout fires; the handler notices at its next read. *)
Deadline(r) ==
  /\ pc[r] \in Upstream
  /\ ~req[r].late
  /\ req' = [req EXCEPT ![r].late = TRUE]
  /\ UNCHANGED <<day, embed, counters, pc, reply, admitted>>

(* Lines the scanner had buffered when the context expired are deltas that *)
(* came before it did.                                                     *)
Delta(r, d) ==
  /\ pc[r] = "stream"
  /\ ~req[r].late
  /\ req[r].text + d <= MaxText
  /\ req' = [req EXCEPT ![r].text = @ + d]
  /\ GoTo(r, "write")
  /\ UNCHANGED <<day, embed, counters, admitted>>

(* writeSSE of the delta returned.  If the connection is gone emit returns *)
(* its error, and this delta is never charged.                             *)
Write(r) ==
  /\ pc[r] = "write"
  /\ \/ GoTo(r, IF Owed(r) > 0 THEN "charge" ELSE "stream") /\ UNCHANGED req
     \/ GoTo(r, "finish") /\ req' = [req EXCEPT ![r].ending = "write"]
  /\ UNCHANGED <<day, embed, counters, admitted>>

(* mutant: the day's remainder is not looked at *)
DayUsedUpIgnored(r, answered) == ~answered

(* dailyRem <= 0, which a failure of Add is reported as *)
DayUsedUp(r, answered) == ~answered \/ req[r].budget - spend'[Account(r)] <= 0

ChargeDelta(r) ==
  /\ pc[r] = "charge"
  /\ \E answered \in BOOLEAN :
       /\ BackendAdd(Account(r), Owed(r), "delta", answered)
       /\ req' = [req EXCEPT ![r].out = DayUsedUp(r, answered)]
  /\ GoTo(r, "chargeSession")
  /\ UNCHANGED <<day, embed, seeded, sessionMsgs, sessionToks, admitted>>

(* mutants: the session's remainder is not looked at; is compared with < 0 *)
StopsOnDayOnly(r) == req[r].out
StopsBelowZero(r) == req[r].out \/ sessionToks'[req[r].jti] < 0

(* dailyRem <= 0 || sessRem <= 0 *)
Stops(r) == req[r].out \/ sessionToks'[req[r].jti] <= 0

ChargeDeltaSession(r) ==
  /\ pc[r] = "chargeSession"
  /\ SessionSpend(req[r].jti, Owed(r))
  /\ LET paid == [req[r] EXCEPT !.charged = EstimateTokens(req[r].text)]
     IN  /\ GoTo(r, IF Stops(r) THEN "finish" ELSE "stream")
         /\ req' = [req EXCEPT ![r] =
                      IF Stops(r) THEN [paid EXCEPT !.ending = "stop"] ELSE paid]
  /\ UNCHANGED <<day, embed, spend, lost, seeded, sessionMsgs, admitted>>

(* [DONE], or the end of the body without it: StreamChat returns no error. *)
(* A refused connection, a status other than 200, a read error or the      *)
(* expired context: it returns one.                                        *)
UpstreamEnds(r) ==
  /\ pc[r] = "stream"
  /\ \E how \in IF req[r].late THEN {"failed"} ELSE {"done", "eof", "failed"} :
       req' = [req EXCEPT ![r].ending = how]
  /\ GoTo(r, "finish")
  /\ UNCHANGED <<day, embed, counters, admitted>>

Finish(r) ==
  /\ pc[r] = "finish"
  /\ Return(r, CASE req[r].ending = "stop" -> "session_quota_exceeded"
                 [] req[r].ending \in {"failed", "write"} -> "upstream_error"
                 [] OTHER -> "done")
  /\ UNCHANGED <<day, embed, counters, admitted>>

-----------------------------------------------------------------------------
(* Around the handlers *)

(* PATCH or the admin page's toggle, through Store.Update *)
Reconfigure(e, c) ==
  /\ embed' = [embed EXCEPT ![e] = c]
  /\ UNCHANGED <<day, counters, pc, req, reply, admitted>>

(* Both backends count under the current UTC day. *)
Midnight ==
  /\ day < MaxDay
  /\ day' = day + 1
  /\ spend' = [e \in Embeds |-> 0]
  /\ UNCHANGED <<embed, lost, seeded, sessionMsgs, sessionToks, pc, req, reply,
                 admitted>>

(* mutant: the spend is kept in memory only *)
SpendLost == [e \in Embeds |-> 0]

SpendAfterRestart == IF Durable THEN spend ELSE [e \in Embeds |-> 0]

(* The process stops and starts again: handlers and maps are gone, and the *)
(* spend with them unless it is in Postgres, where an upsert that was sent *)
(* may still be run.  The embeds come back from the seed file under the    *)
(* same ids.                                                               *)
Restart ==
  /\ embed' \in [Embeds -> [enabled : {TRUE}, daily : DailyBudgets]]
  /\ spend' = SpendAfterRestart
  /\ seeded' = {}
  /\ sessionMsgs' = [j \in Jtis |-> 0]
  /\ sessionToks' = [j \in Jtis |-> 0]
  /\ pc' = [r \in Requests |-> "idle"]
  /\ req' = [r \in Requests |-> NoRequest]
  /\ reply' = [r \in Requests |-> "none"]
  /\ admitted' = [j \in Jtis |-> 0]
  /\ UNCHANGED <<day, lost>>

Handler(r) ==
  \/ InitSession(r)
  \/ ConsumeMessage(r)
  \/ SpendAvailable(r)
  \/ SessionTokensRemaining(r)
  \/ ChargePrompt(r)
  \/ ChargePromptSession(r)
  \/ Resolve(r)
  \/ Deadline(r)
  \/ \E d \in Deltas : Delta(r, d)
  \/ Write(r)
  \/ ChargeDelta(r)
  \/ ChargeDeltaSession(r)
  \/ UpstreamEnds(r)
  \/ Finish(r)

Next ==
  \/ \E r \in Requests, j \in Jtis, n \in Prompts : Start(r, j, n)
  \/ \E r \in Requests : Handler(r)
  \/ \E e \in Embeds, c \in [enabled : BOOLEAN, daily : DailyBudgets] :
       Reconfigure(e, c)
  \/ \E c \in Conns : Lands(c)
  \/ Midnight
  \/ Restart

Spec == Init /\ [][Next]_vars

(* The Go scheduler runs every handler; the backend gives up after 5 s,    *)
(* the resolver after 10 s, and the upstream context after its timeout.    *)
(* Nothing makes the upstream send or end before that, nothing here makes  *)
(* the visitor read, and an upsert nobody waits for may never be run.      *)
HandlerFairness ==
  \A r \in Requests :
    /\ WF_vars(\/ InitSession(r) \/ ConsumeMessage(r) \/ SpendAvailable(r)
               \/ SessionTokensRemaining(r) \/ ChargePrompt(r)
               \/ ChargePromptSession(r) \/ Resolve(r) \/ ChargeDelta(r)
               \/ ChargeDeltaSession(r) \/ Finish(r))
    /\ WF_vars(Deadline(r))
    /\ WF_vars(req[r].late /\ UpstreamEnds(r))

(* The visitor reads what is sent, or its connection is closed. *)
VisitorFairness == \A r \in Requests : WF_vars(Write(r))

FairSpec == Spec /\ HandlerFairness /\ VisitorFairness

-----------------------------------------------------------------------------

TypeOK ==
  /\ day \in 0..MaxDay
  /\ embed \in [Embeds -> [enabled : BOOLEAN, daily : DailyBudgets]]
  /\ spend \in [Embeds -> Nat]
  /\ lost \in [Conns -> Upserts]
  /\ seeded \subseteq Jtis
  /\ sessionMsgs \in [Jtis -> Int]
  /\ sessionToks \in [Jtis -> Int]
  /\ pc \in [Requests -> Steps]
  /\ req \in [Requests -> Locals]
  /\ reply \in [Requests -> Replies]
  /\ admitted \in [Jtis -> Nat]

(* What a handler knows at each step: it has read a budget and a prompt    *)
(* the program accepts; its token has counters once it seeded them; before *)
(* the stream no text has come; and a delta that was received and is not   *)
(* charged yet is all that is owed.                                        *)
Bookkeeping ==
  \A r \in Requests :
    /\ req[r].budget <= MaxDaily
    /\ req[r].prompt <= MaxPrompt
    /\ pc[r] \notin {"idle", "seed"} => req[r].jti \in seeded
    /\ pc[r] \notin Upstream \cup {"finish"}
         => req[r].text = 0 /\ req[r].charged = 0
    /\ pc[r] \in Upstream => Owed(r) \in 0..MaxChunk

(* An upsert nobody waits for is one charge, of a prompt or of a delta.    *)
LostAreCharges ==
  \A c \in Conns :
    /\ lost[c].of = "nothing" => lost[c] = NoUpsert
    /\ lost[c].of = "prompt" => lost[c].tokens <= MaxPrompt
    /\ lost[c].of = "delta" => lost[c].tokens <= MaxChunk

WellFormed == TypeOK /\ Bookkeeping /\ LostAreCharges

(* A session sends no more messages than its token says, and none is lost: *)
(* of two requests with the last message left, one is refused.  (Counters  *)
(* start anew with the process; quota.go keeps them in memory on purpose.) *)
MessagesConserved ==
  \A j \in Jtis :
    IF j \in seeded THEN admitted[j] + sessionMsgs[j] = MsgBudget[j]
                    ELSE admitted[j] = 0 /\ sessionMsgs[j] = 0

(* Every delta is charged, and once: when the handler is about to read the *)
(* next one, or is done, what it charged is the estimate of all the text,  *)
(* except that the delta whose write failed is left out.                   *)
DeltasChargedOnce ==
  \A r \in Requests :
    pc[r] = "stream" \/ (pc[r] = "finish" /\ req[r].ending # "write")
      => Owed(r) = 0

(* The two ledgers AddSpend keeps agree, though each is written on its own *)
(* and between the two writes others come: what an embed recorded today is *)
(* what its sessions have used, plus the charges that are halfway.  (For   *)
(* the backend that cannot fail, until midnight.)                          *)
SessionUsed(j) == IF j \in seeded THEN TokBudget[j] - sessionToks[j] ELSE 0

Halfway(r) == CASE pc[r] = "promptSession" -> req[r].prompt
                [] pc[r] = "chargeSession" -> Owed(r)
                [] OTHER -> 0

LedgersAgree ==
  ~Durable /\ day = 0 =>
    \A e \in Embeds :
      spend[e] =
        SumFunctionOnSet([j \in Jtis |-> SessionUsed(j)], {j \in seeded : EmbedOf[j] = e})
        + SumFunctionOnSet([r \in Requests |-> Halfway(r)], {r \in Requests : Account(r) = e})

(* The daily counter is the one that must not reset: while the day lasts   *)
(* it never falls, and a restart keeps it.                                 *)
SpendSurvives ==
  [][Durable /\ day' = day => \A e \in Embeds : spend'[e] >= spend[e]]_vars

-----------------------------------------------------------------------------
(* Chat implements Meter twice. *)

(* Where a handler stands with a budget: between its check and the charge  *)
(* of its prompt, where more may be charged to it, or neither.  Once the   *)
(* backend has answered that the day is used up (out), nothing more is.    *)
DayPhase == [r \in Requests |->
  CASE pc[r] \in {"session", "prompt"} -> "checked"
    [] pc[r] \in {"promptSession", "resolve", "stream", "write", "charge"}
         -> "streaming"
    [] pc[r] = "chargeSession" /\ ~req[r].out -> "streaming"
    [] OTHER -> "out"]

SessionPhase == [r \in Requests |->
  CASE pc[r] \in {"prompt", "promptSession"} -> "checked"
    [] pc[r] \in {"resolve"} \cup Upstream -> "streaming"
    [] OTHER -> "out"]

DayAccount == [r \in Requests |-> Account(r)]
SessionAccount == [r \in Requests |-> req[r].jti]

Group(accounts, phase, account, p) ==
  [a \in accounts |-> {r \in Requests : phase[r] = p /\ account[r] = a}]

LostFor(what) ==
  [e \in Embeds |-> {c \in Conns : lost[c].of = what /\ lost[c].embed = e}]

None(accounts) == [a \in accounts |-> {}]

DailyMeter == INSTANCE Meter WITH
  Accounts    <- Embeds,
  Slots       <- Conns,
  Cap         <- [e \in Embeds |-> MaxDaily],
  used        <- spend,
  checked     <- Group(Embeds, DayPhase, DayAccount, "checked"),
  streaming   <- Group(Embeds, DayPhase, DayAccount, "streaming"),
  latePrompts <- LostFor("prompt"),
  lateChunks  <- LostFor("delta")

SessionCap == [j \in Jtis |-> IF TokBudget[j] > 0 THEN TokBudget[j] ELSE 0]

(* The session's charge is a write to a map: none is ever under way. *)
SessionMeter == INSTANCE Meter WITH
  Accounts    <- Jtis,
  Slots       <- {},
  Cap         <- SessionCap,
  used        <- [j \in Jtis |-> SessionUsed(j)],
  checked     <- Group(Jtis, SessionPhase, SessionAccount, "checked"),
  streaming   <- Group(Jtis, SessionPhase, SessionAccount, "streaming"),
  latePrompts <- None(Jtis),
  lateChunks  <- None(Jtis)

(* The daily budget of an embed, the token budget of a session: each step  *)
(* of the handlers is a step of the meter, or none.                        *)
ImplementsDailyMeter == DailyMeter!Spec
ImplementsSessionMeter == SessionMeter!Spec

(* What the meter promises: a budget is passed by less than one prompt and *)
(* one delta for each handler running, and for the daily one by one of     *)
(* these for each upsert that is still to be run.                          *)
DailyOvershootBounded == DailyMeter!BoundedOvershoot
SessionOvershootBounded == SessionMeter!BoundedOvershoot

-----------------------------------------------------------------------------
(* A handler whose visitor reads, or hangs up, returns. *)
HandlersReturn == \A r \in Requests : pc[r] # "idle" ~> pc[r] = "idle"

(* "Refusing service beats spending unaccounted tokens" (quota.go:73): a   *)
(* prompt that could not be recorded is not sent to the agent.             *)
NoUnaccountedService == \A r \in Requests : req[r].unpaid => pc[r] \notin Upstream
=============================================================================
