---------------------------- MODULE ChatProofs -----------------------------
(***************************************************************************)
(* What holds of Chat for any number of handlers, embeds and tokens, any   *)
(* budgets and any sizes of text: first what each handler knows and what   *)
(* it charges, then that both budgets are Meters, then, with a few facts   *)
(* about sums over finite sets, that the two ledgers agree.                *)
(***************************************************************************)
EXTENDS Chat, FiniteSetTheorems, TLAPS

LEMMA EstimateType ==
  ASSUME NEW n \in Nat
  PROVE  /\ EstimateTokens(n) \in Nat
         /\ EstimateTokens(0) = 0
BY DEF EstimateTokens

LEMMA EstimateMonotone ==
  ASSUME NEW m \in Nat, NEW n \in Nat, m <= n
  PROVE  EstimateTokens(m) <= EstimateTokens(n)
BY DEF EstimateTokens

(* One delta raises the estimate by at most MaxChunk, and never lowers it. *)
LEMMA EstimateStep ==
  ASSUME NEW n \in Nat, NEW d \in 1..MaxDeltaBytes
  PROVE  EstimateTokens(n + d) - EstimateTokens(n) \in 0..MaxChunk
<1>1. MaxDeltaBytes \in Nat /\ d \in Nat
  BY ChatAssumption
<1>2. (n + d) \div 4 <= (n \div 4) + (d \div 4) + 1
  BY <1>1
<1>3. d \div 4 <= MaxDeltaBytes \div 4
  BY <1>1
<1>4. n \div 4 <= (n + d) \div 4
  BY <1>1
<1> QED
  BY <1>1, <1>2, <1>3, <1>4 DEF EstimateTokens, MaxChunk

LEMMA FreshType ==
  ASSUME NEW j \in Jtis, NEW b \in Int, b <= MaxDaily, NEW n \in 0..MaxPromptBytes
  PROVE  /\ Fresh(j, b, n) \in Locals
         /\ Fresh(j, b, n).budget <= MaxDaily
         /\ Fresh(j, b, n).prompt <= MaxPrompt
         /\ Fresh(j, b, n).jti = j
         /\ Fresh(j, b, n).text = 0
         /\ Fresh(j, b, n).charged = 0
<1>1. n \in Nat /\ MaxPromptBytes \in Nat /\ n <= MaxPromptBytes
  BY ChatAssumption
<1>2. EstimateTokens(n) \in Nat /\ EstimateTokens(n) <= MaxPrompt
  BY <1>1, EstimateType, EstimateMonotone DEF MaxPrompt
<1> QED
  BY <1>1, <1>2 DEF Fresh, Locals, Endings

LEMMA NoRequestType ==
  /\ NoRequest \in Locals
  /\ NoRequest.budget <= MaxDaily
  /\ NoRequest.prompt <= MaxPrompt
  /\ NoRequest.text = 0
  /\ NoRequest.charged = 0
<1>1. (CHOOSE j \in Jtis : TRUE) \in Jtis
  BY ChatAssumption
<1>2. 0 <= MaxDaily /\ 0 \in 0..MaxPromptBytes
  BY ChatAssumption
<1> QED
  BY <1>1, <1>2, FreshType DEF NoRequest

(* The inductive invariant *)
ChatInv == WellFormed /\ MessagesConserved /\ DeltasChargedOnce

LEMMA NoUpsertType == NoUpsert \in Upserts
<1>1. Embeds # {}
  BY ChatAssumption
<1> QED
  BY <1>1 DEF NoUpsert, Upserts

LEMMA MostType == MaxPrompt \in Nat /\ MaxChunk \in Nat \ {0}
BY ChatAssumption, EstimateType DEF MaxPrompt, MaxChunk

LEMMA InitInv == Init => ChatInv
<1> SUFFICES ASSUME Init PROVE ChatInv
  OBVIOUS
<1>1. TypeOK
  <2>1. embed \in [Embeds -> [enabled : BOOLEAN, daily : DailyBudgets]]
    BY DEF Init
  <2>2. req \in [Requests -> Locals]
    BY NoRequestType DEF Init
  <2> QED
    BY <2>1, <2>2, NoUpsertType, ChatAssumption DEF Init, TypeOK, Steps, Replies
<1>2. Bookkeeping
  BY NoRequestType DEF Init, Bookkeeping, Upstream
<1>3. MessagesConserved
  BY DEF Init, MessagesConserved
<1>4. DeltasChargedOnce
  BY DEF Init, DeltasChargedOnce
<1>5. LostAreCharges
  BY DEF Init, LostAreCharges, NoUpsert
<1> QED
  BY <1>1, <1>2, <1>3, <1>4, <1>5 DEF ChatInv, WellFormed

(* What an upsert does, whether it is answered or not: it is recorded, or  *)
(* it is none, or a connection has it.                                     *)
LEMMA BackendTypes ==
  ASSUME TypeOK, LostAreCharges, NEW e \in Embeds, NEW k \in Nat,
         NEW what \in {"prompt", "delta"}, NEW answered \in BOOLEAN,
         what = "prompt" => k <= MaxPrompt, what = "delta" => k <= MaxChunk,
         BackendAdd(e, k, what, answered)
  PROVE  /\ spend' \in [Embeds -> Nat]
         /\ lost' \in [Conns -> Upserts]
         /\ LostAreCharges'
<1>1. spend \in [Embeds -> Nat] /\ lost \in [Conns -> Upserts]
  BY DEF TypeOK
<1>2. CASE spend' = [spend EXCEPT ![e] = @ + k] /\ UNCHANGED lost
  BY <1>1, <1>2 DEF LostAreCharges
<1>3. CASE UNCHANGED <<spend, lost>>
  BY <1>1, <1>3 DEF LostAreCharges
<1>4. ASSUME UNCHANGED spend, NEW c \in Conns,
             lost' = [lost EXCEPT ![c] = [embed |-> e, tokens |-> k, of |-> what]]
      PROVE  /\ spend' \in [Embeds -> Nat]
             /\ lost' \in [Conns -> Upserts]
             /\ LostAreCharges'
  <2>1. [embed |-> e, tokens |-> k, of |-> what] \in Upserts
    BY DEF Upserts
  <2>2. lost'[c] = [embed |-> e, tokens |-> k, of |-> what]
        /\ \A d \in Conns \ {c} : lost'[d] = lost[d]
    BY <1>1, <1>4
  <2> QED
    BY <1>1, <1>4, <2>1, <2>2 DEF LostAreCharges
<1> QED
  BY <1>2, <1>3, <1>4 DEF BackendAdd

(* The updates handlers make to their variables keep them in Locals. *)
LEMMA LocalsUpdate ==
  ASSUME NEW x \in Locals
  PROVE  /\ \A b \in BOOLEAN : /\ [x EXCEPT !.unpaid = b] \in Locals
                               /\ [x EXCEPT !.late = b] \in Locals
                               /\ [x EXCEPT !.out = b] \in Locals
         /\ \A n \in Nat : /\ [x EXCEPT !.text = n] \in Locals
                           /\ [x EXCEPT !.charged = n] \in Locals
         /\ \A w \in Endings : [x EXCEPT !.ending = w] \in Locals
BY DEF Locals

(* What the steps keep, apart from the upserts nobody waits for *)
HandlersInv == TypeOK /\ Bookkeeping /\ MessagesConserved /\ DeltasChargedOnce

LEMMA HandlersNext == ChatInv /\ [Next]_vars => HandlersInv'
<1> SUFFICES ASSUME ChatInv, [Next]_vars PROVE HandlersInv'
  OBVIOUS
<1>i. TypeOK /\ Bookkeeping /\ MessagesConserved /\ DeltasChargedOnce /\ LostAreCharges
  BY DEF ChatInv, WellFormed
<1>q. /\ req \in [Requests -> Locals]
      /\ \A r \in Requests :
           /\ req[r] \in Locals
           /\ req[r].jti \in Jtis
           /\ req[r].prompt \in Nat
           /\ req[r].text \in Nat
           /\ req[r].charged \in Nat
           /\ Account(r) \in Embeds
           /\ EstimateTokens(req[r].text) \in Nat
      /\ EstimateTokens(0) = 0
      /\ MaxChunk \in Nat
      /\ MaxDaily \in Nat
  BY <1>i, ChatAssumption, EstimateType DEF TypeOK, Locals, Account, MaxChunk
<1>1. ASSUME NEW r \in Requests, NEW j \in Jtis, NEW n \in Prompts,
             Start(r, j, n)
      PROVE  HandlersInv'
  <2>a. /\ embed[EmbedOf[j]].daily \in Int /\ embed[EmbedOf[j]].daily <= MaxDaily
        /\ n \in 0..MaxPromptBytes
    BY <1>i, ChatAssumption DEF TypeOK
  <2> DEFINE v == Fresh(j, embed[EmbedOf[j]].daily, n)
  <2>b. /\ v \in Locals
        /\ v.budget <= MaxDaily
        /\ v.prompt <= MaxPrompt
        /\ v.text = 0
        /\ v.charged = 0
    BY <2>a, FreshType
  <2>c. req' = [req EXCEPT ![r] = v]
    BY <1>1 DEF Start
  <2> HIDE DEF v
  <2>p. pc' \in [Requests -> Steps] /\ reply' \in [Requests -> Replies]
    BY <1>i, <1>1
    DEF TypeOK, Steps, Upstream, Replies, Start
  <2>r. req' \in [Requests -> Locals]
    BY <1>q, <2>b, <2>c
  <2>1. TypeOK'
    BY <1>i, <1>q, <1>1, <2>p, <2>r, ChatAssumption
    DEF TypeOK, counters, Start
  <2>2. Bookkeeping'
    BY <1>i, <1>q, <1>1, <2>b, <2>c
    DEF TypeOK, Bookkeeping, Upstream, Owed, counters, Start
  <2>3. MessagesConserved'
    BY <1>i, <1>1
    DEF TypeOK, MessagesConserved, counters, Start
  <2>4. DeltasChargedOnce'
    BY <1>i, <1>q, <1>1, NoRequestType
    DEF TypeOK, DeltasChargedOnce, Bookkeeping, Owed, Upstream, counters,
       Start
  <2> QED
    BY <2>1, <2>2, <2>3, <2>4 DEF HandlersInv
<1>2. ASSUME NEW r \in Requests, InitSession(r)
      PROVE  HandlersInv'
  <2>a. /\ seeded' \subseteq Jtis
        /\ sessionMsgs' \in [Jtis -> Int]
        /\ sessionToks' \in [Jtis -> Int]
    <3>1. MsgBudget[req[r].jti] \in Int /\ TokBudget[req[r].jti] \in Int
      BY <1>q, ChatAssumption
    <3> QED
      BY <1>i, <1>q, <1>2, <3>1 DEF TypeOK, InitSession
  <2>p. pc' \in [Requests -> Steps] /\ reply' \in [Requests -> Replies]
    BY <1>i, <1>2
    DEF TypeOK, Steps, Upstream, Replies, InitSession, GoTo
  <2>r. req' \in [Requests -> Locals]
    BY <1>q, <1>2, NoRequestType, LocalsUpdate
    DEF InitSession, GoTo
  <2>1. TypeOK'
    BY <1>i, <1>q, <1>2, <2>p, <2>r, ChatAssumption, <2>a
    DEF TypeOK, counters, InitSession, GoTo
  <2>2. Bookkeeping'
    BY <1>i, <1>q, <1>2, NoRequestType
    DEF TypeOK, Bookkeeping, Upstream, Owed, counters, InitSession, GoTo
  <2>3. MessagesConserved'
    <3>1. CASE req[r].jti \in seeded
      BY <1>i, <1>2, <3>1 DEF MessagesConserved, InitSession
    <3>2. CASE req[r].jti \notin seeded
      <4>1. /\ seeded' = seeded \cup {req[r].jti}
            /\ sessionMsgs' = [sessionMsgs EXCEPT ![req[r].jti] = MsgBudget[req[r].jti]]
            /\ admitted' = admitted
        BY <1>2, <3>2 DEF InitSession
      <4>2. admitted[req[r].jti] = 0
        BY <1>i, <1>q, <3>2 DEF TypeOK, MessagesConserved
      <4>3. MsgBudget[req[r].jti] \in Int
        BY <1>q, ChatAssumption
      <4> QED
        BY <1>i, <1>q, <4>1, <4>2, <4>3 DEF TypeOK, MessagesConserved
    <3> QED
      BY <3>1, <3>2
  <2>4. DeltasChargedOnce'
    BY <1>i, <1>q, <1>2, NoRequestType
    DEF TypeOK, DeltasChargedOnce, Bookkeeping, Owed, Upstream, counters,
       InitSession, GoTo
  <2> QED
    BY <2>1, <2>2, <2>3, <2>4 DEF HandlersInv
<1>3. ASSUME NEW r \in Requests, ConsumeMessage(r)
      PROVE  HandlersInv'
  <2>a. sessionMsgs' \in [Jtis -> Int] /\ admitted' \in [Jtis -> Nat]
    <3>1. sessionMsgs[req[r].jti] \in Int /\ admitted[req[r].jti] \in Nat
      BY <1>i, <1>q DEF TypeOK
    <3> QED
      BY <1>i, <1>q, <1>3, <3>1, SMTT(30) DEF TypeOK, ConsumeMessage
  <2>p. pc' \in [Requests -> Steps] /\ reply' \in [Requests -> Replies]
    BY <1>i, <1>3
    DEF TypeOK, Steps, Upstream, Replies, ConsumeMessage, GoTo, Return
  <2>r. req' \in [Requests -> Locals]
    BY <1>q, <1>3, NoRequestType, LocalsUpdate
    DEF ConsumeMessage, GoTo, Return
  <2>1. TypeOK'
    BY <1>i, <1>q, <1>3, <2>p, <2>r, ChatAssumption, <2>a
    DEF TypeOK, counters, ConsumeMessage, GoTo, Return
  <2>2. Bookkeeping'
    BY <1>i, <1>q, <1>3, NoRequestType
    DEF TypeOK, Bookkeeping, Upstream, Owed, counters, ConsumeMessage, GoTo,
       Return
  <2>3. MessagesConserved'
    BY <1>i, <1>3, SMTT(30)
    DEF TypeOK, MessagesConserved, counters, ConsumeMessage, GoTo, Return
  <2>4. DeltasChargedOnce'
    BY <1>i, <1>q, <1>3, NoRequestType
    DEF TypeOK, DeltasChargedOnce, Bookkeeping, Owed, Upstream, counters,
       ConsumeMessage, GoTo, Return
  <2> QED
    BY <2>1, <2>2, <2>3, <2>4 DEF HandlersInv
<1>4. ASSUME NEW r \in Requests, SpendAvailable(r)
      PROVE  HandlersInv'
  <2>p. pc' \in [Requests -> Steps] /\ reply' \in [Requests -> Replies]
    BY <1>i, <1>4
    DEF TypeOK, Steps, Upstream, Replies, SpendAvailable, GoTo, Return
  <2>r. req' \in [Requests -> Locals]
    BY <1>q, <1>4, NoRequestType, LocalsUpdate
    DEF SpendAvailable, GoTo, Return
  <2>1. TypeOK'
    BY <1>i, <1>q, <1>4, <2>p, <2>r, ChatAssumption
    DEF TypeOK, counters, SpendAvailable, GoTo, Return
  <2>2. Bookkeeping'
    BY <1>i, <1>q, <1>4, NoRequestType
    DEF TypeOK, Bookkeeping, Upstream, Owed, counters, SpendAvailable, GoTo,
       Return
  <2>3. MessagesConserved'
    BY <1>i, <1>4
    DEF TypeOK, MessagesConserved, counters, SpendAvailable, GoTo, Return
  <2>4. DeltasChargedOnce'
    BY <1>i, <1>q, <1>4, NoRequestType
    DEF TypeOK, DeltasChargedOnce, Bookkeeping, Owed, Upstream, counters,
       SpendAvailable, GoTo, Return
  <2> QED
    BY <2>1, <2>2, <2>3, <2>4 DEF HandlersInv
<1>5. ASSUME NEW r \in Requests, SessionTokensRemaining(r)
      PROVE  HandlersInv'
  <2>p. pc' \in [Requests -> Steps] /\ reply' \in [Requests -> Replies]
    BY <1>i, <1>5
    DEF TypeOK, Steps, Upstream, Replies, SessionTokensRemaining, GoTo, Return
  <2>r. req' \in [Requests -> Locals]
    BY <1>q, <1>5, NoRequestType, LocalsUpdate
    DEF SessionTokensRemaining, GoTo, Return
  <2>1. TypeOK'
    BY <1>i, <1>q, <1>5, <2>p, <2>r, ChatAssumption
    DEF TypeOK, counters, SessionTokensRemaining, GoTo, Return
  <2>2. Bookkeeping'
    BY <1>i, <1>q, <1>5, NoRequestType
    DEF TypeOK, Bookkeeping, Upstream, Owed, counters, SessionTokensRemaining,
       GoTo, Return
  <2>3. MessagesConserved'
    BY <1>i, <1>5
    DEF TypeOK, MessagesConserved, counters, SessionTokensRemaining, GoTo,
       Return
  <2>4. DeltasChargedOnce'
    BY <1>i, <1>q, <1>5, NoRequestType
    DEF TypeOK, DeltasChargedOnce, Bookkeeping, Owed, Upstream, counters,
       SessionTokensRemaining, GoTo, Return
  <2> QED
    BY <2>1, <2>2, <2>3, <2>4 DEF HandlersInv
<1>6. ASSUME NEW r \in Requests, ChargePrompt(r)
      PROVE  HandlersInv'
  <2>p. pc' \in [Requests -> Steps] /\ reply' \in [Requests -> Replies]
    BY <1>i, <1>6
    DEF TypeOK, Steps, Upstream, Replies, ChargePrompt, GoTo, BackendAdd,
       Account
  <2>r. req' \in [Requests -> Locals]
    <3>1. req' = [req EXCEPT ![r] = [req[r] EXCEPT !.unpaid = (UNCHANGED <<spend, lost>> /\ req[r].prompt > 0)]]
      BY <1>6 DEF ChargePrompt
    <3>2. [req[r] EXCEPT !.unpaid = (UNCHANGED <<spend, lost>> /\ req[r].prompt > 0)] \in Locals
      BY <1>q, LocalsUpdate
    <3> QED
      BY <1>q, <3>1, <3>2
  <2>a. spend' \in [Embeds -> Nat] /\ lost' \in [Conns -> Upserts]
    <3>1. PICK answered \in BOOLEAN :
            BackendAdd(Account(r), req[r].prompt, "prompt", answered)
      BY <1>6 DEF ChargePrompt
    <3>2. req[r].prompt <= MaxPrompt
      BY <1>i DEF Bookkeeping
    <3> QED
      BY <1>i, <1>q, <3>1, <3>2, BackendTypes
  <2>1. TypeOK'
    BY <1>i, <1>q, <1>6, <2>a, <2>p, <2>r, ChatAssumption
    DEF TypeOK, ChargePrompt, GoTo, Account
  <2>2. Bookkeeping'
    BY <1>i, <1>q, <1>6, NoRequestType
    DEF TypeOK, Bookkeeping, Upstream, Owed, counters, ChargePrompt, GoTo,
       BackendAdd, Account
  <2>3. MessagesConserved'
    BY <1>i, <1>6
    DEF TypeOK, MessagesConserved, counters, ChargePrompt, GoTo, BackendAdd,
       Account
  <2>4. DeltasChargedOnce'
    BY <1>i, <1>q, <1>6, NoRequestType
    DEF TypeOK, DeltasChargedOnce, Bookkeeping, Owed, Upstream, counters,
       ChargePrompt, GoTo, BackendAdd, Account
  <2> QED
    BY <2>1, <2>2, <2>3, <2>4 DEF HandlersInv
<1>7. ASSUME NEW r \in Requests, ChargePromptSession(r)
      PROVE  HandlersInv'
  <2>p. pc' \in [Requests -> Steps] /\ reply' \in [Requests -> Replies]
    BY <1>i, <1>7
    DEF TypeOK, Steps, Upstream, Replies, ChargePromptSession, SessionSpend,
       GoTo
  <2>r. req' \in [Requests -> Locals]
    BY <1>q, <1>7, NoRequestType, LocalsUpdate
    DEF ChargePromptSession, SessionSpend, GoTo
  <2>1. TypeOK'
    BY <1>i, <1>q, <1>7, <2>p, <2>r, ChatAssumption
    DEF TypeOK, counters, ChargePromptSession, SessionSpend, GoTo
  <2>2. Bookkeeping'
    BY <1>i, <1>q, <1>7, NoRequestType
    DEF TypeOK, Bookkeeping, Upstream, Owed, counters, ChargePromptSession,
       SessionSpend, GoTo
  <2>3. MessagesConserved'
    BY <1>i, <1>7
    DEF TypeOK, MessagesConserved, counters, ChargePromptSession,
       SessionSpend, GoTo
  <2>4. DeltasChargedOnce'
    BY <1>i, <1>q, <1>7, NoRequestType
    DEF TypeOK, DeltasChargedOnce, Bookkeeping, Owed, Upstream, counters,
       ChargePromptSession, SessionSpend, GoTo
  <2> QED
    BY <2>1, <2>2, <2>3, <2>4 DEF HandlersInv
<1>8. ASSUME NEW r \in Requests, Resolve(r)
      PROVE  HandlersInv'
  <2>p. pc' \in [Requests -> Steps] /\ reply' \in [Requests -> Replies]
    BY <1>i, <1>8
    DEF TypeOK, Steps, Upstream, Replies, Resolve, GoTo, Return
  <2>r. req' \in [Requests -> Locals]
    BY <1>q, <1>8, NoRequestType, LocalsUpdate
    DEF Resolve, GoTo, Return
  <2>1. TypeOK'
    BY <1>i, <1>q, <1>8, <2>p, <2>r, ChatAssumption
    DEF TypeOK, counters, Resolve, GoTo, Return
  <2>2. Bookkeeping'
    BY <1>i, <1>q, <1>8, NoRequestType
    DEF TypeOK, Bookkeeping, Upstream, Owed, counters, Resolve, GoTo, Return
  <2>3. MessagesConserved'
    BY <1>i, <1>8
    DEF TypeOK, MessagesConserved, counters, Resolve, GoTo, Return
  <2>4. DeltasChargedOnce'
    BY <1>i, <1>q, <1>8, NoRequestType
    DEF TypeOK, DeltasChargedOnce, Bookkeeping, Owed, Upstream, counters,
       Resolve, GoTo, Return
  <2> QED
    BY <2>1, <2>2, <2>3, <2>4 DEF HandlersInv
<1>9. ASSUME NEW r \in Requests, Deadline(r)
      PROVE  HandlersInv'
  <2>p. pc' \in [Requests -> Steps] /\ reply' \in [Requests -> Replies]
    BY <1>i, <1>9
    DEF TypeOK, Steps, Upstream, Replies, Deadline
  <2>r. req' \in [Requests -> Locals]
    <3>1. req' = [req EXCEPT ![r] = [req[r] EXCEPT !.late = TRUE]]
      BY <1>9 DEF Deadline
    <3>2. [req[r] EXCEPT !.late = TRUE] \in Locals
      BY <1>q, LocalsUpdate
    <3> QED
      BY <1>q, <3>1, <3>2
  <2>1. TypeOK'
    BY <1>i, <1>q, <1>9, <2>p, <2>r, ChatAssumption
    DEF TypeOK, counters, Deadline
  <2>2. Bookkeeping'
    BY <1>i, <1>q, <1>9, NoRequestType
    DEF TypeOK, Bookkeeping, Upstream, Owed, counters, Deadline
  <2>3. MessagesConserved'
    BY <1>i, <1>9
    DEF TypeOK, MessagesConserved, counters, Deadline
  <2>4. DeltasChargedOnce'
    BY <1>i, <1>q, <1>9, NoRequestType
    DEF TypeOK, DeltasChargedOnce, Bookkeeping, Owed, Upstream, counters,
       Deadline
  <2> QED
    BY <2>1, <2>2, <2>3, <2>4 DEF HandlersInv
<1>10. ASSUME NEW r \in Requests, NEW d \in Deltas, Delta(r, d)
      PROVE  HandlersInv'
  <2>p. pc' \in [Requests -> Steps] /\ reply' \in [Requests -> Replies]
    BY <1>i, <1>10
    DEF TypeOK, Steps, Upstream, Replies, Delta, GoTo
  <2>a. d \in Nat /\ req[r].text + d \in Nat
    BY <1>q, ChatAssumption
  <2>r. req' \in [Requests -> Locals]
    <3>1. req' = [req EXCEPT ![r] = [req[r] EXCEPT !.text = req[r].text + d]]
      BY <1>10 DEF Delta
    <3>2. [req[r] EXCEPT !.text = req[r].text + d] \in Locals
      BY <1>q, LocalsUpdate, <2>a
    <3> QED
      BY <1>q, <3>1, <3>2
  <2>1. TypeOK'
    BY <1>i, <1>q, <1>10, <2>p, <2>r, ChatAssumption
    DEF TypeOK, counters, Delta, GoTo
  <2>2. Bookkeeping'
    <3>1. EstimateTokens(req[r].text + d) - EstimateTokens(req[r].text) \in 0..MaxChunk
      BY <1>q, EstimateStep, ChatAssumption
    <3>2. EstimateTokens(req[r].text) = req[r].charged
      BY <1>i, <1>q, <1>10 DEF DeltasChargedOnce, Owed, Delta
    <3>3. /\ pc' = [pc EXCEPT ![r] = "write"]
          /\ req' = [req EXCEPT ![r].text = @ + d]
          /\ seeded' = seeded
      BY <1>10 DEF Delta, GoTo, counters
    <3>4. Owed(r)' \in 0..MaxChunk
      BY <1>q, <3>1, <3>2, <3>3 DEF Owed
    <3> QED
      BY <1>i, <1>q, <1>10, <3>3, <3>4
      DEF TypeOK, Bookkeeping, Upstream, Owed, Delta
  <2>3. MessagesConserved'
    BY <1>i, <1>10
    DEF TypeOK, MessagesConserved, counters, Delta, GoTo
  <2>4. DeltasChargedOnce'
    BY <1>i, <1>q, <1>10, NoRequestType
    DEF TypeOK, DeltasChargedOnce, Bookkeeping, Owed, Upstream, counters,
       Delta, GoTo
  <2> QED
    BY <2>1, <2>2, <2>3, <2>4 DEF HandlersInv
<1>11. ASSUME NEW r \in Requests, Write(r)
      PROVE  HandlersInv'
  <2>a. Owed(r) \in 0..MaxChunk
    BY <1>i, <1>11 DEF Bookkeeping, Upstream, Write
  <2>b. pc[r] = "write" /\ seeded' = seeded
    BY <1>11 DEF Write, counters
  <2>c. \/ /\ pc' = [pc EXCEPT ![r] = IF Owed(r) > 0 THEN "charge" ELSE "stream"]
           /\ req' = req
        \/ /\ pc' = [pc EXCEPT ![r] = "finish"]
           /\ req' = [req EXCEPT ![r].ending = "write"]
    BY <1>11 DEF Write, GoTo
  <2>d. \A s \in Requests : /\ req'[s].text = req[s].text
                             /\ req'[s].charged = req[s].charged
                             /\ req'[s].budget = req[s].budget
                             /\ req'[s].prompt = req[s].prompt
                             /\ req'[s].jti = req[s].jti
    BY <1>q, <2>c DEF Locals
  <2>e. \A s \in Requests : Owed(s)' = Owed(s)
    BY <2>d DEF Owed
  <2>p. pc' \in [Requests -> Steps] /\ reply' \in [Requests -> Replies]
    BY <1>i, <1>11
    DEF TypeOK, Steps, Upstream, Replies, Write, GoTo
  <2>r. req' \in [Requests -> Locals]
    <3>1. req' = req \/ req' = [req EXCEPT ![r] = [req[r] EXCEPT !.ending = "write"]]
      BY <1>11 DEF Write
    <3>2. [req[r] EXCEPT !.ending = "write"] \in Locals
      BY <1>q, LocalsUpdate DEF Endings
    <3> QED
      BY <1>q, <3>1, <3>2
  <2>1. TypeOK'
    BY <1>i, <1>q, <1>11, <2>p, <2>r, ChatAssumption
    DEF TypeOK, counters, Write, GoTo
  <2>2. Bookkeeping'
    BY <1>i, <1>q, <2>a, <2>b, <2>c, <2>d, <2>e
    DEF TypeOK, Bookkeeping, Upstream
  <2>3. MessagesConserved'
    BY <1>i, <1>11
    DEF TypeOK, MessagesConserved, counters, Write, GoTo
  <2>4. DeltasChargedOnce'
    <3> SUFFICES ASSUME NEW s \in Requests,
                        \/ pc'[s] = "stream"
                        \/ pc'[s] = "finish" /\ req'[s].ending # "write"
                 PROVE  Owed(s) = 0
      BY <2>e DEF DeltasChargedOnce
    <3>1. CASE s = r
      <4>1. pc'[r] # "finish" \/ req'[r].ending = "write"
        BY <1>i, <1>q, <2>c DEF TypeOK, Locals
      <4>2. pc'[r] = "stream"
        BY <3>1, <4>1
      <4>3. ~(Owed(r) > 0)
        BY <1>i, <2>c, <4>2 DEF TypeOK
      <4> QED
        BY <2>a, <3>1, <4>3
    <3>2. CASE s # r
      <4>1. pc'[s] = pc[s] /\ req'[s] = req[s]
        BY <1>i, <1>q, <2>c, <3>2 DEF TypeOK
      <4> QED
        BY <1>i, <4>1 DEF DeltasChargedOnce
    <3> QED
      BY <3>1, <3>2
  <2> QED
    BY <2>1, <2>2, <2>3, <2>4 DEF HandlersInv
<1>12. ASSUME NEW r \in Requests, ChargeDelta(r)
      PROVE  HandlersInv'
  <2>p. pc' \in [Requests -> Steps] /\ reply' \in [Requests -> Replies]
    BY <1>i, <1>12
    DEF TypeOK, Steps, Upstream, Replies, ChargeDelta, GoTo, BackendAdd,
       Account
  <2>r. req' \in [Requests -> Locals]
    <3>1. PICK known \in BOOLEAN :
            req' = [req EXCEPT ![r] = [req[r] EXCEPT !.out =
                      ~known \/ req[r].budget - spend'[Account(r)] <= 0]]
      BY <1>12 DEF ChargeDelta, DayUsedUp
    <3>2. [req[r] EXCEPT !.out =
             ~known \/ req[r].budget - spend'[Account(r)] <= 0] \in Locals
      BY <1>q, LocalsUpdate
    <3> QED
      BY <1>q, <3>1, <3>2
  <2>a. spend' \in [Embeds -> Nat] /\ lost' \in [Conns -> Upserts]
    <3>1. PICK answered \in BOOLEAN :
            BackendAdd(Account(r), Owed(r), "delta", answered)
      BY <1>12 DEF ChargeDelta
    <3>2. Owed(r) \in 0..MaxChunk
      BY <1>i, <1>12 DEF Bookkeeping, Upstream, ChargeDelta
    <3>3. Owed(r) \in Nat /\ Owed(r) <= MaxChunk
      BY <1>q, <3>2
    <3> QED
      BY <1>i, <1>q, <3>1, <3>3, BackendTypes
  <2>1. TypeOK'
    BY <1>i, <1>q, <1>12, <2>p, <2>r, ChatAssumption, <2>a
    DEF TypeOK, ChargeDelta, GoTo, Account
  <2>2. Bookkeeping'
    BY <1>i, <1>q, <1>12, NoRequestType
    DEF TypeOK, Bookkeeping, Upstream, Owed, counters, ChargeDelta, GoTo,
       BackendAdd, Account
  <2>3. MessagesConserved'
    BY <1>i, <1>12
    DEF TypeOK, MessagesConserved, counters, ChargeDelta, GoTo, BackendAdd,
       Account
  <2>4. DeltasChargedOnce'
    BY <1>i, <1>q, <1>12, NoRequestType
    DEF TypeOK, DeltasChargedOnce, Bookkeeping, Owed, Upstream, counters,
       ChargeDelta, GoTo, BackendAdd, Account
  <2> QED
    BY <2>1, <2>2, <2>3, <2>4 DEF HandlersInv
<1>13. ASSUME NEW r \in Requests, ChargeDeltaSession(r)
      PROVE  HandlersInv'
  <2>a. Owed(r) \in Nat /\ pc[r] = "chargeSession" /\ seeded' = seeded
    BY <1>i, <1>q, <1>13 DEF Bookkeeping, Upstream, ChargeDeltaSession
  <2> DEFINE paid == [req[r] EXCEPT !.charged = EstimateTokens(req[r].text)]
             stop == req[r].out \/ sessionToks'[req[r].jti] <= 0
             v == IF stop THEN [paid EXCEPT !.ending = "stop"] ELSE paid
  <2>b. /\ pc' = [pc EXCEPT ![r] = IF stop THEN "finish" ELSE "stream"]
        /\ req' = [req EXCEPT ![r] = v]
    BY <1>13 DEF ChargeDeltaSession, Stops, GoTo
  <2>c. /\ v \in Locals
        /\ v.jti = req[r].jti
        /\ v.budget = req[r].budget
        /\ v.prompt = req[r].prompt
        /\ v.text = req[r].text
        /\ v.charged = EstimateTokens(req[r].text)
    <3>1. paid \in Locals
      BY <1>q, LocalsUpdate
    <3>2. [paid EXCEPT !.ending = "stop"] \in Locals
      BY <3>1, LocalsUpdate DEF Endings
    <3>3. v \in Locals
      BY <3>1, <3>2
    <3> QED
      BY <1>q, <3>3 DEF Locals
  <2> HIDE DEF v
  <2>p. pc' \in [Requests -> Steps] /\ reply' \in [Requests -> Replies]
    BY <1>i, <1>13
    DEF TypeOK, Steps, Upstream, Replies, ChargeDeltaSession, SessionSpend,
       GoTo
  <2>r. req' \in [Requests -> Locals]
    BY <1>q, <2>b, <2>c
  <2>1. TypeOK'
    BY <1>i, <1>q, <1>13, <2>p, <2>r, ChatAssumption, <2>a
    DEF TypeOK, counters, ChargeDeltaSession, SessionSpend, GoTo
  <2>2. Bookkeeping'
    BY <1>i, <1>q, <2>a, <2>b, <2>c DEF TypeOK, Bookkeeping, Upstream, Owed
  <2>3. MessagesConserved'
    BY <1>i, <1>13
    DEF TypeOK, MessagesConserved, counters, ChargeDeltaSession, SessionSpend,
       GoTo
  <2>4. DeltasChargedOnce'
    BY <1>i, <1>q, <2>a, <2>b, <2>c DEF TypeOK, DeltasChargedOnce, Owed
  <2> QED
    BY <2>1, <2>2, <2>3, <2>4 DEF HandlersInv
<1>14. ASSUME NEW r \in Requests, UpstreamEnds(r)
      PROVE  HandlersInv'
  <2>p. pc' \in [Requests -> Steps] /\ reply' \in [Requests -> Replies]
    BY <1>i, <1>14
    DEF TypeOK, Steps, Upstream, Replies, UpstreamEnds, GoTo
  <2>r. req' \in [Requests -> Locals]
    <3>1. PICK how \in Endings : req' = [req EXCEPT ![r] = [req[r] EXCEPT !.ending = how]]
      BY <1>14 DEF UpstreamEnds, Endings
    <3>2. [req[r] EXCEPT !.ending = how] \in Locals
      BY <1>q, LocalsUpdate
    <3> QED
      BY <1>q, <3>1, <3>2
  <2>1. TypeOK'
    BY <1>i, <1>q, <1>14, <2>p, <2>r, ChatAssumption
    DEF TypeOK, counters, UpstreamEnds, GoTo
  <2>2. Bookkeeping'
    BY <1>i, <1>q, <1>14, NoRequestType
    DEF TypeOK, Bookkeeping, Upstream, Owed, counters, UpstreamEnds, GoTo
  <2>3. MessagesConserved'
    BY <1>i, <1>14
    DEF TypeOK, MessagesConserved, counters, UpstreamEnds, GoTo
  <2>4. DeltasChargedOnce'
    BY <1>i, <1>q, <1>14, NoRequestType
    DEF TypeOK, DeltasChargedOnce, Bookkeeping, Owed, Upstream, counters,
       UpstreamEnds, GoTo
  <2> QED
    BY <2>1, <2>2, <2>3, <2>4 DEF HandlersInv
<1>15. ASSUME NEW r \in Requests, Finish(r)
      PROVE  HandlersInv'
  <2>p. pc' \in [Requests -> Steps] /\ reply' \in [Requests -> Replies]
    BY <1>i, <1>15
    DEF TypeOK, Steps, Upstream, Replies, Finish, Return
  <2>r. req' \in [Requests -> Locals]
    BY <1>q, <1>15, NoRequestType, LocalsUpdate
    DEF Finish, Return
  <2>1. TypeOK'
    BY <1>i, <1>q, <1>15, <2>p, <2>r, ChatAssumption
    DEF TypeOK, counters, Finish, Return
  <2>2. Bookkeeping'
    BY <1>i, <1>q, <1>15, NoRequestType
    DEF TypeOK, Bookkeeping, Upstream, Owed, counters, Finish, Return
  <2>3. MessagesConserved'
    BY <1>i, <1>15
    DEF TypeOK, MessagesConserved, counters, Finish, Return
  <2>4. DeltasChargedOnce'
    BY <1>i, <1>q, <1>15, NoRequestType
    DEF TypeOK, DeltasChargedOnce, Bookkeeping, Owed, Upstream, counters,
       Finish, Return
  <2> QED
    BY <2>1, <2>2, <2>3, <2>4 DEF HandlersInv
<1>16. ASSUME NEW e \in Embeds,
             NEW c \in [enabled : BOOLEAN, daily : DailyBudgets],
             Reconfigure(e, c)
      PROVE  HandlersInv'
  <2>p. pc' \in [Requests -> Steps] /\ reply' \in [Requests -> Replies]
    BY <1>i, <1>16
    DEF TypeOK, Steps, Upstream, Replies, Reconfigure
  <2>r. req' \in [Requests -> Locals]
    BY <1>q, <1>16, NoRequestType, LocalsUpdate
    DEF Reconfigure
  <2>1. TypeOK'
    BY <1>i, <1>q, <1>16, <2>p, <2>r, ChatAssumption
    DEF TypeOK, counters, Reconfigure
  <2>2. Bookkeeping'
    BY <1>i, <1>q, <1>16, NoRequestType
    DEF TypeOK, Bookkeeping, Upstream, Owed, counters, Reconfigure
  <2>3. MessagesConserved'
    BY <1>i, <1>16
    DEF TypeOK, MessagesConserved, counters, Reconfigure
  <2>4. DeltasChargedOnce'
    BY <1>i, <1>q, <1>16, NoRequestType
    DEF TypeOK, DeltasChargedOnce, Bookkeeping, Owed, Upstream, counters,
       Reconfigure
  <2> QED
    BY <2>1, <2>2, <2>3, <2>4 DEF HandlersInv
<1>17. CASE Midnight
  <2>p. pc' \in [Requests -> Steps] /\ reply' \in [Requests -> Replies]
    BY <1>i, <1>17
    DEF TypeOK, Steps, Upstream, Replies, Midnight
  <2>r. req' \in [Requests -> Locals]
    BY <1>q, <1>17, NoRequestType, LocalsUpdate
    DEF Midnight
  <2>1. TypeOK'
    BY <1>i, <1>q, <1>17, <2>p, <2>r, ChatAssumption
    DEF TypeOK, counters, Midnight
  <2>2. Bookkeeping'
    BY <1>i, <1>q, <1>17, NoRequestType
    DEF TypeOK, Bookkeeping, Upstream, Owed, counters, Midnight
  <2>3. MessagesConserved'
    BY <1>i, <1>17
    DEF TypeOK, MessagesConserved, counters, Midnight
  <2>4. DeltasChargedOnce'
    BY <1>i, <1>q, <1>17, NoRequestType
    DEF TypeOK, DeltasChargedOnce, Bookkeeping, Owed, Upstream, counters,
       Midnight
  <2> QED
    BY <2>1, <2>2, <2>3, <2>4 DEF HandlersInv
<1>18. CASE Restart
  <2>a. embed' \in [Embeds -> [enabled : BOOLEAN, daily : DailyBudgets]]
    BY <1>18 DEF Restart
  <2>b. spend' \in [Embeds -> Nat]
    BY <1>i, <1>18 DEF TypeOK, Restart, SpendAfterRestart
  <2>p. pc' \in [Requests -> Steps] /\ reply' \in [Requests -> Replies]
    BY <1>i, <1>18
    DEF TypeOK, Steps, Upstream, Replies, Restart
  <2>r. req' \in [Requests -> Locals]
    BY <1>q, <1>18, NoRequestType, LocalsUpdate
    DEF Restart
  <2>1. TypeOK'
    BY <1>i, <1>q, <1>18, <2>p, <2>r, ChatAssumption, <2>a, <2>b
    DEF TypeOK, counters, Restart
  <2>2. Bookkeeping'
    BY <1>i, <1>q, <1>18, NoRequestType
    DEF TypeOK, Bookkeeping, Upstream, Owed, counters, Restart
  <2>3. MessagesConserved'
    BY <1>i, <1>18
    DEF TypeOK, MessagesConserved, counters, Restart
  <2>4. DeltasChargedOnce'
    BY <1>i, <1>q, <1>18, NoRequestType
    DEF TypeOK, DeltasChargedOnce, Bookkeeping, Owed, Upstream, counters,
       Restart
  <2> QED
    BY <2>1, <2>2, <2>3, <2>4 DEF HandlersInv
<1>20. ASSUME NEW c \in Conns, Lands(c)
      PROVE  HandlersInv'
  <2>a. spend' \in [Embeds -> Nat] /\ lost' \in [Conns -> Upserts]
    <3>1. lost[c] \in Upserts /\ spend \in [Embeds -> Nat] /\ lost \in [Conns -> Upserts]
      BY <1>i DEF TypeOK
    <3>2. lost[c].tokens \in Nat /\ lost[c].embed \in Embeds
      BY <3>1 DEF Upserts
    <3> QED
      BY <1>20, <3>1, <3>2, NoUpsertType DEF Lands
  <2>b. UNCHANGED <<day, embed, seeded, sessionMsgs, sessionToks, pc, req, reply,
                    admitted>>
    BY <1>20 DEF Lands
  <2>1. TypeOK'
    BY <1>i, <2>a, <2>b DEF TypeOK
  <2>2. Bookkeeping'
    BY <1>i, <2>b DEF Bookkeeping, Owed
  <2>3. MessagesConserved'
    BY <1>i, <2>b DEF MessagesConserved
  <2>4. DeltasChargedOnce'
    BY <1>i, <2>b DEF DeltasChargedOnce, Owed
  <2> QED
    BY <2>1, <2>2, <2>3, <2>4 DEF HandlersInv
<1>19. CASE UNCHANGED vars
  <2>p. pc' \in [Requests -> Steps] /\ reply' \in [Requests -> Replies]
    BY <1>i, <1>19
    DEF TypeOK, Steps, Upstream, Replies, vars
  <2>r. req' \in [Requests -> Locals]
    BY <1>q, <1>19, NoRequestType, LocalsUpdate
    DEF vars
  <2>1. TypeOK'
    BY <1>i, <1>q, <1>19, <2>p, <2>r, ChatAssumption
    DEF TypeOK, counters, vars
  <2>2. Bookkeeping'
    BY <1>i, <1>q, <1>19, NoRequestType
    DEF TypeOK, Bookkeeping, Upstream, Owed, counters, vars
  <2>3. MessagesConserved'
    BY <1>i, <1>19
    DEF TypeOK, MessagesConserved, counters, vars
  <2>4. DeltasChargedOnce'
    BY <1>i, <1>q, <1>19, NoRequestType
    DEF TypeOK, DeltasChargedOnce, Bookkeeping, Owed, Upstream, counters, vars
  <2> QED
    BY <2>1, <2>2, <2>3, <2>4 DEF HandlersInv
<1> QED
  BY <1>1, <1>2, <1>3, <1>4, <1>5, <1>6, <1>7, <1>8, <1>9, <1>10, <1>11,
     <1>12, <1>13, <1>14, <1>15, <1>16, <1>17, <1>18, <1>19, <1>20
     DEF Next, Handler

LEMMA LostNext == ChatInv /\ [Next]_vars => LostAreCharges'
<1> SUFFICES ASSUME ChatInv, [Next]_vars PROVE LostAreCharges'
  OBVIOUS
<1>i. TypeOK /\ Bookkeeping /\ LostAreCharges
  BY DEF ChatInv, WellFormed
<1>1. ASSUME NEW r \in Requests, ChargePrompt(r) \/ ChargeDelta(r)
      PROVE  LostAreCharges'
  <2>q. /\ Account(r) \in Embeds
        /\ req[r].prompt \in Nat /\ req[r].prompt <= MaxPrompt
        /\ pc[r] = "charge" => Owed(r) \in Nat /\ Owed(r) <= MaxChunk
    <3>1. req[r] \in Locals /\ MaxChunk \in Nat
      BY <1>i, MostType DEF TypeOK
    <3> QED
      BY <1>i, <3>1, ChatAssumption DEF Account, Locals, Bookkeeping, Upstream
  <2>1. CASE ChargePrompt(r)
    <3>1. PICK answered \in BOOLEAN :
            BackendAdd(Account(r), req[r].prompt, "prompt", answered)
      BY <2>1 DEF ChargePrompt
    <3> QED
      BY <1>i, <2>q, <3>1, BackendTypes
  <2>2. CASE ChargeDelta(r)
    <3>1. PICK answered \in BOOLEAN :
            BackendAdd(Account(r), Owed(r), "delta", answered)
      BY <2>2 DEF ChargeDelta
    <3> QED
      BY <1>i, <2>2, <2>q, <3>1, BackendTypes DEF ChargeDelta
  <2> QED
    BY <1>1, <2>1, <2>2
<1>2. ASSUME NEW c \in Conns, Lands(c)
      PROVE  LostAreCharges'
  <2>1. lost \in [Conns -> Upserts] /\ lost' = [lost EXCEPT ![c] = NoUpsert]
    BY <1>i, <1>2 DEF TypeOK, Lands
  <2>2. NoUpsert.of = "nothing"
    BY DEF NoUpsert
  <2> QED
    BY <1>i, <2>1, <2>2 DEF LostAreCharges
<1>3. CASE UNCHANGED lost
  BY <1>i, <1>3 DEF LostAreCharges
<1> QED
  BY <1>1, <1>2, <1>3
     DEF Next, Handler, Start, InitSession, ConsumeMessage, SpendAvailable,
         SessionTokensRemaining, ChargePromptSession, Resolve, Deadline,
         Delta, Write, ChargeDeltaSession, UpstreamEnds, Finish,
         Reconfigure, Midnight, Restart, counters, vars

LEMMA NextInv == ChatInv /\ [Next]_vars => ChatInv'
BY HandlersNext, LostNext DEF HandlersInv, ChatInv, WellFormed

(* Every variable has its type, and handlers know what they should. *)
THEOREM TypeCorrect == Spec => []WellFormed
<1>1. ChatInv => WellFormed
  BY DEF ChatInv
<1> QED
  BY <1>1, InitInv, NextInv, PTL DEF Spec

(* No session sends more messages than its token says, however its         *)
(* requests overlap.                                                       *)
THEOREM MessageBudget == Spec => []MessagesConserved
<1>1. ChatInv => MessagesConserved
  BY DEF ChatInv
<1> QED
  BY <1>1, InitInv, NextInv, PTL DEF Spec

(* What was streamed is what was charged, delta by delta. *)
THEOREM DeltaCharging == Spec => []DeltasChargedOnce
<1>1. ChatInv => DeltasChargedOnce
  BY DEF ChatInv
<1> QED
  BY <1>1, InitInv, NextInv, PTL DEF Spec

(* Charges are never negative. *)
LEMMA ChargesAreNat ==
  ASSUME ChatInv, NEW r \in Requests
  PROVE  /\ Account(r) \in Embeds
         /\ req[r].jti \in Jtis
         /\ req[r].budget \in Int
         /\ req[r].budget <= MaxDaily
         /\ req[r].prompt \in 0..MaxPrompt
         /\ pc[r] \in Upstream => Owed(r) \in 0..MaxChunk
<1>1. TypeOK /\ Bookkeeping
  BY DEF ChatInv, WellFormed
<1>2. req[r] \in Locals
  BY <1>1 DEF TypeOK
<1>3. /\ req[r].jti \in Jtis
      /\ req[r].budget \in Int
      /\ req[r].prompt \in Nat
  BY <1>2 DEF Locals
<1>4. MaxPrompt \in Nat
  BY ChatAssumption, EstimateType DEF MaxPrompt
<1> QED
  BY <1>1, <1>3, <1>4, ChatAssumption DEF Bookkeeping, Account

(* With Postgres the recorded spend of a day never falls, restarts         *)
(* included.                                                               *)
THEOREM SpendIsKept == Spec => SpendSurvives
<1>1. ChatInv /\ [Next]_vars
        => [Durable /\ day' = day => \A e \in Embeds : spend'[e] >= spend[e]]_vars
  <2> SUFFICES ASSUME ChatInv, Next, Durable, day' = day, NEW e \in Embeds
               PROVE  spend'[e] >= spend[e]
    BY DEF vars
  <2>t. spend \in [Embeds -> Nat]
    BY DEF ChatInv, WellFormed, TypeOK
  <2>a. ASSUME NEW f \in Embeds, NEW k \in Nat, NEW what, NEW answered \in BOOLEAN,
               BackendAdd(f, k, what, answered)
        PROVE  spend'[e] >= spend[e]
    BY <2>t, <2>a DEF BackendAdd
  <2>1. ASSUME NEW r \in Requests, ChargePrompt(r)
        PROVE  spend'[e] >= spend[e]
    BY <2>a, <2>1, ChargesAreNat DEF ChargePrompt
  <2>2. ASSUME NEW r \in Requests, ChargeDelta(r)
        PROVE  spend'[e] >= spend[e]
    <3>1. Owed(r) \in Nat
      BY <2>2, ChargesAreNat DEF ChargeDelta, Upstream
    <3> QED
      BY <2>a, <2>2, <3>1, ChargesAreNat DEF ChargeDelta
  <2>l. ASSUME NEW c \in Conns, Lands(c)
        PROVE  spend'[e] >= spend[e]
    <3>1. lost[c] \in Upserts
      BY DEF ChatInv, WellFormed, TypeOK
    <3>2. lost[c].tokens \in Nat /\ lost[c].embed \in Embeds
      BY <3>1 DEF Upserts
    <3> QED
      BY <2>t, <2>l, <3>2 DEF Lands
  <2>3. \/ \E r \in Requests : ChargePrompt(r) \/ ChargeDelta(r)
        \/ \E c \in Conns : Lands(c)
        \/ Midnight
        \/ spend' = spend
    BY DEF Next, Handler, Start, InitSession, ConsumeMessage, SpendAvailable,
           SessionTokensRemaining, ChargePromptSession, Resolve, Deadline,
           Delta, Write, ChargeDeltaSession, UpstreamEnds, Finish,
           Reconfigure, Restart, SpendAfterRestart, counters
  <2>4. ~Midnight
    <3>1. day \in Nat
      BY ChatAssumption DEF ChatInv, WellFormed, TypeOK
    <3> QED
      BY <3>1 DEF Midnight
  <2> QED
    BY <2>t, <2>1, <2>2, <2>3, <2>4, <2>l
<1> QED
  BY <1>1, InitInv, NextInv, PTL DEF Spec, SpendSurvives
-----------------------------------------------------------------------------
(* Chat implements Meter twice, for the daily budget of every embed and    *)
(* for the token budget of every session: each step of a handler is one of *)
(* the meter, or none.  What MeterProofs proves of every meter then holds  *)
(* of the daily spend and of what a session has used.                      *)

-----------------------------------------------------------------------------
(* Groups of handlers *)

(* Handlers that neither enter nor leave nor change account: same groups.  *)
LEMMA GroupSame ==
  ASSUME NEW E, NEW ph, NEW ac, NEW ph2, NEW ac2, NEW p,
         \A q \in Requests : ph2[q] = p <=> ph[q] = p,
         \A q \in Requests : ph[q] = p => ac2[q] = ac[q]
  PROVE  Group(E, ph2, ac2, p) = Group(E, ph, ac, p)
BY DEF Group

(* A step of handler r is none of another handler's business. *)
LEMMA Frame ==
  ASSUME ChatInv, NEW r \in Requests,
         Handler(r) \/ \E j \in Jtis, n \in Prompts : Start(r, j, n)
  PROVE  \A q \in Requests \ {r} : pc'[q] = pc[q] /\ req'[q] = req[q]
<1>1. pc \in [Requests -> Steps] /\ req \in [Requests -> Locals]
  BY DEF ChatInv, WellFormed, TypeOK
<1>2. ASSUME NEW x, GoTo(r, x)
      PROVE  \A q \in Requests \ {r} : pc'[q] = pc[q]
  BY <1>1, <1>2 DEF GoTo
<1>3. ASSUME NEW x, Return(r, x)
      PROVE  \A q \in Requests \ {r} : pc'[q] = pc[q] /\ req'[q] = req[q]
  BY <1>1, <1>3 DEF Return
<1> QED
  BY <1>1, <1>2, <1>3
     DEF Handler, Start, InitSession, ConsumeMessage, SpendAvailable,
         SessionTokensRemaining, ChargePrompt, ChargePromptSession, Resolve,
         Deadline, Delta, Write, ChargeDelta, ChargeDeltaSession,
         UpstreamEnds, Finish

-----------------------------------------------------------------------------
(* Phases of the daily budget *)

LEMMA DayFrame ==
  ASSUME NEW r \in Requests,
         \A q \in Requests \ {r} : pc'[q] = pc[q] /\ req'[q] = req[q]
  PROVE  \A q \in Requests \ {r} :
           DayPhase'[q] = DayPhase[q] /\ DayAccount'[q] = DayAccount[q]
BY DEF DayPhase, DayAccount, Account

(* Upserts nobody waits for: connection c is left with one, and lands it.  *)
Takes(c, e, what) ==
  /\ lost[c] = NoUpsert
  /\ \E k \in Nat :
       lost' = [lost EXCEPT ![c] = [embed |-> e, tokens |-> k, of |-> what]]

LostAt(l, what, e) == {c \in Conns : l[c].of = what /\ l[c].embed = e}

LEMMA LostSame ==
  ASSUME lost' = lost
  PROVE  /\ LostFor("prompt")' = LostFor("prompt")
         /\ LostFor("delta")' = LostFor("delta")
BY DEF LostFor

LEMMA LostTakes ==
  ASSUME lost \in [Conns -> Upserts], NEW c \in Conns, NEW e \in Embeds,
         NEW what \in {"prompt", "delta"}, Takes(c, e, what)
  PROVE  /\ c \in DailyMeter!Free
         /\ LostFor(what)' = [LostFor(what) EXCEPT ![e] = @ \cup {c}]
         /\ \A other \in {"prompt", "delta"} \ {what} :
              LostFor(other)' = LostFor(other)
<1>1. lost[c].of = "nothing"
  BY DEF Takes, NoUpsert
<1>2. /\ lost'[c].of = what /\ lost'[c].embed = e
      /\ \A d \in Conns \ {c} : lost'[d] = lost[d]
  BY DEF Takes
<1>3. c \in DailyMeter!Free
  BY <1>1 DEF DailyMeter!Free, LostFor
<1>4. \A x \in Embeds :
        LostAt(lost', what, x) = IF x = e THEN LostAt(lost, what, x) \cup {c}
                                          ELSE LostAt(lost, what, x)
  BY <1>1, <1>2 DEF LostAt
<1>5. LostFor(what)' = [LostFor(what) EXCEPT ![e] = @ \cup {c}]
  <2>1. /\ LostFor(what) = [x \in Embeds |-> LostAt(lost, what, x)]
        /\ LostFor(what)' = [x \in Embeds |-> LostAt(lost', what, x)]
    BY DEF LostFor, LostAt
  <2> QED
    BY <1>4, <2>1
<1>6. ASSUME NEW other \in {"prompt", "delta"}, other # what
      PROVE  LostFor(other)' = LostFor(other)
  <2>1. \A x \in Embeds : LostAt(lost', other, x) = LostAt(lost, other, x)
    BY <1>1, <1>2, <1>6 DEF LostAt
  <2>2. [x \in Embeds |-> LostAt(lost', other, x)] = [x \in Embeds |-> LostAt(lost, other, x)]
    BY <2>1
  <2>3. /\ LostFor(other) = [x \in Embeds |-> LostAt(lost, other, x)]
        /\ LostFor(other)' = [x \in Embeds |-> LostAt(lost', other, x)]
    BY DEF LostFor, LostAt
  <2> QED
    BY <2>2, <2>3
<1> QED
  BY <1>3, <1>5, <1>6

LEMMA LostLands ==
  ASSUME lost \in [Conns -> Upserts], NEW c \in Conns, NEW e \in Embeds,
         NEW what \in {"prompt", "delta"},
         lost[c].of = what, lost[c].embed = e,
         lost' = [lost EXCEPT ![c] = NoUpsert]
  PROVE  /\ c \in LostFor(what)[e]
         /\ LostFor(what)' = [LostFor(what) EXCEPT ![e] = @ \ {c}]
         /\ \A other \in {"prompt", "delta"} \ {what} :
              LostFor(other)' = LostFor(other)
<1>1. /\ lost'[c].of = "nothing"
      /\ \A d \in Conns \ {c} : lost'[d] = lost[d]
  BY DEF NoUpsert
<1>2. c \in LostFor(what)[e]
  BY DEF LostFor
<1>3. \A x \in Embeds :
        LostAt(lost', what, x) = IF x = e THEN LostAt(lost, what, x) \ {c}
                                          ELSE LostAt(lost, what, x)
  BY <1>1 DEF LostAt
<1>4. LostFor(what)' = [LostFor(what) EXCEPT ![e] = @ \ {c}]
  <2>1. /\ LostFor(what) = [x \in Embeds |-> LostAt(lost, what, x)]
        /\ LostFor(what)' = [x \in Embeds |-> LostAt(lost', what, x)]
    BY DEF LostFor, LostAt
  <2>2. LostFor(what)' = [x \in Embeds |-> IF x = e THEN LostAt(lost, what, x) \ {c}
                                                   ELSE LostAt(lost, what, x)]
    BY <1>3, <2>1
  <2>3. [LostFor(what) EXCEPT ![e] = @ \ {c}]
          = [x \in Embeds |-> IF x = e THEN LostAt(lost, what, x) \ {c}
                                      ELSE LostAt(lost, what, x)]
    BY <2>1
  <2> QED
    BY <2>2, <2>3
<1>5. ASSUME NEW other \in {"prompt", "delta"}, other # what
      PROVE  LostFor(other)' = LostFor(other)
  <2>1. \A x \in Embeds : LostAt(lost', other, x) = LostAt(lost, other, x)
    BY <1>1, <1>5 DEF LostAt
  <2>2. [x \in Embeds |-> LostAt(lost', other, x)] = [x \in Embeds |-> LostAt(lost, other, x)]
    BY <2>1
  <2>3. /\ LostFor(other) = [x \in Embeds |-> LostAt(lost, other, x)]
        /\ LostFor(other)' = [x \in Embeds |-> LostAt(lost', other, x)]
    BY DEF LostFor, LostAt
  <2> QED
    BY <2>2, <2>3
<1> QED
  BY <1>2, <1>4, <1>5

(* A step that records no spend and moves no handler is none of the meter. *)
LEMMA DayQuiet ==
  ASSUME spend' = spend, lost' = lost,
         \A q \in Requests : DayPhase'[q] = DayPhase[q],
         \A q \in Requests : DayPhase[q] # "out" => DayAccount'[q] = DayAccount[q]
  PROVE  UNCHANGED DailyMeter!vars
<1>1. Group(Embeds, DayPhase, DayAccount, "checked")'
        = Group(Embeds, DayPhase, DayAccount, "checked")
  <2>1. Group(Embeds, DayPhase', DayAccount', "checked")
          = Group(Embeds, DayPhase, DayAccount, "checked")
    BY GroupSame
  <2> QED
    BY <2>1 DEF Group
<1>2. Group(Embeds, DayPhase, DayAccount, "streaming")'
        = Group(Embeds, DayPhase, DayAccount, "streaming")
  <2>1. Group(Embeds, DayPhase', DayAccount', "streaming")
          = Group(Embeds, DayPhase, DayAccount, "streaming")
    BY GroupSame
  <2> QED
    BY <2>1 DEF Group
<1> QED
  BY <1>1, <1>2, LostSame DEF DailyMeter!vars, DailyMeter!late

(* A step of r that keeps its account moves it in the groups of that       *)
(* account alone.                                                          *)
LEMMA DayMove ==
  ASSUME NEW r \in Requests, NEW a \in Embeds,
         \A q \in Requests \ {r} :
           DayPhase'[q] = DayPhase[q] /\ DayAccount'[q] = DayAccount[q],
         DayPhase[r] # "out" => DayAccount[r] = a,
         DayPhase'[r] # "out" => DayAccount'[r] = a
  PROVE  \A p \in {"checked", "streaming"} :
           LET G == Group(Embeds, DayPhase, DayAccount, p) IN
           /\ DayPhase'[r] = p => G' = [G EXCEPT ![a] = @ \cup {r}]
           /\ DayPhase'[r] # p => G' = [G EXCEPT ![a] = @ \ {r}]
           /\ DayPhase[r] = p <=> r \in G[a]
           /\ (DayPhase[r] = p <=> DayPhase'[r] = p) => G' = G
<1> SUFFICES ASSUME NEW p \in {"checked", "streaming"}
             PROVE  LET G == Group(Embeds, DayPhase, DayAccount, p) IN
                    /\ DayPhase'[r] = p => G' = [G EXCEPT ![a] = @ \cup {r}]
                    /\ DayPhase'[r] # p => G' = [G EXCEPT ![a] = @ \ {r}]
                    /\ DayPhase[r] = p <=> r \in G[a]
                    /\ (DayPhase[r] = p <=> DayPhase'[r] = p) => G' = G
  OBVIOUS
<1>1. Group(Embeds, DayPhase, DayAccount, p)'
        = Group(Embeds, DayPhase', DayAccount', p)
  BY DEF Group
<1>2. (DayPhase[r] = p <=> DayPhase'[r] = p)
        => Group(Embeds, DayPhase', DayAccount', p)
             = Group(Embeds, DayPhase, DayAccount, p)
  BY GroupSame
<1>3. /\ DayPhase'[r] = p => Group(Embeds, DayPhase', DayAccount', p)
                = [Group(Embeds, DayPhase, DayAccount, p) EXCEPT ![a] = @ \cup {r}]
      /\ DayPhase'[r] # p => Group(Embeds, DayPhase', DayAccount', p)
                = [Group(Embeds, DayPhase, DayAccount, p) EXCEPT ![a] = @ \ {r}]
      /\ DayPhase[r] = p <=> r \in Group(Embeds, DayPhase, DayAccount, p)[a]
  BY ZenonT(30) DEF Group
<1> QED
  BY <1>1, <1>2, <1>3

(* The ways a handler moves that the meter sees. *)
DayMoves(r, a) ==
  \/ /\ DayPhase[r] = "out" /\ DayPhase'[r] = "checked"
     /\ spend[a] < MaxDaily /\ spend' = spend /\ lost' = lost
  \/ /\ DayPhase[r] = "checked" /\ DayPhase'[r] = "streaming"
     /\ \E k \in 0..MaxPrompt : spend' = [spend EXCEPT ![a] = @ + k]
     /\ lost' = lost
  \/ /\ DayPhase[r] = "checked" /\ DayPhase'[r] = "streaming"
     /\ spend' = spend
     /\ \E c \in Conns : Takes(c, a, "prompt")
  \/ /\ DayPhase[r] = "streaming" /\ DayPhase'[r] \in {"streaming", "out"}
     /\ \E k \in 0..MaxChunk : spend' = [spend EXCEPT ![a] = @ + k]
     /\ DayPhase'[r] = "streaming" => spend'[a] < MaxDaily
     /\ lost' = lost
  \/ /\ DayPhase[r] = "streaming" /\ DayPhase'[r] = "out"
     /\ spend' = spend
     /\ \E c \in Conns : Takes(c, a, "delta")
  \/ /\ DayPhase[r] \in {"checked", "streaming"} /\ DayPhase'[r] = "out"
     /\ spend' = spend /\ lost' = lost

DayStep(r, a) ==
  \/ DailyMeter!Admit(r, a)
  \/ DailyMeter!ChargePrompt(r, a)
  \/ DailyMeter!ChargeChunk(r, a)
  \/ DailyMeter!Leave(r, a)
  \/ \E c \in Conns : DailyMeter!LosePrompt(r, a, c) \/ DailyMeter!LoseChunk(r, a, c)

LEMMA DaySteps ==
  ASSUME lost \in [Conns -> Upserts], NEW r \in Requests, NEW a \in Embeds,
         \A q \in Requests \ {r} :
           DayPhase'[q] = DayPhase[q] /\ DayAccount'[q] = DayAccount[q],
         DayPhase[r] # "out" => DayAccount[r] = a,
         DayPhase'[r] # "out" => DayAccount'[r] = a,
         DayMoves(r, a)
  PROVE  DayStep(r, a)
<1> DEFINE C == Group(Embeds, DayPhase, DayAccount, "checked")
           S == Group(Embeds, DayPhase, DayAccount, "streaming")
           P == LostFor("prompt")
           D == LostFor("delta")
<1>1. /\ DayPhase'[r] = "checked" => C' = [C EXCEPT ![a] = @ \cup {r}]
      /\ DayPhase'[r] # "checked" => C' = [C EXCEPT ![a] = @ \ {r}]
      /\ DayPhase[r] = "checked" <=> r \in C[a]
      /\ (DayPhase[r] = "checked" <=> DayPhase'[r] = "checked") => C' = C
  BY DayMove
<1>2. /\ DayPhase'[r] = "streaming" => S' = [S EXCEPT ![a] = @ \cup {r}]
      /\ DayPhase'[r] # "streaming" => S' = [S EXCEPT ![a] = @ \ {r}]
      /\ DayPhase[r] = "streaming" <=> r \in S[a]
      /\ (DayPhase[r] = "streaming" <=> DayPhase'[r] = "streaming") => S' = S
  BY DayMove
<1>3. DayPhase[r] = "out" => r \in DailyMeter!Idle
  BY DEF DailyMeter!Idle, Group
<1>4. [e \in Embeds |-> MaxDaily][a] = MaxDaily
  OBVIOUS
<1>l. lost' = lost => P' = P /\ D' = D
  BY LostSame
<1>p. ASSUME NEW c \in Conns, Takes(c, a, "prompt")
      PROVE  c \in DailyMeter!Free /\ P' = [P EXCEPT ![a] = @ \cup {c}] /\ D' = D
  BY <1>p, LostTakes
<1>d. ASSUME NEW c \in Conns, Takes(c, a, "delta")
      PROVE  c \in DailyMeter!Free /\ D' = [D EXCEPT ![a] = @ \cup {c}] /\ P' = P
  BY <1>d, LostTakes
<1> HIDE DEF C, S, P, D
<1>5. ASSUME DayPhase[r] = "out", DayPhase'[r] = "checked",
             spend[a] < MaxDaily, spend' = spend, lost' = lost
      PROVE  DailyMeter!Admit(r, a)
  BY <1>1, <1>2, <1>3, <1>4, <1>l, <1>5
     DEF DailyMeter!Admit, DailyMeter!late, C, S, P, D
<1>6. ASSUME DayPhase[r] = "checked", DayPhase'[r] = "streaming",
             \E k \in 0..MaxPrompt : spend' = [spend EXCEPT ![a] = @ + k],
             lost' = lost
      PROVE  DailyMeter!ChargePrompt(r, a)
  BY <1>1, <1>2, <1>l, <1>6
     DEF DailyMeter!ChargePrompt, DailyMeter!late, C, S, P, D
<1>7. ASSUME DayPhase[r] = "streaming", DayPhase'[r] \in {"streaming", "out"},
             \E k \in 0..MaxChunk : spend' = [spend EXCEPT ![a] = @ + k],
             DayPhase'[r] = "streaming" => spend'[a] < MaxDaily, lost' = lost
      PROVE  DailyMeter!ChargeChunk(r, a)
  BY <1>1, <1>2, <1>4, <1>l, <1>7
     DEF DailyMeter!ChargeChunk, DailyMeter!StaysBelow, DailyMeter!late, C, S, P, D
<1>8. ASSUME DayPhase[r] \in {"checked", "streaming"}, DayPhase'[r] = "out",
             spend' = spend, lost' = lost
      PROVE  DailyMeter!Leave(r, a)
  BY <1>1, <1>2, <1>l, <1>8 DEF DailyMeter!Leave, DailyMeter!late, C, S, P, D
<1>9. ASSUME DayPhase[r] = "checked", DayPhase'[r] = "streaming", spend' = spend,
             NEW c \in Conns, Takes(c, a, "prompt")
      PROVE  DailyMeter!LosePrompt(r, a, c)
  BY <1>1, <1>2, <1>p, <1>9 DEF DailyMeter!LosePrompt, C, S, P, D
<1>10. ASSUME DayPhase[r] = "streaming", DayPhase'[r] = "out", spend' = spend,
              NEW c \in Conns, Takes(c, a, "delta")
       PROVE  DailyMeter!LoseChunk(r, a, c)
  BY <1>1, <1>2, <1>d, <1>10 DEF DailyMeter!LoseChunk, C, S, P, D
<1> QED
  BY <1>5, <1>6, <1>7, <1>8, <1>9, <1>10 DEF DayMoves, DayStep

(* Some amount of at most k is recorded, or no answer comes and the upsert *)
(* is left to a connection.                                                *)
LEMMA Recorded ==
  ASSUME spend \in [Embeds -> Nat], NEW e \in Embeds, NEW what,
         NEW M \in Nat, NEW k \in 0..M, NEW answered,
         BackendAdd(e, k, what, answered)
  PROVE  /\ \/ /\ \E i \in 0..M : spend' = [spend EXCEPT ![e] = @ + i]
               /\ lost' = lost
            \/ /\ ~answered
               /\ spend' = spend
               /\ \E c \in Conns : Takes(c, e, what)
         /\ spend'[e] \in Nat
<1>1. CASE spend' = [spend EXCEPT ![e] = @ + k] /\ lost' = lost
  <2>1. \E i \in 0..M : spend' = [spend EXCEPT ![e] = @ + i]
    BY <1>1, Zenon
  <2>2. spend'[e] = spend[e] + k /\ k \in Nat /\ spend[e] \in Nat
    BY <1>1
  <2>3. spend'[e] \in Nat
    BY <2>2
  <2> QED
    BY <1>1, <2>1, <2>3, Zenon
<1>2. CASE UNCHANGED <<spend, lost>>
  <2>1. spend' = [spend EXCEPT ![e] = @ + 0]
    BY <1>2
  <2>2. 0 \in 0..M
    OBVIOUS
  <2>3. \E i \in 0..M : spend' = [spend EXCEPT ![e] = @ + i]
    BY <2>1, <2>2, Zenon
  <2> QED
    BY <1>2, <2>3
<1>3. CASE /\ ~answered /\ UNCHANGED spend
           /\ \E c \in Conns :
                /\ lost[c] = NoUpsert
                /\ lost' = [lost EXCEPT ![c] =
                              [embed |-> e, tokens |-> k, of |-> what]]
  <2>1. k \in Nat
    OBVIOUS
  <2>2. \E c \in Conns : Takes(c, e, what)
    BY <1>3, <2>1, Zenon DEF Takes
  <2> QED
    BY <1>3, <2>2
<1> QED
  BY <1>1, <1>2, <1>3 DEF BackendAdd

(* Each action of handleChat is one of these moves, or none. *)
LEMMA DayActions ==
  ASSUME ChatInv, NEW r \in Requests, Handler(r)
  PROVE  \/ DayMoves(r, Account(r)) /\ (DayPhase'[r] # "out" => req'[r].jti = req[r].jti)
         \/ /\ spend' = spend /\ lost' = lost
            /\ DayPhase'[r] = DayPhase[r]
            /\ DayPhase[r] # "out" => req'[r].jti = req[r].jti
<1> DEFINE a == Account(r)
           Moves == DayMoves(r, a) /\ (DayPhase'[r] # "out" => req'[r].jti = req[r].jti)
           Stays == /\ spend' = spend /\ lost' = lost
                    /\ DayPhase'[r] = DayPhase[r]
                    /\ DayPhase[r] # "out" => req'[r].jti = req[r].jti
<1>t. /\ pc \in [Requests -> Steps]
      /\ req \in [Requests -> Locals]
      /\ req[r] \in Locals
      /\ spend \in [Embeds -> Nat]
  BY DEF ChatInv, WellFormed, TypeOK
<1>a. /\ a \in Embeds
      /\ req[r].budget \in Int
      /\ req[r].budget <= MaxDaily
      /\ req[r].prompt \in 0..MaxPrompt
      /\ pc[r] \in Upstream => Owed(r) \in 0..MaxChunk
      /\ MaxDaily \in Nat
  BY ChargesAreNat, ChatAssumption
<1> HIDE DEF a
<1>1. CASE InitSession(r) \/ ConsumeMessage(r)
  BY <1>t, <1>1 DEF InitSession, ConsumeMessage, GoTo, Return, DayPhase
<1>2. CASE SpendAvailable(r)
  BY <1>t, <1>a, <1>2 DEF SpendAvailable, DayOpen, GoTo, Return, DayPhase, DayMoves, counters, a
<1>3. CASE SessionTokensRemaining(r)
  BY <1>t, <1>3 DEF SessionTokensRemaining, GoTo, Return, DayPhase, DayMoves, counters
<1>4. CASE ChargePrompt(r)
  <2>1. PICK answered \in BOOLEAN : BackendAdd(a, req[r].prompt, "prompt", answered)
    BY <1>4 DEF ChargePrompt, a
  <2>2. MaxPrompt \in Nat
    BY ChatAssumption, EstimateType DEF MaxPrompt
  <2>3. \/ /\ \E k \in 0..MaxPrompt : spend' = [spend EXCEPT ![a] = @ + k]
           /\ lost' = lost
        \/ /\ spend' = spend
           /\ \E c \in Conns : Takes(c, a, "prompt")
    BY <1>t, <1>a, <2>1, <2>2, Recorded
  <2>4. /\ pc[r] = "prompt" /\ pc' = [pc EXCEPT ![r] = "promptSession"]
        /\ req'[r].jti = req[r].jti
    BY <1>t, <1>4 DEF ChargePrompt, GoTo, Locals
  <2>5. DayPhase[r] = "checked" /\ DayPhase'[r] = "streaming"
    BY <1>t, <2>4 DEF DayPhase
  <2> QED
    BY <2>3, <2>4, <2>5 DEF DayMoves, a
<1>5. CASE ChargePromptSession(r)
  BY <1>t, <1>5 DEF ChargePromptSession, GoTo, DayPhase
<1>12. CASE Deadline(r)
  <2>1. /\ pc' = pc /\ spend' = spend /\ lost' = lost
        /\ req'[r].jti = req[r].jti
        /\ req'[r].out = req[r].out
    BY <1>t, <1>12 DEF Deadline, Locals, counters
  <2> QED
    BY <2>1 DEF DayPhase
<1>13. CASE \E d \in Deltas : Delta(r, d)
  <2>1. /\ pc[r] = "stream" /\ pc' = [pc EXCEPT ![r] = "write"]
        /\ spend' = spend /\ lost' = lost
        /\ req'[r].jti = req[r].jti
    BY <1>t, <1>13 DEF Delta, GoTo, Locals, counters
  <2> QED
    BY <1>t, <2>1 DEF DayPhase
<1>6. CASE Resolve(r)
  BY <1>t, <1>6 DEF Resolve, GoTo, Return, DayPhase, DayMoves, counters
<1>7. CASE Write(r)
  BY <1>t, <1>7 DEF Write, GoTo, DayPhase, DayMoves, counters
<1>8. CASE ChargeDelta(r)
  <2>1. PICK answered \in BOOLEAN :
          /\ BackendAdd(a, Owed(r), "delta", answered)
          /\ req' = [req EXCEPT ![r].out =
                       ~answered \/ req[r].budget - spend'[a] <= 0]
    BY <1>8 DEF ChargeDelta, DayUsedUp, a
  <2>2. /\ \/ /\ \E k \in 0..MaxChunk : spend' = [spend EXCEPT ![a] = @ + k]
              /\ lost' = lost
           \/ /\ ~answered
              /\ spend' = spend
              /\ \E c \in Conns : Takes(c, a, "delta")
        /\ spend'[a] \in Nat
    <3>1. MaxChunk \in Nat /\ Owed(r) \in 0..MaxChunk
      BY <1>a, <1>8, ChatAssumption DEF ChargeDelta, Upstream, MaxChunk
    <3> QED
      BY <1>t, <1>a, <2>1, <3>1, Recorded
  <2>3. req'[r].out = (~answered \/ req[r].budget - spend'[a] <= 0)
    BY <1>t, <2>1 DEF Locals
  <2>4. ~req'[r].out => spend'[a] < MaxDaily
    <3>1. ~req'[r].out => ~(req[r].budget - spend'[a] <= 0)
      BY <2>3, Zenon
    <3> QED
      BY <1>a, <2>2, <3>1
  <2>5. pc[r] = "charge" /\ pc'[r] = "chargeSession" /\ req'[r].jti = req[r].jti
    BY <1>t, <1>8, <2>1 DEF ChargeDelta, GoTo, Locals
  <2>6. /\ DayPhase[r] = "streaming"
        /\ req'[r].out => DayPhase'[r] = "out"
        /\ ~req'[r].out => DayPhase'[r] = "streaming"
    BY <2>5 DEF DayPhase
  <2>7. ~answered => DayPhase'[r] = "out"
    BY <2>3, <2>6
  <2> QED
    BY <2>2, <2>4, <2>5, <2>6, <2>7 DEF DayMoves, a
<1>9. CASE ChargeDeltaSession(r)
  BY <1>t, <1>9 DEF ChargeDeltaSession, Stops, GoTo, DayPhase, DayMoves
<1>10. CASE UpstreamEnds(r)
  BY <1>t, <1>10 DEF UpstreamEnds, GoTo, DayPhase, DayMoves, counters
<1>11. CASE Finish(r)
  BY <1>t, <1>11 DEF Finish, Return, DayPhase, counters
<1> QED
  BY <1>1, <1>2, <1>3, <1>4, <1>5, <1>6, <1>7, <1>8, <1>9, <1>10, <1>11,
     <1>12, <1>13
     DEF Handler, a

LEMMA DayNext ==
  ChatInv /\ [Next]_vars => [DailyMeter!Next]_DailyMeter!vars
<1> SUFFICES ASSUME ChatInv, [Next]_vars
             PROVE  [DailyMeter!Next]_DailyMeter!vars
  OBVIOUS
<1>t. /\ pc \in [Requests -> Steps]
      /\ req \in [Requests -> Locals]
      /\ lost \in [Conns -> Upserts]
  BY DEF ChatInv, WellFormed, TypeOK
<1>1. ASSUME NEW r \in Requests, NEW j \in Jtis, NEW n \in Prompts,
             Start(r, j, n)
      PROVE  UNCHANGED DailyMeter!vars
  <2>1. \A q \in Requests \ {r} :
          DayPhase'[q] = DayPhase[q] /\ DayAccount'[q] = DayAccount[q]
    BY <1>1, Frame, DayFrame
  <2>2. DayPhase[r] = "out" /\ DayPhase'[r] = "out"
    BY <1>t, <1>1 DEF DayPhase, Start
  <2>3. spend' = spend /\ lost' = lost
    BY <1>1 DEF Start, counters
  <2> QED
    BY <2>1, <2>2, <2>3, DayQuiet
<1>2. ASSUME NEW r \in Requests, Handler(r)
      PROVE  [DailyMeter!Next]_DailyMeter!vars
  <2> DEFINE a == Account(r)
  <2>1. \A q \in Requests \ {r} :
          DayPhase'[q] = DayPhase[q] /\ DayAccount'[q] = DayAccount[q]
    BY <1>2, Frame, DayFrame
  <2>2. a \in Embeds /\ DayAccount[r] = a
    BY ChargesAreNat DEF DayAccount
  <2>3. req'[r].jti = req[r].jti => DayAccount'[r] = a
    BY DEF DayAccount, Account
  <2>4. CASE /\ DayMoves(r, a)
             /\ DayPhase'[r] # "out" => req'[r].jti = req[r].jti
    <3>1. DayStep(r, a)
      BY <1>t, <2>1, <2>2, <2>3, <2>4, DaySteps
    <3> QED
      BY <2>2, <3>1 DEF DailyMeter!Next, DayStep
  <2>5. CASE /\ spend' = spend /\ lost' = lost
             /\ DayPhase'[r] = DayPhase[r]
             /\ DayPhase[r] # "out" => req'[r].jti = req[r].jti
    BY <2>1, <2>2, <2>3, <2>5, DayQuiet
  <2> QED
    BY <1>2, <2>4, <2>5, DayActions
<1>3. ASSUME NEW e \in Embeds,
             NEW c \in [enabled : BOOLEAN, daily : DailyBudgets],
             Reconfigure(e, c)
      PROVE  UNCHANGED DailyMeter!vars
  BY <1>3, DayQuiet DEF Reconfigure, counters, DayPhase, DayAccount, Account
<1>4. CASE Midnight
  <2>1. /\ Group(Embeds, DayPhase, DayAccount, "checked")'
             = Group(Embeds, DayPhase, DayAccount, "checked")
        /\ Group(Embeds, DayPhase, DayAccount, "streaming")'
             = Group(Embeds, DayPhase, DayAccount, "streaming")
    BY <1>4 DEF Midnight, Group, DayPhase, DayAccount, Account
  <2>2. spend' = [e \in Embeds |-> 0] /\ lost' = lost
    BY <1>4 DEF Midnight
  <2> QED
    BY <2>1, <2>2, LostSame DEF DailyMeter!Next, DailyMeter!NewPeriod, DailyMeter!late
<1>5. CASE Restart
  <2>1. \A r \in Requests : DayPhase'[r] = "out"
    BY <1>5 DEF Restart, DayPhase
  <2>2. /\ Group(Embeds, DayPhase, DayAccount, "checked")' = [e \in Embeds |-> {}]
        /\ Group(Embeds, DayPhase, DayAccount, "streaming")' = [e \in Embeds |-> {}]
    BY <2>1 DEF Group
  <2>3. spend' \in {spend, [e \in Embeds |-> 0]} /\ lost' = lost
    BY <1>5 DEF Restart, SpendAfterRestart
  <2> QED
    BY <2>2, <2>3, LostSame DEF DailyMeter!Next, DailyMeter!Crash, DailyMeter!late
<1>7. ASSUME NEW c \in Conns, Lands(c)
      PROVE  DailyMeter!Next
  <2> DEFINE e == lost[c].embed
             k == lost[c].tokens
             C == Group(Embeds, DayPhase, DayAccount, "checked")
             S == Group(Embeds, DayPhase, DayAccount, "streaming")
  <2>1. C' = C /\ S' = S
    BY <1>7 DEF Lands, Group, DayPhase, DayAccount, Account
  <2>2. /\ e \in Embeds /\ k \in Nat
        /\ lost[c].of \in {"prompt", "delta"}
        /\ lost[c].of = "prompt" => k <= MaxPrompt
        /\ lost[c].of = "delta" => k <= MaxChunk
    BY <1>t, <1>7 DEF ChatInv, WellFormed, LostAreCharges, Upserts, Lands
  <2>3. \A M \in Nat : k <= M =>
          \E i \in 0..M : spend' = [spend EXCEPT ![e] = @ + i]
    <3> SUFFICES ASSUME NEW M \in Nat, k <= M
                 PROVE  \E i \in 0..M : spend' = [spend EXCEPT ![e] = @ + i]
      OBVIOUS
    <3>1. CASE spend' = [spend EXCEPT ![e] = @ + k]
      <4>1. k \in 0..M
        BY <2>2
      <4> QED
        BY <3>1, <4>1, Zenon
    <3>2. CASE spend' = spend
      <4>1. spend' = [spend EXCEPT ![e] = @ + 0] /\ 0 \in 0..M
        BY <2>2, <3>2 DEF ChatInv, WellFormed, TypeOK
      <4> QED
        BY <4>1, Zenon
    <3> QED
      BY <1>7, <3>1, <3>2 DEF Lands
  <2>4. lost' = [lost EXCEPT ![c] = NoUpsert]
    BY <1>7 DEF Lands
  <2>5. MaxPrompt \in Nat /\ MaxChunk \in Nat
    BY MostType
  <2>6. CASE lost[c].of = "prompt"
    <3>1. DailyMeter!PromptLands(c, e)
      BY <1>t, <2>1, <2>2, <2>3, <2>4, <2>5, <2>6, LostLands
         DEF DailyMeter!PromptLands
    <3> QED
      BY <2>2, <3>1 DEF DailyMeter!Next
  <2>7. CASE lost[c].of = "delta"
    <3>1. DailyMeter!ChunkLands(c, e)
      BY <1>t, <2>1, <2>2, <2>3, <2>4, <2>5, <2>7, LostLands
         DEF DailyMeter!ChunkLands
    <3> QED
      BY <2>2, <3>1 DEF DailyMeter!Next
  <2> QED
    BY <2>2, <2>6, <2>7
<1>6. CASE UNCHANGED vars
  BY <1>6, DayQuiet DEF vars, counters, DayPhase, DayAccount, Account
<1> QED
  BY <1>1, <1>2, <1>3, <1>4, <1>5, <1>6, <1>7 DEF Next

LEMMA DayInit == Init => DailyMeter!Init
<1> SUFFICES ASSUME Init PROVE DailyMeter!Init
  OBVIOUS
<1>1. \A r \in Requests : DayPhase[r] = "out"
  BY DEF Init, DayPhase
<1>2. \A what \in {"prompt", "delta"} : LostFor(what) = [e \in Embeds |-> {}]
  BY DEF Init, LostFor, NoUpsert
<1> QED
  BY <1>1, <1>2 DEF Init, DailyMeter!Init, Group

(* The handlers enforce the daily budget of every embed the way Meter      *)
(* says.                                                                   *)
THEOREM DailyRefinement == Spec => ImplementsDailyMeter
BY DayInit, DayNext, InitInv, NextInv, PTL
   DEF Spec, ImplementsDailyMeter, DailyMeter!Spec

-----------------------------------------------------------------------------
(* What MeterProofs proves of every meter, of this one *)

Day == INSTANCE MeterProofs WITH
  Accounts    <- Embeds,
  Slots       <- Conns,
  Cap         <- [e \in Embeds |-> MaxDaily],
  used        <- spend,
  checked     <- Group(Embeds, DayPhase, DayAccount, "checked"),
  streaming   <- Group(Embeds, DayPhase, DayAccount, "streaming"),
  latePrompts <- LostFor("prompt"),
  lateChunks  <- LostFor("delta")

LEMMA DayAssumption == Day!MeterAssumption
<1>1. Day!IsFiniteSet(Requests)
  BY ChatAssumption DEF IsFiniteSet, Day!IsFiniteSet
<1>2. IsFiniteSet(Conns)
  BY ChatAssumption, FS_EmptySet DEF Conns
<1>3. Day!IsFiniteSet(Conns)
  BY <1>2 DEF IsFiniteSet, Day!IsFiniteSet
<1> QED
  BY <1>1, <1>3, MostType, ChatAssumption DEF Day!MeterAssumption

(* An embed's daily spend passes the largest budget it may be given by     *)
(* less than one prompt and one delta for each handler running, and one of *)
(* these for each upsert nobody waits for, whatever fails, restarts or is  *)
(* reconfigured meanwhile.                                                 *)
THEOREM DailyOvershoot == Spec => []DailyOvershootBounded
<1>1. DailyMeter!Init => Day!Init
  BY DEF DailyMeter!Init, Day!Init
<1>2. [DailyMeter!Next]_DailyMeter!vars => [Day!Next]_Day!vars
  BY DEF DailyMeter!Next, DailyMeter!vars, DailyMeter!late, DailyMeter!Admit,
         DailyMeter!Idle, DailyMeter!Free,
         DailyMeter!ChargePrompt, DailyMeter!ChargeChunk,
         DailyMeter!StaysBelow, DailyMeter!Leave,
         DailyMeter!LosePrompt, DailyMeter!LoseChunk,
         DailyMeter!PromptLands, DailyMeter!ChunkLands,
         DailyMeter!NewPeriod, DailyMeter!Crash,
         Day!Next, Day!vars, Day!late, Day!Admit, Day!Idle, Day!Free,
         Day!ChargePrompt, Day!ChargeChunk, Day!StaysBelow, Day!Leave,
         Day!LosePrompt, Day!LoseChunk, Day!PromptLands, Day!ChunkLands,
         Day!NewPeriod, Day!Crash
<1>3. Day!BoundedOvershoot => DailyOvershootBounded
  <2>1. /\ DailyMeter!Cardinality(Requests) = Day!Cardinality(Requests)
        /\ DailyMeter!Cardinality(Conns) = Day!Cardinality(Conns)
    BY DEF DailyMeter!Cardinality, Day!Cardinality
  <2> QED
    BY <2>1 DEF DailyOvershootBounded, Day!BoundedOvershoot, Day!Limit,
                Day!Largest, DailyMeter!Largest,
                DailyMeter!BoundedOvershoot, DailyMeter!Limit
<1>4. Day!Spec => []Day!BoundedOvershoot
  BY DayAssumption, Day!Overshoot
<1> QED
  BY <1>1, <1>2, <1>3, <1>4, DailyRefinement, PTL
     DEF ImplementsDailyMeter, DailyMeter!Spec, Day!Spec

-----------------------------------------------------------------------------
(* The same, for the token budget of a session.  What it has used is       *)
(* written in two variables, its counter and whether it has one.           *)

Used == [j \in Jtis |-> SessionUsed(j)]

SessionGroup(p) == Group(Jtis, SessionPhase, SessionAccount, p)

LEMMA SessionFrame ==
  ASSUME NEW r \in Requests,
         \A q \in Requests \ {r} : pc'[q] = pc[q] /\ req'[q] = req[q]
  PROVE  \A q \in Requests \ {r} :
           SessionPhase'[q] = SessionPhase[q] /\ SessionAccount'[q] = SessionAccount[q]
BY DEF SessionPhase, SessionAccount

LEMMA SessionQuiet ==
  ASSUME Used' = Used,
         \A q \in Requests : SessionPhase'[q] = SessionPhase[q],
         \A q \in Requests : SessionPhase[q] # "out" => SessionAccount'[q] = SessionAccount[q]
  PROVE  UNCHANGED SessionMeter!vars
<1>1. ASSUME NEW p \in {"checked", "streaming"}
      PROVE  SessionGroup(p)' = SessionGroup(p)
  <2>1. Group(Jtis, SessionPhase', SessionAccount', p)
          = Group(Jtis, SessionPhase, SessionAccount, p)
    BY GroupSame
  <2> QED
    BY <2>1 DEF Group, SessionGroup
<1> QED
  BY <1>1 DEF SessionMeter!vars, SessionMeter!late, None, SessionGroup, Used

(* The ways a handler moves that the meter of its session sees. *)
SessionMoves(r, j) ==
  \/ /\ SessionPhase[r] = "out" /\ SessionPhase'[r] = "checked"
     /\ Used[j] < SessionCap[j] /\ Used' = Used
  \/ /\ SessionPhase[r] = "checked" /\ SessionPhase'[r] = "streaming"
     /\ \E k \in 0..MaxPrompt : Used' = [Used EXCEPT ![j] = @ + k]
  \/ /\ SessionPhase[r] = "streaming" /\ SessionPhase'[r] \in {"streaming", "out"}
     /\ \E k \in 0..MaxChunk : Used' = [Used EXCEPT ![j] = @ + k]
     /\ SessionPhase'[r] = "streaming" => Used'[j] < SessionCap[j]
  \/ /\ SessionPhase[r] \in {"checked", "streaming"} /\ SessionPhase'[r] = "out"
     /\ Used' = Used

LEMMA SessionSteps ==
  ASSUME NEW r \in Requests, NEW j \in Jtis,
         \A q \in Requests \ {r} :
           SessionPhase'[q] = SessionPhase[q] /\ SessionAccount'[q] = SessionAccount[q],
         SessionPhase[r] # "out" => SessionAccount[r] = j,
         SessionPhase'[r] # "out" => SessionAccount'[r] = j,
         SessionMoves(r, j)
  PROVE  \/ SessionMeter!Admit(r, j)
         \/ SessionMeter!ChargePrompt(r, j)
         \/ SessionMeter!ChargeChunk(r, j)
         \/ SessionMeter!Leave(r, j)
<1> DEFINE C == SessionGroup("checked")
           S == SessionGroup("streaming")
<1>1. ASSUME NEW p \in {"checked", "streaming"}
      PROVE  LET G == SessionGroup(p) IN
             /\ SessionPhase'[r] = p => G' = [G EXCEPT ![j] = @ \cup {r}]
             /\ SessionPhase'[r] # p => G' = [G EXCEPT ![j] = @ \ {r}]
             /\ SessionPhase[r] = p <=> r \in G[j]
             /\ (SessionPhase[r] = p <=> SessionPhase'[r] = p) => G' = G
  <2>1. SessionGroup(p)' = Group(Jtis, SessionPhase', SessionAccount', p)
    BY DEF SessionGroup, Group
  <2>2. (SessionPhase[r] = p <=> SessionPhase'[r] = p)
          => Group(Jtis, SessionPhase', SessionAccount', p)
               = Group(Jtis, SessionPhase, SessionAccount, p)
    BY GroupSame
  <2>3. /\ SessionPhase'[r] = p => Group(Jtis, SessionPhase', SessionAccount', p)
                  = [Group(Jtis, SessionPhase, SessionAccount, p) EXCEPT ![j] = @ \cup {r}]
        /\ SessionPhase'[r] # p => Group(Jtis, SessionPhase', SessionAccount', p)
                  = [Group(Jtis, SessionPhase, SessionAccount, p) EXCEPT ![j] = @ \ {r}]
        /\ SessionPhase[r] = p <=> r \in Group(Jtis, SessionPhase, SessionAccount, p)[j]
    BY ZenonT(30) DEF Group
  <2> QED
    BY <2>1, <2>2, <2>3 DEF SessionGroup
<1>2. /\ SessionPhase'[r] = "checked" => C' = [C EXCEPT ![j] = @ \cup {r}]
      /\ SessionPhase'[r] # "checked" => C' = [C EXCEPT ![j] = @ \ {r}]
      /\ SessionPhase[r] = "checked" <=> r \in C[j]
      /\ (SessionPhase[r] = "checked" <=> SessionPhase'[r] = "checked") => C' = C
  BY <1>1
<1>3. /\ SessionPhase'[r] = "streaming" => S' = [S EXCEPT ![j] = @ \cup {r}]
      /\ SessionPhase'[r] # "streaming" => S' = [S EXCEPT ![j] = @ \ {r}]
      /\ SessionPhase[r] = "streaming" <=> r \in S[j]
      /\ (SessionPhase[r] = "streaming" <=> SessionPhase'[r] = "streaming") => S' = S
  BY <1>1
<1>4. SessionPhase[r] = "out" => r \in SessionMeter!Idle
  BY DEF SessionMeter!Idle, Group
<1> HIDE DEF C, S
<1>5. ASSUME SessionPhase[r] = "out", SessionPhase'[r] = "checked",
             Used[j] < SessionCap[j], Used' = Used
      PROVE  SessionMeter!Admit(r, j)
  BY <1>2, <1>3, <1>4, <1>5 DEF SessionMeter!Admit, SessionMeter!late, None, C, S,
                               SessionGroup, Used
<1>6. ASSUME SessionPhase[r] = "checked", SessionPhase'[r] = "streaming",
             \E k \in 0..MaxPrompt : Used' = [Used EXCEPT ![j] = @ + k]
      PROVE  SessionMeter!ChargePrompt(r, j)
  BY <1>2, <1>3, <1>6 DEF SessionMeter!ChargePrompt, SessionMeter!late, None, C, S,
                               SessionGroup, Used
<1>7. ASSUME SessionPhase[r] = "streaming", SessionPhase'[r] \in {"streaming", "out"},
             \E k \in 0..MaxChunk : Used' = [Used EXCEPT ![j] = @ + k],
             SessionPhase'[r] = "streaming" => Used'[j] < SessionCap[j]
      PROVE  SessionMeter!ChargeChunk(r, j)
  BY <1>2, <1>3, <1>7 DEF SessionMeter!ChargeChunk, SessionMeter!StaysBelow,
                          SessionMeter!late, None, C, S, SessionGroup, Used
<1>8. ASSUME SessionPhase[r] \in {"checked", "streaming"}, SessionPhase'[r] = "out",
             Used' = Used
      PROVE  SessionMeter!Leave(r, j)
  BY <1>2, <1>3, <1>8 DEF SessionMeter!Leave, SessionMeter!late, None, C, S,
                               SessionGroup, Used
<1> QED
  BY <1>5, <1>6, <1>7, <1>8 DEF SessionMoves

LEMMA UsedSame == UNCHANGED <<seeded, sessionToks>> => Used' = Used
BY DEF Used, SessionUsed

(* A session with tokens left has used less than it may. *)
LEMMA BelowTheCap ==
  ASSUME NEW j \in Jtis, NEW left \in Int, left > 0
  PROVE  TokBudget[j] - left < SessionCap[j]
<1>1. TokBudget[j] \in Int
  BY ChatAssumption
<1> QED
  BY <1>1 DEF SessionCap

(* A charge to a session that has its counter *)
LEMMA Charged ==
  ASSUME ChatInv, NEW j \in Jtis, j \in seeded, NEW M \in Nat, NEW k \in 0..M,
         SessionSpend(j, k), UNCHANGED seeded
  PROVE  /\ \E i \in 0..M : Used' = [Used EXCEPT ![j] = @ + i]
         /\ sessionToks'[j] > 0 => Used'[j] < SessionCap[j]
<1>1. /\ sessionToks \in [Jtis -> Int] /\ TokBudget \in [Jtis -> Int]
      /\ sessionToks' = [sessionToks EXCEPT ![j] = @ - k]
  BY ChatAssumption DEF ChatInv, WellFormed, TypeOK, SessionSpend
<1>k. k \in Int
  OBVIOUS
<1>2. /\ sessionToks'[j] = sessionToks[j] - k /\ sessionToks[j] \in Int
      /\ TokBudget[j] \in Int
      /\ \A i \in Jtis \ {j} : sessionToks'[i] = sessionToks[i]
  BY <1>1
<1>3. Used'[j] = TokBudget[j] - sessionToks'[j] /\ Used[j] = TokBudget[j] - sessionToks[j]
  BY DEF Used, SessionUsed
<1>4. Used'[j] = Used[j] + k
  BY <1>k, <1>2, <1>3
<1>5. \A i \in Jtis \ {j} : Used'[i] = Used[i]
  BY <1>2 DEF Used, SessionUsed
<1>6. Used' = [Used EXCEPT ![j] = @ + k]
  BY <1>4, <1>5 DEF Used
<1>7. \E i \in 0..M : Used' = [Used EXCEPT ![j] = @ + i]
  BY <1>6, Zenon
<1>8. sessionToks'[j] > 0 => Used'[j] < SessionCap[j]
  BY <1>k, <1>2, <1>3, BelowTheCap
<1> QED
  BY <1>7, <1>8

(* Each action of handleChat is one of these moves, or none. *)
LEMMA SessionActions ==
  ASSUME ChatInv, NEW r \in Requests, Handler(r)
  PROVE  \/ /\ SessionMoves(r, req[r].jti)
            /\ SessionPhase'[r] # "out" => req'[r].jti = req[r].jti
         \/ /\ Used' = Used
            /\ SessionPhase'[r] = SessionPhase[r]
            /\ SessionPhase[r] # "out" => req'[r].jti = req[r].jti
<1> DEFINE j == req[r].jti
<1>t. /\ pc \in [Requests -> Steps]
      /\ req \in [Requests -> Locals]
      /\ req[r] \in Locals
      /\ j \in Jtis
      /\ sessionToks \in [Jtis -> Int] /\ TokBudget \in [Jtis -> Int]
  BY ChatAssumption DEF ChatInv, WellFormed, TypeOK, Locals
<1>a. /\ pc[r] \notin {"idle", "seed"} => j \in seeded
      /\ req[r].prompt \in 0..MaxPrompt
      /\ pc[r] \in Upstream => Owed(r) \in 0..MaxChunk
      /\ MaxPrompt \in Nat /\ MaxChunk \in Nat
  <2>1. pc[r] \notin {"idle", "seed"} => j \in seeded
    BY DEF ChatInv, WellFormed, Bookkeeping
  <2>2. MaxPrompt \in Nat /\ MaxChunk \in Nat
    BY ChatAssumption, EstimateType DEF MaxPrompt, MaxChunk
  <2> QED
    BY <2>1, <2>2, ChargesAreNat
<1>1. CASE InitSession(r)
  <2>1. CASE j \in seeded
    BY <1>t, <1>1, <2>1, UsedSame DEF InitSession, GoTo, SessionPhase, Upstream
  <2>2. CASE j \notin seeded
    <3>1. /\ seeded' = seeded \cup {j}
          /\ sessionToks' = [sessionToks EXCEPT ![j] = TokBudget[j]]
          /\ pc[r] = "seed" /\ pc' = [pc EXCEPT ![r] = "consume"]
      BY <1>1, <2>2 DEF InitSession, GoTo
    <3>2. TokBudget[j] \in Int /\ sessionToks'[j] = TokBudget[j]
      BY <1>t, <3>1
    <3>3. \A i \in Jtis : SessionUsed(i)' = SessionUsed(i)
      BY <1>t, <2>2, <3>1, <3>2 DEF SessionUsed
    <3> QED
      BY <1>t, <3>1, <3>3 DEF Used, SessionPhase, Upstream
  <2> QED
    BY <2>1, <2>2
<1>2. CASE ConsumeMessage(r) \/ SpendAvailable(r)
  BY <1>t, <1>2, UsedSame DEF ConsumeMessage, SpendAvailable, GoTo, Return, SessionPhase,
                              Upstream, counters
<1>3. CASE SessionTokensRemaining(r)
  <2>1. Used' = Used /\ pc[r] = "session" /\ j \in seeded
    BY <1>a, <1>3, UsedSame DEF SessionTokensRemaining, counters
  <2>2. CASE sessionToks[j] > 0 /\ GoTo(r, "prompt") /\ UNCHANGED req
    <3>1. Used[j] < SessionCap[j]
      BY <1>t, <2>1, <2>2, BelowTheCap DEF Used, SessionUsed
    <3> QED
      BY <1>t, <2>1, <2>2, <3>1 DEF GoTo, SessionPhase, SessionMoves, Upstream
  <2>3. CASE Return(r, "session_quota_exceeded")
    BY <1>t, <2>1, <2>3 DEF Return, SessionPhase, Upstream
  <2> QED
    BY <1>3, <2>2, <2>3 DEF SessionTokensRemaining
<1>4. CASE ChargePrompt(r)
  <2>0. PICK unpaid \in BOOLEAN : req' = [req EXCEPT ![r].unpaid = unpaid]
    BY <1>4 DEF ChargePrompt
  <2>1. /\ pc[r] = "prompt" /\ pc' = [pc EXCEPT ![r] = "promptSession"]
        /\ req'[r].jti = j
    BY <1>t, <1>4, <2>0 DEF ChargePrompt, GoTo, Locals
  <2>2. Used' = Used
    BY <1>4, UsedSame DEF ChargePrompt
  <2>3. SessionPhase[r] = "checked" /\ SessionPhase'[r] = "checked"
    BY <1>t, <2>1 DEF SessionPhase, Upstream
  <2> QED
    BY <2>1, <2>2, <2>3
<1>5. CASE ChargePromptSession(r)
  <2>1. /\ \E k \in 0..MaxPrompt : Used' = [Used EXCEPT ![j] = @ + k]
        /\ pc[r] = "promptSession" /\ pc' = [pc EXCEPT ![r] = "resolve"] /\ req' = req
    BY <1>t, <1>a, <1>5, Charged DEF ChargePromptSession, GoTo
  <2> QED
    BY <1>t, <2>1 DEF SessionPhase, SessionMoves, Upstream
<1>6. CASE Resolve(r)
  BY <1>t, <1>6, UsedSame DEF Resolve, GoTo, Return, SessionPhase, SessionMoves, Upstream, counters
<1>7. CASE Deadline(r)
  BY <1>t, <1>7, UsedSame DEF Deadline, SessionPhase, Locals, counters
<1>8. CASE \E d \in Deltas : Delta(r, d)
  <2>1. /\ pc[r] = "stream" /\ pc' = [pc EXCEPT ![r] = "write"]
        /\ Used' = Used /\ req'[r].jti = j
    BY <1>t, <1>8, UsedSame DEF Delta, GoTo, Locals, counters
  <2> QED
    BY <1>t, <2>1 DEF SessionPhase, Upstream
<1>9. CASE Write(r)
  BY <1>t, <1>9, UsedSame DEF Write, GoTo, SessionPhase, SessionMoves, Upstream, counters
<1>10. CASE ChargeDelta(r)
  <2>1. /\ pc[r] = "charge" /\ pc' = [pc EXCEPT ![r] = "chargeSession"]
        /\ Used' = Used /\ req'[r].jti = j
    BY <1>t, <1>10, UsedSame DEF ChargeDelta, GoTo, Locals
  <2> QED
    BY <1>t, <2>1 DEF SessionPhase, Upstream
<1>11. CASE ChargeDeltaSession(r)
  <2>1. /\ pc[r] = "chargeSession" /\ SessionSpend(j, Owed(r)) /\ UNCHANGED seeded
        /\ pc' = [pc EXCEPT ![r] = IF Stops(r) THEN "finish" ELSE "stream"]
    BY <1>11 DEF ChargeDeltaSession, GoTo
  <2>2. req'[r].jti = j
    BY <1>t, <1>11 DEF ChargeDeltaSession, Locals
  <2>3. /\ \E k \in 0..MaxChunk : Used' = [Used EXCEPT ![j] = @ + k]
        /\ sessionToks'[j] > 0 => Used'[j] < SessionCap[j]
    BY <1>t, <1>a, <2>1, Charged DEF Upstream
  <2>4. ~ Stops(r) => sessionToks'[j] > 0
    <3>1. sessionToks'[j] \in Int
      BY <1>t, <1>a, <2>1 DEF SessionSpend, Upstream
    <3>2. ~ Stops(r) => ~ (sessionToks'[j] <= 0)
      BY DEF Stops
    <3> QED
      BY <3>1, <3>2
  <2>5. /\ SessionPhase[r] = "streaming"
        /\ Stops(r) => SessionPhase'[r] = "out"
        /\ ~ Stops(r) => SessionPhase'[r] = "streaming"
    BY <1>t, <2>1 DEF SessionPhase, Upstream
  <2> QED
    BY <2>2, <2>3, <2>4, <2>5 DEF SessionMoves
<1>12. CASE UpstreamEnds(r)
  BY <1>t, <1>12, UsedSame DEF UpstreamEnds, GoTo, SessionPhase, SessionMoves, Upstream, counters
<1>13. CASE Finish(r)
  BY <1>t, <1>13, UsedSame DEF Finish, Return, SessionPhase, Upstream, counters
<1> QED
  BY <1>1, <1>2, <1>3, <1>4, <1>5, <1>6, <1>7, <1>8, <1>9, <1>10, <1>11,
     <1>12, <1>13
     DEF Handler

LEMMA SessionNext ==
  ChatInv /\ [Next]_vars => [SessionMeter!Next]_SessionMeter!vars
<1> SUFFICES ASSUME ChatInv, [Next]_vars
             PROVE  [SessionMeter!Next]_SessionMeter!vars
  OBVIOUS
<1>t. /\ pc \in [Requests -> Steps]
      /\ req \in [Requests -> Locals]
  BY DEF ChatInv, WellFormed, TypeOK
<1>1. ASSUME NEW r \in Requests, NEW j \in Jtis, NEW n \in Prompts,
             Start(r, j, n)
      PROVE  UNCHANGED SessionMeter!vars
  <2>1. \A q \in Requests \ {r} :
          SessionPhase'[q] = SessionPhase[q] /\ SessionAccount'[q] = SessionAccount[q]
    BY <1>1, Frame, SessionFrame
  <2>2. SessionPhase[r] = "out" /\ SessionPhase'[r] = "out"
    BY <1>t, <1>1 DEF SessionPhase, Start, Upstream
  <2>3. Used' = Used
    BY <1>1, UsedSame DEF Start, counters
  <2> QED
    BY <2>1, <2>2, <2>3, SessionQuiet
<1>2. ASSUME NEW r \in Requests, Handler(r)
      PROVE  [SessionMeter!Next]_SessionMeter!vars
  <2> DEFINE j == req[r].jti
  <2>1. \A q \in Requests \ {r} :
          SessionPhase'[q] = SessionPhase[q] /\ SessionAccount'[q] = SessionAccount[q]
    BY <1>2, Frame, SessionFrame
  <2>2. j \in Jtis /\ SessionAccount[r] = j
    BY <1>t DEF SessionAccount, Locals
  <2>3. req'[r].jti = j => SessionAccount'[r] = j
    BY DEF SessionAccount
  <2>4. CASE /\ SessionMoves(r, j)
             /\ SessionPhase'[r] # "out" => req'[r].jti = j
    <3>1. \/ SessionMeter!Admit(r, j)
          \/ SessionMeter!ChargePrompt(r, j)
          \/ SessionMeter!ChargeChunk(r, j)
          \/ SessionMeter!Leave(r, j)
      BY <2>1, <2>2, <2>3, <2>4, SessionSteps
    <3> QED
      BY <2>2, <3>1 DEF SessionMeter!Next
  <2>5. CASE /\ Used' = Used
             /\ SessionPhase'[r] = SessionPhase[r]
             /\ SessionPhase[r] # "out" => req'[r].jti = j
    BY <2>1, <2>2, <2>3, <2>5, SessionQuiet
  <2> QED
    BY <1>2, <2>4, <2>5, SessionActions
<1>3. ASSUME NEW e \in Embeds,
             NEW c \in [enabled : BOOLEAN, daily : DailyBudgets],
             Reconfigure(e, c)
      PROVE  UNCHANGED SessionMeter!vars
  BY <1>3, SessionQuiet, UsedSame DEF Reconfigure, counters, SessionPhase, SessionAccount
<1>4. CASE Midnight
  BY <1>4, SessionQuiet, UsedSame DEF Midnight, SessionPhase, SessionAccount
<1>5. CASE Restart
  <2>1. \A r \in Requests : SessionPhase'[r] = "out"
    BY <1>5 DEF Restart, SessionPhase, Upstream
  <2>2. /\ SessionGroup("checked")' = [j \in Jtis |-> {}]
        /\ SessionGroup("streaming")' = [j \in Jtis |-> {}]
    BY <2>1 DEF SessionGroup, Group
  <2>3. Used' = [j \in Jtis |-> 0]
    BY <1>5 DEF Restart, Used, SessionUsed
  <2> QED
    BY <2>2, <2>3 DEF SessionMeter!Next, SessionMeter!Crash, SessionMeter!late, None,
                      SessionGroup, Used
<1>6. CASE UNCHANGED vars
  BY <1>6, SessionQuiet, UsedSame DEF vars, counters, SessionPhase, SessionAccount
<1>7. ASSUME NEW c \in Conns, Lands(c)
      PROVE  UNCHANGED SessionMeter!vars
  BY <1>7, SessionQuiet, UsedSame DEF Lands, SessionPhase, SessionAccount
<1> QED
  BY <1>1, <1>2, <1>3, <1>4, <1>5, <1>6, <1>7 DEF Next

LEMMA SessionInit == Init => SessionMeter!Init
<1> SUFFICES ASSUME Init PROVE SessionMeter!Init
  OBVIOUS
<1>1. \A r \in Requests : SessionPhase[r] = "out"
  BY DEF Init, SessionPhase, Upstream
<1> QED
  BY <1>1 DEF Init, SessionMeter!Init, Group, None, SessionUsed

(* The handlers enforce the token budget of every session the way Meter    *)
(* says, restarts included, which forget what it has used.                 *)
THEOREM SessionRefinement == Spec => ImplementsSessionMeter
BY SessionInit, SessionNext, InitInv, NextInv, PTL
   DEF Spec, ImplementsSessionMeter, SessionMeter!Spec

Sess == INSTANCE MeterProofs WITH
  Accounts    <- Jtis,
  Slots       <- {},
  Cap         <- SessionCap,
  used        <- [j \in Jtis |-> SessionUsed(j)],
  checked     <- Group(Jtis, SessionPhase, SessionAccount, "checked"),
  streaming   <- Group(Jtis, SessionPhase, SessionAccount, "streaming"),
  latePrompts <- None(Jtis),
  lateChunks  <- None(Jtis)

LEMMA SessAssumption == Sess!MeterAssumption
<1>1. Sess!IsFiniteSet(Requests)
  BY ChatAssumption DEF IsFiniteSet, Sess!IsFiniteSet
<1>2. IsFiniteSet({})
  BY FS_EmptySet
<1>3. Sess!IsFiniteSet({})
  BY <1>2 DEF IsFiniteSet, Sess!IsFiniteSet
<1>4. SessionCap \in [Jtis -> Nat]
  BY ChatAssumption DEF SessionCap
<1> QED
  BY <1>1, <1>3, <1>4, MostType, ChatAssumption DEF Sess!MeterAssumption

(* While its counters last, a session uses more tokens than were signed    *)
(* into it by less than one prompt and one delta for each handler running, *)
(* however many requests are sent with it at once.                         *)
THEOREM SessionOvershoot == Spec => []SessionOvershootBounded
<1>1. SessionMeter!Init => Sess!Init
  BY DEF SessionMeter!Init, Sess!Init
<1>2. [SessionMeter!Next]_SessionMeter!vars => [Sess!Next]_Sess!vars
  BY DEF SessionMeter!Next, SessionMeter!vars, SessionMeter!late,
         SessionMeter!Admit, SessionMeter!Idle, SessionMeter!Free,
         SessionMeter!ChargePrompt, SessionMeter!ChargeChunk,
         SessionMeter!StaysBelow, SessionMeter!Leave,
         SessionMeter!LosePrompt, SessionMeter!LoseChunk,
         SessionMeter!PromptLands, SessionMeter!ChunkLands,
         SessionMeter!NewPeriod, SessionMeter!Crash,
         Sess!Next, Sess!vars, Sess!late, Sess!Admit, Sess!Idle, Sess!Free,
         Sess!ChargePrompt, Sess!ChargeChunk, Sess!StaysBelow, Sess!Leave,
         Sess!LosePrompt, Sess!LoseChunk, Sess!PromptLands, Sess!ChunkLands,
         Sess!NewPeriod, Sess!Crash
<1>3. Sess!BoundedOvershoot => SessionOvershootBounded
  <2>1. /\ SessionMeter!Cardinality(Requests) = Sess!Cardinality(Requests)
        /\ SessionMeter!Cardinality({}) = Sess!Cardinality({})
    BY DEF SessionMeter!Cardinality, Sess!Cardinality
  <2> QED
    BY <2>1 DEF SessionOvershootBounded, Sess!BoundedOvershoot, Sess!Limit,
                Sess!Largest, SessionMeter!Largest,
                SessionMeter!BoundedOvershoot, SessionMeter!Limit
<1>4. Sess!Spec => []Sess!BoundedOvershoot
  BY SessAssumption, Sess!Overshoot
<1> QED
  BY <1>1, <1>2, <1>3, <1>4, SessionRefinement, PTL
     DEF ImplementsSessionMeter, SessionMeter!Spec, Sess!Spec

-----------------------------------------------------------------------------
(* Sums over finite sets *)

(* What the sum over S is computed by: elements are taken out one by one.  *)
Adds(f, S, g) ==
  g = [s \in SUBSET S |->
         IF s = {} THEN 0 ELSE f[CHOOSE x \in s : TRUE] + g[s \ {CHOOSE x \in s : TRUE}]]

LEMMA SumIsAdded ==
  ASSUME NEW f, NEW S
  PROVE  SumFunctionOnSet(f, S) = (CHOOSE g : Adds(f, S, g))[S]
BY DEF SumFunctionOnSet, FoldFunctionOnSet, MapThenFoldSet, Adds

LEMMA SmallestSet ==
  ASSUME NEW S, IsFiniteSet(S), NEW T \in SUBSET SUBSET S, T # {}
  PROVE  \E s \in T : \A u \in T : u \subseteq s => u = s
<1>1. IsWellFoundedOn(StrictSubsetOrdering(S), FiniteSubsetsOf(S)) /\ FiniteSubsetsOf(S) = SUBSET S
  BY FS_StrictSubsetOrderingWellFounded, FS_FiniteSubsetsOfFinite
<1>2. PICK s \in T : \A u \in T : ~ (<<u, s>> \in StrictSubsetOrdering(S))
  BY <1>1, WFMin
<1>3. ASSUME NEW u \in T, u \subseteq s PROVE u = s
  <2> SUFFICES ASSUME u # s PROVE FALSE
    OBVIOUS
  <2>1. <<u, s>> \in StrictSubsetOrdering(S)
    BY <1>3 DEF StrictSubsetOrdering
  <2> QED
    BY <2>1, <1>2
<1> QED
  BY <1>3

(* It does not depend on what lies outside the sets it is asked for.       *)
LEMMA AddsSame ==
  ASSUME NEW S1, IsFiniteSet(S1), NEW S2, S1 \subseteq S2,
         NEW f1, NEW f2, \A x \in S1 : f1[x] = f2[x],
         NEW g1, Adds(f1, S1, g1), NEW g2, Adds(f2, S2, g2)
  PROVE  \A s \in SUBSET S1 : g1[s] = g2[s]
<1> DEFINE T == {s \in SUBSET S1 : g1[s] # g2[s]}
<1> SUFFICES ASSUME T # {} PROVE FALSE
  OBVIOUS
<1>1. PICK s \in T : \A u \in T : u \subseteq s => u = s
  <2>1. T \in SUBSET SUBSET S1
    OBVIOUS
  <2> HIDE DEF T
  <2> QED
    BY <2>1, SmallestSet
<1> DEFINE c == CHOOSE x \in s : TRUE
<1>2. g1[s] = (IF s = {} THEN 0 ELSE f1[c] + g1[s \ {c}])
  BY DEF Adds
<1>3. g2[s] = (IF s = {} THEN 0 ELSE f2[c] + g2[s \ {c}])
  BY DEF Adds
<1>4. s # {} => c \in s
  OBVIOUS
<1>5. s # {} => g1[s \ {c}] = g2[s \ {c}]
  <2> SUFFICES ASSUME s # {} PROVE g1[s \ {c}] = g2[s \ {c}]
    OBVIOUS
  <2>1. s \ {c} \in SUBSET S1 /\ s \ {c} \subseteq s /\ s \ {c} # s
    BY <1>4
  <2> HIDE DEF c
  <2> QED
    BY <2>1, <1>1
<1>6. s # {} => f1[c] = f2[c]
  BY <1>4
<1> HIDE DEF c
<1> QED
  BY <1>1, <1>2, <1>3, <1>5, <1>6

LEMMA Smallest ==
  ASSUME NEW S \in SUBSET Nat, S # {}
  PROVE  \E n \in S : \A m \in S : n <= m
<1> DEFINE Below == {ss \in Nat \X Nat : ss[1] < ss[2]}
<1>1. IsWellFoundedOn(Below, Nat)
  BY NatLessThanWellFounded DEF OpToRel
<1>2. PICK n \in S : \A m \in S : ~ (<<m, n>> \in Below)
  <2> HIDE DEF Below
  <2> QED
    BY <1>1, WFMin
<1>3. ASSUME NEW m \in S PROVE n <= m
  <2> SUFFICES ASSUME m < n PROVE FALSE
    OBVIOUS
  <2>1. <<m, n>> \in Below
    OBVIOUS
  <2> QED
    BY <2>1, <1>2
<1> QED
  BY <1>3

(* On a finite set there is such a function: for sets of up to n elements, *)
(* for every n.                                                            *)
AddsUpTo(f, S, g, n) ==
  /\ g \in [SUBSET S -> Int]
  /\ \A s \in SUBSET S :
       Cardinality(s) <= n =>
         g[s] = IF s = {} THEN 0 ELSE f[CHOOSE x \in s : TRUE] + g[s \ {CHOOSE x \in s : TRUE}]

LEMMA AddsFurther ==
  ASSUME NEW S, IsFiniteSet(S), NEW f, \A x \in S : f[x] \in Int,
         NEW g, NEW n \in Nat, AddsUpTo(f, S, g, n)
  PROVE  \E h : AddsUpTo(f, S, h, n + 1)
<1> DEFINE c(s) == CHOOSE x \in s : TRUE
           h == [s \in SUBSET S |->
                   IF Cardinality(s) <= n \/ s = {} THEN g[s] ELSE f[c(s)] + g[s \ {c(s)}]]
<1>1. ASSUME NEW s \in SUBSET S, s # {}
      PROVE  /\ c(s) \in s /\ s \ {c(s)} \in SUBSET S
             /\ Cardinality(s) \in Nat /\ Cardinality(s \ {c(s)}) \in Nat
             /\ Cardinality(s \ {c(s)}) = Cardinality(s) - 1
  <2>1. c(s) \in s
    BY <1>1
  <2>2. IsFiniteSet(s)
    BY FS_Subset
  <2> HIDE DEF c
  <2>3. IsFiniteSet(s \ {c(s)}) /\ Cardinality(s \ {c(s)}) = Cardinality(s) - 1
    BY <2>1, <2>2, FS_RemoveElement
  <2> QED
    BY <2>1, <2>2, <2>3, FS_CardinalityType
<1>2. g \in [SUBSET S -> Int]
  BY DEF AddsUpTo
<1>3. \A s \in SUBSET S :
        Cardinality(s) <= n => g[s] = IF s = {} THEN 0 ELSE f[c(s)] + g[s \ {c(s)}]
  BY DEF AddsUpTo
<1>4. Cardinality({}) = 0 /\ g[{}] = 0
  <2>1. Cardinality({}) = 0
    BY FS_EmptySet
  <2> QED
    BY <2>1, <1>3
<1> HIDE DEF c
<1>5. h \in [SUBSET S -> Int]
  BY <1>1, <1>2
<1>6. ASSUME NEW s \in SUBSET S, Cardinality(s) <= n + 1
      PROVE  h[s] = IF s = {} THEN 0 ELSE f[c(s)] + h[s \ {c(s)}]
  <2>1. CASE s = {}
    BY <1>4, <2>1
  <2>2. CASE s # {}
    <3>1. h[s \ {c(s)}] = g[s \ {c(s)}]
      BY <1>1, <1>6, <2>2
    <3>2. h[s] = f[c(s)] + g[s \ {c(s)}]
      BY <1>3, <2>2
    <3> QED
      BY <3>1, <3>2, <2>2
  <2> QED
    BY <2>1, <2>2
<1> HIDE DEF h
<1>7. AddsUpTo(f, S, h, n + 1)
  BY <1>5, <1>6 DEF AddsUpTo, c
<1> QED
  BY <1>7

LEMMA AddsExists ==
  ASSUME NEW S, IsFiniteSet(S), NEW f, \A x \in S : f[x] \in Int
  PROVE  \E g : Adds(f, S, g) /\ g \in [SUBSET S -> Int]
<1> DEFINE T == {n \in Nat : ~ \E g : AddsUpTo(f, S, g, n)}
<1>1. T = {}
  <2> SUFFICES ASSUME T # {} PROVE FALSE
    OBVIOUS
  <2>1. PICK n \in T : \A m \in T : n <= m
    <3>1. T \in SUBSET Nat
      OBVIOUS
    <3> HIDE DEF T
    <3> QED
      BY <3>1, Smallest
  <2>2. n # 0
    <3> DEFINE z == [s \in SUBSET S |-> 0]
    <3>1. ASSUME NEW s \in SUBSET S, Cardinality(s) <= 0 PROVE s = {}
      <4>1. IsFiniteSet(s)
        BY FS_Subset
      <4>2. Cardinality(s) \in Nat
        BY <4>1, FS_CardinalityType
      <4>3. Cardinality(s) = 0
        BY <4>2, <3>1
      <4> QED
        BY <4>1, <4>3, FS_EmptySet
    <3>2. AddsUpTo(f, S, z, 0)
      BY <3>1 DEF AddsUpTo
    <3> HIDE DEF z
    <3> QED
      BY <3>2
  <2>3. n - 1 \in Nat /\ n - 1 \notin T /\ (n - 1) + 1 = n
    BY <2>1, <2>2
  <2>4. PICK g : AddsUpTo(f, S, g, n - 1)
    BY <2>3
  <2>5. \E h : AddsUpTo(f, S, h, (n - 1) + 1)
    BY <2>3, <2>4, AddsFurther
  <2> QED
    BY <2>3, <2>5
<1>2. Cardinality(S) \in Nat /\ \A s \in SUBSET S : Cardinality(s) <= Cardinality(S)
  BY FS_CardinalityType, FS_Subset
<1>3. PICK g : AddsUpTo(f, S, g, Cardinality(S))
  BY <1>1, <1>2
<1>4. g = [s \in SUBSET S |-> g[s]] /\ g \in [SUBSET S -> Int]
  BY <1>3 DEF AddsUpTo
<1>5. \A s \in SUBSET S :
        g[s] = IF s = {} THEN 0 ELSE f[CHOOSE x \in s : TRUE] + g[s \ {CHOOSE x \in s : TRUE}]
  BY <1>2, <1>3 DEF AddsUpTo
<1>6. Adds(f, S, g)
  BY <1>4, <1>5 DEF Adds
<1> QED
  BY <1>4, <1>6


(* The sum over S and those over its subsets are values of one function.   *)
Sums(f, S, g) ==
  /\ Adds(f, S, g) /\ g \in [SUBSET S -> Int]
  /\ \A s \in SUBSET S : SumFunctionOnSet(f, s) = g[s]

LEMMA SumAdds ==
  ASSUME NEW S, IsFiniteSet(S), NEW f, \A x \in S : f[x] \in Int
  PROVE  \E g : Sums(f, S, g)
<1>1. PICK g : Adds(f, S, g) /\ g \in [SUBSET S -> Int]
  BY AddsExists
<1>2. ASSUME NEW s \in SUBSET S PROVE SumFunctionOnSet(f, s) = g[s]
  <2> DEFINE h == CHOOSE h : Adds(f, s, h)
  <2>1. IsFiniteSet(s)
    BY FS_Subset
  <2>2. \E k : Adds(f, s, k)
    BY <2>1, AddsExists
  <2>3. Adds(f, s, h)
    BY <2>2
  <2>4. SumFunctionOnSet(f, s) = h[s]
    BY SumIsAdded
  <2> HIDE DEF h
  <2>5. \A u \in SUBSET s : h[u] = g[u]
    BY <1>1, <2>1, <2>3, AddsSame
  <2> QED
    BY <2>4, <2>5
<1> QED
  BY <1>1, <1>2 DEF Sums

LEMMA SumType ==
  ASSUME NEW S, IsFiniteSet(S), NEW f, \A x \in S : f[x] \in Int
  PROVE  SumFunctionOnSet(f, S) \in Int
<1>1. PICK g : Sums(f, S, g)
  BY SumAdds
<1> QED
  BY <1>1 DEF Sums

LEMMA SumSame ==
  ASSUME NEW S, IsFiniteSet(S), NEW f, NEW h, \A x \in S : f[x] = h[x] /\ f[x] \in Int
  PROVE  SumFunctionOnSet(f, S) = SumFunctionOnSet(h, S)
<1>1. PICK g : Sums(f, S, g)
  BY SumAdds
<1>2. PICK k : Sums(h, S, k)
  BY SumAdds
<1>3. \A s \in SUBSET S : g[s] = k[s]
  BY <1>1, <1>2, AddsSame DEF Sums
<1> QED
  BY <1>1, <1>2, <1>3 DEF Sums

LEMMA SumOfNothing ==
  ASSUME NEW S, IsFiniteSet(S), NEW f, \A x \in S : f[x] = 0
  PROVE  SumFunctionOnSet(f, S) = 0
<1> DEFINE z == [s \in SUBSET S |-> 0]
           zero == [x \in S |-> 0]
<1>1. PICK g : Sums(f, S, g)
  BY SumAdds
<1>2. Adds(zero, S, z)
  BY DEF Adds
<1>3. \A x \in S : f[x] = zero[x]
  OBVIOUS
<1>4. z[S] = 0
  OBVIOUS
<1> HIDE DEF z, zero
<1>5. \A s \in SUBSET S : g[s] = z[s]
  BY <1>1, <1>2, <1>3, AddsSame DEF Sums
<1> QED
  BY <1>1, <1>4, <1>5 DEF Sums

(* Any element may be the one that is taken out. *)
LEMMA SumTakes ==
  ASSUME NEW S, IsFiniteSet(S), NEW f, \A x \in S : f[x] \in Int, NEW x \in S
  PROVE  SumFunctionOnSet(f, S) = f[x] + SumFunctionOnSet(f, S \ {x})
<1>0. PICK g : Sums(f, S, g)
  BY SumAdds
<1>1. /\ Adds(f, S, g) /\ g \in [SUBSET S -> Int]
      /\ \A s \in SUBSET S : SumFunctionOnSet(f, s) = g[s]
  BY <1>0 DEF Sums
<1> DEFINE T == {s \in SUBSET S : \E y \in s : g[s] # f[y] + g[s \ {y}]}
<1>2. T = {}
  <2> SUFFICES ASSUME T # {} PROVE FALSE
    OBVIOUS
  <2>1. PICK s \in T : \A u \in T : u \subseteq s => u = s
    <3>1. T \in SUBSET SUBSET S
      OBVIOUS
    <3> HIDE DEF T
    <3> QED
      BY <3>1, SmallestSet
  <2>2. PICK y \in s : g[s] # f[y] + g[s \ {y}]
    OBVIOUS
  <2> DEFINE c == CHOOSE z \in s : TRUE
  <2>3. c \in s /\ g[s] = f[c] + g[s \ {c}]
    BY <1>1, <2>2 DEF Adds
  <2> HIDE DEF c
  <2>4. y # c
    BY <2>2, <2>3
  <2>5. /\ s \ {c} \in SUBSET S /\ s \ {c} \subseteq s /\ s \ {c} # s
        /\ s \ {y} \in SUBSET S /\ s \ {y} \subseteq s /\ s \ {y} # s
        /\ y \in s \ {c} /\ c \in s \ {y}
        /\ (s \ {c}) \ {y} = (s \ {y}) \ {c}
        /\ (s \ {y}) \ {c} \in SUBSET S
    BY <2>3, <2>4
  <2>6. s \ {c} \notin T /\ s \ {y} \notin T
    BY <2>1, <2>5
  <2>7. g[s \ {c}] = f[y] + g[(s \ {c}) \ {y}]
    BY <2>5, <2>6
  <2>8. g[s \ {y}] = f[c] + g[(s \ {y}) \ {c}]
    BY <2>5, <2>6
  <2>9. f[y] \in Int /\ f[c] \in Int /\ g[(s \ {y}) \ {c}] \in Int
    BY <1>1, <2>3, <2>5
  <2> DEFINE rest == g[(s \ {y}) \ {c}]
  <2>10. g[s] = f[c] + (f[y] + rest) /\ g[s \ {y}] = f[c] + rest
    BY <2>3, <2>5, <2>7, <2>8
  <2>11. rest \in Int
    BY <2>9
  <2> HIDE DEF T, rest
  <2>12. f[c] + (f[y] + rest) = f[y] + (f[c] + rest)
    BY <2>9, <2>11
  <2> QED
    BY <2>2, <2>10, <2>12
<1>3. g[S] = f[x] + g[S \ {x}]
  BY <1>2
<1> QED
  BY <1>1, <1>3

(* What x contributes to the sum of f over S *)
Share(f, S, x) == IF x \in S THEN f[x] ELSE 0

(* Two sums that differ by what x contributes *)
LEMMA SumMoves ==
  ASSUME NEW S, IsFiniteSet(S), NEW R, IsFiniteSet(R), NEW f, NEW h, NEW x,
         S \ {x} = R \ {x},
         \A y \in S : f[y] \in Int, \A y \in R : h[y] \in Int,
         \A y \in S \ {x} : f[y] = h[y]
  PROVE  /\ SumFunctionOnSet(f, S) \in Int /\ Share(f, S, x) \in Int /\ Share(h, R, x) \in Int
         /\ SumFunctionOnSet(h, R) = SumFunctionOnSet(f, S) + (Share(h, R, x) - Share(f, S, x))
<1> DEFINE both == S \ {x}
<1>1. IsFiniteSet(both)
  BY FS_RemoveElement
<1>2. /\ \A y \in both : f[y] \in Int /\ h[y] \in Int /\ f[y] = h[y]
      /\ both = R \ {x}
  OBVIOUS
<1>3. SumFunctionOnSet(f, both) \in Int /\ SumFunctionOnSet(f, both) = SumFunctionOnSet(h, both)
  <2> HIDE DEF both
  <2>1. SumFunctionOnSet(f, both) \in Int
    BY <1>1, <1>2, SumType
  <2>2. SumFunctionOnSet(f, both) = SumFunctionOnSet(h, both)
    BY <1>1, <1>2, SumSame
  <2> QED
    BY <2>1, <2>2
<1>4. /\ Share(f, S, x) \in Int
      /\ SumFunctionOnSet(f, S) = Share(f, S, x) + SumFunctionOnSet(f, both)
  <2>1. CASE x \in S
    BY <2>1, SumTakes DEF Share
  <2>2. CASE x \notin S
    <3>1. S = both
      BY <2>2
    <3> HIDE DEF both
    <3> QED
      BY <2>2, <3>1, <1>3 DEF Share
  <2> QED
    BY <2>1, <2>2
<1>5. /\ Share(h, R, x) \in Int
      /\ SumFunctionOnSet(h, R) = Share(h, R, x) + SumFunctionOnSet(h, both)
  <2>1. CASE x \in R
    BY <2>1, <1>2, SumTakes DEF Share
  <2>2. CASE x \notin R
    <3>1. R = both
      BY <2>2
    <3> HIDE DEF both
    <3> QED
      BY <2>2, <3>1, <1>3 DEF Share
  <2> QED
    BY <2>1, <2>2
<1> HIDE DEF both
<1> QED
  BY <1>3, <1>4, <1>5

-----------------------------------------------------------------------------
(* The two ledgers *)

Halves == [r \in Requests |-> Halfway(r)]
Sessions(e) == {j \in seeded : EmbedOf[j] = e}
Serving(e) == {r \in Requests : Account(r) = e}

Ledger(e) ==
  spend[e] = SumFunctionOnSet(Used, Sessions(e)) + SumFunctionOnSet(Halves, Serving(e))

(* Only so many tokens have been seen, and their ledger is that of their   *)
(* embed.                                                                  *)
LedgerInv ==
  /\ IsFiniteSet(seeded)
  /\ ~Durable /\ day = 0 => \A e \in Embeds : Ledger(e)

LedgerTypesOK ==
  /\ \A j \in Jtis : Used[j] \in Int
  /\ \A r \in Requests : Halves[r] \in Int /\ Account(r) = EmbedOf[req[r].jti]
  /\ \A e \in Embeds :
       /\ IsFiniteSet(Sessions(e)) /\ IsFiniteSet(Serving(e))
       /\ Sessions(e) \subseteq Jtis /\ Serving(e) \subseteq Requests
       /\ spend[e] \in Int

LEMMA LedgerTypes == ChatInv /\ IsFiniteSet(seeded) => LedgerTypesOK
<1> SUFFICES ASSUME ChatInv, IsFiniteSet(seeded) PROVE LedgerTypesOK
  OBVIOUS
<1>1. /\ seeded \subseteq Jtis /\ sessionToks \in [Jtis -> Int] /\ spend \in [Embeds -> Nat]
      /\ req \in [Requests -> Locals] /\ TokBudget \in [Jtis -> Int] /\ IsFiniteSet(Requests)
  BY ChatAssumption DEF ChatInv, WellFormed, TypeOK
<1>2. ASSUME NEW e \in Embeds
      PROVE  /\ IsFiniteSet(Sessions(e)) /\ IsFiniteSet(Serving(e))
             /\ Sessions(e) \subseteq Jtis /\ Serving(e) \subseteq Requests
             /\ spend[e] \in Int
  <2>1. Sessions(e) \in SUBSET seeded /\ Serving(e) \in SUBSET Requests
    BY DEF Sessions, Serving
  <2> QED
    BY <1>1, <2>1, FS_Subset
<1>4. ASSUME NEW j \in Jtis PROVE Used[j] \in Int
  BY <1>1 DEF Used, SessionUsed
<1>5. ASSUME NEW r \in Requests PROVE Halves[r] \in Int
  <2>1. req[r].prompt \in Nat /\ req[r].text \in Nat /\ req[r].charged \in Nat
    BY <1>1 DEF Locals
  <2>2. EstimateTokens(req[r].text) \in Nat
    BY <2>1, EstimateType
  <2>3. Owed(r) \in Int
    BY <2>1, <2>2 DEF Owed
  <2> QED
    BY <2>1, <2>3 DEF Halves, Halfway
<1> QED
  BY <1>2, <1>4, <1>5 DEF Account, LedgerTypesOK

LEMMA LedgerTypesNext == ChatInv' /\ IsFiniteSet(seeded)' => LedgerTypesOK'
BY LedgerTypes, PTL

LEMMA LedgerMoves ==
  ASSUME ChatInv, ChatInv', LedgerInv, IsFiniteSet(seeded'), ~Durable, day = 0,
         NEW r \in Requests, NEW j \in Jtis, NEW e \in Embeds,
         \A q \in Requests \ {r} : Halves'[q] = Halves[q] /\ req'[q] = req[q],
         \A k \in Jtis \ {j} : Used'[k] = Used[k] /\ (k \in seeded' <=> k \in seeded),
         spend'[e] = spend[e] + ((Share(Used', Sessions(e)', j) - Share(Used, Sessions(e), j))
                                 + (Share(Halves', Serving(e)', r) - Share(Halves, Serving(e), r)))
  PROVE  Ledger(e)'
<1>1. Ledger(e)
  BY DEF LedgerInv
<1>2. /\ IsFiniteSet(Sessions(e)) /\ IsFiniteSet(Serving(e))
      /\ \A k \in Jtis : Used[k] \in Int
      /\ \A q \in Requests : Halves[q] \in Int
      /\ Sessions(e) \subseteq Jtis /\ Serving(e) \subseteq Requests /\ spend[e] \in Int
  BY LedgerTypes DEF LedgerInv, LedgerTypesOK
<1>3. /\ IsFiniteSet(Sessions(e)') /\ IsFiniteSet(Serving(e)')
      /\ \A k \in Jtis : Used'[k] \in Int
      /\ \A q \in Requests : Halves'[q] \in Int
      /\ Sessions(e)' \subseteq Jtis /\ Serving(e)' \subseteq Requests
  BY LedgerTypesNext DEF LedgerTypesOK
<1>4. Sessions(e) \ {j} = Sessions(e)' \ {j}
  BY <1>2, <1>3 DEF Sessions
<1>5. Serving(e) \ {r} = Serving(e)' \ {r}
  BY DEF Serving, Account
<1>6. /\ SumFunctionOnSet(Used, Sessions(e)) \in Int
      /\ Share(Used, Sessions(e), j) \in Int /\ Share(Used', Sessions(e)', j) \in Int
      /\ SumFunctionOnSet(Used', Sessions(e)') =
           SumFunctionOnSet(Used, Sessions(e))
           + (Share(Used', Sessions(e)', j) - Share(Used, Sessions(e), j))
  BY <1>2, <1>3, <1>4, SumMoves
<1>7. /\ SumFunctionOnSet(Halves, Serving(e)) \in Int
      /\ Share(Halves, Serving(e), r) \in Int /\ Share(Halves', Serving(e)', r) \in Int
      /\ SumFunctionOnSet(Halves', Serving(e)') =
           SumFunctionOnSet(Halves, Serving(e))
           + (Share(Halves', Serving(e)', r) - Share(Halves, Serving(e), r))
  BY <1>2, <1>3, <1>5, SumMoves
<1> QED
  BY <1>1, <1>6, <1>7 DEF Ledger

-----------------------------------------------------------------------------
(* The ways a step moves them *)

(* Nothing is recorded: the handler owes nothing before and after, or the  *)
(* same to the same embed.                                                 *)
LEMMA QuietKeepsLedger ==
  ASSUME ChatInv, ChatInv', LedgerInv, NEW r \in Requests,
         UNCHANGED <<day, spend, seeded, sessionToks>>,
         \A q \in Requests \ {r} : pc'[q] = pc[q] /\ req'[q] = req[q],
         \/ Halfway(r) = 0 /\ Halfway(r)' = 0
         \/ Halfway(r)' = Halfway(r) /\ req'[r].jti = req[r].jti
  PROVE  LedgerInv'
<1>1. IsFiniteSet(seeded')
  BY DEF LedgerInv
<1>2. ASSUME ~Durable, day = 0, NEW e \in Embeds PROVE Ledger(e)'
  <2>1. PICK j \in Jtis : TRUE
    BY ChatAssumption
  <2>2. \A q \in Requests \ {r} : Halves'[q] = Halves[q] /\ req'[q] = req[q]
    BY DEF Halves, Halfway, Owed
  <2>3. Used' = Used
    BY UsedSame
  <2>4. Sessions(e)' = Sessions(e)
    BY DEF Sessions
  <2>5. Share(Halves', Serving(e)', r) = Share(Halves, Serving(e), r)
    BY DEF Share, Halves, Serving, Account
  <2>6. spend'[e] = spend[e] + ((Share(Used', Sessions(e)', j) - Share(Used, Sessions(e), j))
                                + (Share(Halves', Serving(e)', r) - Share(Halves, Serving(e), r)))
    <3>1. LedgerTypesOK
      BY LedgerTypes DEF LedgerInv
    <3>2. Share(Used, Sessions(e), j) \in Int /\ Share(Halves, Serving(e), r) \in Int
      BY <3>1 DEF Share, LedgerTypesOK
    <3>3. spend'[e] = spend[e] /\ spend[e] \in Int
      BY <3>1 DEF LedgerTypesOK
    <3> QED
      BY <2>3, <2>4, <2>5, <3>2, <3>3
  <2> QED
    BY <1>1, <1>2, <2>2, <2>3, <2>6, LedgerMoves
<1> QED
  BY <1>1, <1>2 DEF LedgerInv

(* The share of the handler that does the step, and of its session, in the *)
(* ledgers of e                                                            *)
Shares(r, j, e) ==
  /\ Share(Halves, Serving(e), r) = IF EmbedOf[j] = e THEN Halfway(r) ELSE 0
  /\ Share(Used, Sessions(e), j) = IF EmbedOf[j] = e THEN SessionUsed(j) ELSE 0
  /\ Halfway(r) \in Int /\ SessionUsed(j) \in Int /\ spend[e] \in Int

SharesOK ==
  \A r \in Requests, j \in Jtis, e \in Embeds : j = req[r].jti => Shares(r, j, e)

LEMMA SharesOf == LedgerTypesOK => SharesOK
<1> SUFFICES ASSUME LedgerTypesOK, NEW r \in Requests, NEW j \in Jtis, NEW e \in Embeds,
                    j = req[r].jti
             PROVE  Shares(r, j, e)
  BY DEF SharesOK
<1>1. Halves[r] = Halfway(r) /\ Used[j] = SessionUsed(j)
  BY DEF Halves, Used
<1>2. r \in Serving(e) <=> EmbedOf[j] = e
  BY DEF LedgerTypesOK, Serving
<1>3. j \in Sessions(e) <=> j \in seeded /\ EmbedOf[j] = e
  BY DEF Sessions
<1>4. j \notin seeded => SessionUsed(j) = 0
  BY DEF SessionUsed
<1>5. Share(Halves, Serving(e), r) = IF EmbedOf[j] = e THEN Halfway(r) ELSE 0
  BY <1>1, <1>2 DEF Share
<1>6. Share(Used, Sessions(e), j) = IF EmbedOf[j] = e THEN SessionUsed(j) ELSE 0
  BY <1>1, <1>3, <1>4 DEF Share
<1> QED
  BY <1>1, <1>5, <1>6 DEF LedgerTypesOK, Shares

LEMMA SharesOfNext == LedgerTypesOK' => SharesOK'
BY SharesOf, PTL

(* Something is recorded: the two ledgers of the embed get the same.       *)
LEMMA ChargeKeepsLedger ==
  ASSUME ChatInv, ChatInv', LedgerInv, IsFiniteSet(seeded'), NEW r \in Requests, NEW j \in Jtis,
         j = req[r].jti, j = req'[r].jti, day' = day,
         \A q \in Requests \ {r} : pc'[q] = pc[q] /\ req'[q] = req[q],
         \A k \in Jtis \ {j} :
           sessionToks'[k] = sessionToks[k] /\ (k \in seeded' <=> k \in seeded),
         ~Durable => /\ \A e \in Embeds \ {EmbedOf[j]} : spend'[e] = spend[e]
                     /\ spend'[EmbedOf[j]] = spend[EmbedOf[j]]
                                            + ((SessionUsed(j)' - SessionUsed(j))
                                               + (Halfway(r)' - Halfway(r)))
  PROVE  LedgerInv'
<1>1. LedgerTypesOK /\ LedgerTypesOK'
  BY LedgerTypes, LedgerTypesNext DEF LedgerInv
<1>2. ASSUME ~Durable, day = 0, NEW e \in Embeds PROVE Ledger(e)'
  <2>2. \A q \in Requests \ {r} : Halves'[q] = Halves[q] /\ req'[q] = req[q]
    BY DEF Halves, Halfway, Owed
  <2>3. \A k \in Jtis \ {j} : Used'[k] = Used[k] /\ (k \in seeded' <=> k \in seeded)
    BY DEF Used, SessionUsed
  <2>4. Shares(r, j, e) /\ Shares(r, j, e)'
    BY <1>1, SharesOf, SharesOfNext DEF SharesOK
  <2>5. /\ Share(Halves, Serving(e), r) = IF EmbedOf[j] = e THEN Halfway(r) ELSE 0
        /\ Share(Used, Sessions(e), j) = IF EmbedOf[j] = e THEN SessionUsed(j) ELSE 0
        /\ Share(Halves', Serving(e)', r) = IF EmbedOf[j] = e THEN Halfway(r)' ELSE 0
        /\ Share(Used', Sessions(e)', j) = IF EmbedOf[j] = e THEN SessionUsed(j)' ELSE 0
        /\ Halfway(r) \in Int /\ SessionUsed(j) \in Int /\ spend[e] \in Int
        /\ Halfway(r)' \in Int /\ SessionUsed(j)' \in Int
    BY <2>4 DEF Shares
  <2>6. spend'[e] = spend[e] + ((Share(Used', Sessions(e)', j) - Share(Used, Sessions(e), j))
                                + (Share(Halves', Serving(e)', r) - Share(Halves, Serving(e), r)))
    <3>1. CASE EmbedOf[j] = e
      BY <1>2, <2>5, <3>1
    <3>2. CASE EmbedOf[j] # e
      <4>1. spend'[e] = spend[e]
        BY <1>2, <3>2
      <4> QED
        BY <2>5, <3>2, <4>1
    <3> QED
      BY <3>1, <3>2
  <2> QED
    BY <1>2, <2>2, <2>3, <2>6, LedgerMoves
<1> QED
  BY <1>2 DEF LedgerInv

-----------------------------------------------------------------------------
(* Each action is one of these *)

LEMMA InitSessionLedger ==
  ASSUME ChatInv, ChatInv', LedgerInv, NEW r \in Requests, InitSession(r)
  PROVE  LedgerInv'
<1>j. PICK j \in Jtis : j = req[r].jti
  BY ChargesAreNat
<1>1. /\ \A q \in Requests \ {r} : pc'[q] = pc[q] /\ req'[q] = req[q]
  BY Frame DEF Handler
<1>2. req'[r].jti = j
  BY <1>j DEF InitSession
<1>3. Halfway(r) = 0 /\ Halfway(r)' = 0
  BY DEF InitSession, GoTo, Halfway, ChatInv, WellFormed, TypeOK
<1>4. /\ sessionToks \in [Jtis -> Int] /\ TokBudget[j] \in Int
      /\ spend' = spend /\ day' = day
  BY <1>2, ChatAssumption DEF InitSession, ChatInv, WellFormed, TypeOK
<1>5. CASE j \in seeded
  BY <1>1, <1>3, <1>4, <1>5, <1>j, QuietKeepsLedger DEF InitSession
<1>6. CASE j \notin seeded
  <2>1. /\ seeded' = seeded \cup {j}
        /\ sessionToks' = [sessionToks EXCEPT ![j] = TokBudget[j]]
    BY <1>6, <1>j DEF InitSession
  <2>2. IsFiniteSet(seeded')
    BY <2>1, FS_AddElement DEF LedgerInv
  <2>3. \A k \in Jtis \ {j} :
          sessionToks'[k] = sessionToks[k] /\ (k \in seeded' <=> k \in seeded)
    BY <1>4, <2>1
  <2>4. SessionUsed(j) = 0 /\ SessionUsed(j)' = 0
    BY <1>2, <1>4, <1>6, <2>1 DEF SessionUsed
  <2>5. EmbedOf[j] \in Embeds /\ spend[EmbedOf[j]] \in Int
    BY <1>2, ChatAssumption DEF ChatInv, WellFormed, TypeOK
  <2>6. spend'[EmbedOf[j]] = spend[EmbedOf[j]]
                             + ((SessionUsed(j)' - SessionUsed(j)) + (Halfway(r)' - Halfway(r)))
    BY <1>3, <1>4, <2>4, <2>5
  <2>7. j = req[r].jti /\ j = req'[r].jti
    BY <1>2, <1>j
  <2>8. \A e \in Embeds \ {EmbedOf[j]} : spend'[e] = spend[e]
    BY <1>4
  <2>9. j \in Jtis /\ day' = day
    BY <1>2, <1>4
  <2> QED
    BY <1>1, <2>2, <2>3, <2>6, <2>7, <2>8, <2>9, ChargeKeepsLedger
<1> QED
  BY <1>5, <1>6

(* The backend that cannot fail records what it is given. *)
LEMMA BackendRecords ==
  ASSUME ~Durable, NEW e \in Embeds, NEW k, NEW what, NEW answered \in BOOLEAN,
         BackendAdd(e, k, what, answered),
         spend \in [Embeds -> Nat]
  PROVE  spend'[e] = spend[e] + k /\ \A f \in Embeds \ {e} : spend'[f] = spend[f]
<1>1. spend' = [spend EXCEPT ![e] = @ + k]
  BY DEF BackendAdd
<1> QED
  BY <1>1

LEMMA BackendLedger ==
  ASSUME ChatInv, ChatInv', LedgerInv, NEW r \in Requests, ChargePrompt(r) \/ ChargeDelta(r)
  PROVE  LedgerInv'
<1>j. PICK j \in Jtis : j = req[r].jti
  BY ChargesAreNat
<1> DEFINE Records(i) ==
             /\ req'[r].jti = i
             /\ ~Durable => /\ spend'[EmbedOf[i]] = spend[EmbedOf[i]] + Halfway(r)'
                            /\ \A e \in Embeds \ {EmbedOf[i]} : spend'[e] = spend[e]
<1>1. /\ \A q \in Requests \ {r} : pc'[q] = pc[q] /\ req'[q] = req[q]
  BY Frame DEF Handler
<1>2. Account(r) = EmbedOf[j] /\ EmbedOf[j] \in Embeds
  BY <1>j, ChargesAreNat DEF Account
<1>3. /\ UNCHANGED <<day, seeded, sessionToks>> /\ Halfway(r) = 0
      /\ spend \in [Embeds -> Nat] /\ IsFiniteSet(seeded')
  BY DEF ChargePrompt, ChargeDelta, Halfway, ChatInv, WellFormed, TypeOK, LedgerInv
<1>4. /\ req \in [Requests -> Locals] /\ req[r] \in Locals /\ pc \in [Requests -> Steps]
  BY DEF ChatInv, WellFormed, TypeOK
<1>5. ASSUME ChargePrompt(r) PROVE Records(j)
  <2>1. /\ req'[r].jti = j /\ req'[r].prompt = req[r].prompt
        /\ pc'[r] = "promptSession"
    BY <1>4, <1>5, <1>j DEF ChargePrompt, GoTo, Locals
  <2>2. Halfway(r)' = req[r].prompt
    BY <2>1 DEF Halfway
  <2>3. PICK answered \in BOOLEAN :
          BackendAdd(Account(r), req[r].prompt, "prompt", answered)
    BY <1>5 DEF ChargePrompt
  <2>q. ~Durable => /\ spend'[EmbedOf[j]] = spend[EmbedOf[j]] + Halfway(r)'
                    /\ \A e \in Embeds \ {EmbedOf[j]} : spend'[e] = spend[e]
    BY <1>2, <1>3, <2>2, <2>3, BackendRecords
  <2> QED
    BY <2>1, <2>q
<1>6. ASSUME ChargeDelta(r) PROVE Records(j)
  <2>1. /\ req'[r].jti = j /\ req'[r].text = req[r].text /\ req'[r].charged = req[r].charged
        /\ pc'[r] = "chargeSession"
    BY <1>4, <1>6, <1>j DEF ChargeDelta, GoTo, Locals
  <2>2. Halfway(r)' = Owed(r)
    BY <2>1 DEF Halfway, Owed
  <2>3. PICK answered \in BOOLEAN :
          BackendAdd(Account(r), Owed(r), "delta", answered)
    BY <1>6 DEF ChargeDelta
  <2>q. ~Durable => /\ spend'[EmbedOf[j]] = spend[EmbedOf[j]] + Halfway(r)'
                    /\ \A e \in Embeds \ {EmbedOf[j]} : spend'[e] = spend[e]
    BY <1>2, <1>3, <2>2, <2>3, BackendRecords
  <2> QED
    BY <2>1, <2>q
<1>7. Records(j)
  BY <1>5, <1>6
<1>8. j = req[r].jti /\ j = req'[r].jti
  BY <1>7, <1>j
<1>9. Halfway(r)' \in Int /\ SessionUsed(j) \in Int /\ SessionUsed(j)' = SessionUsed(j)
      /\ spend[EmbedOf[j]] \in Int
  <2>1. LedgerTypesOK /\ LedgerTypesOK'
    BY <1>3, LedgerTypes, LedgerTypesNext DEF LedgerInv
  <2>2. Shares(r, j, EmbedOf[j]) /\ Shares(r, j, EmbedOf[j])'
    BY <2>1, <1>2, <1>8, SharesOf, SharesOfNext DEF SharesOK
  <2> QED
    BY <2>2, <1>3 DEF Shares, SessionUsed
<1>10. ~Durable => /\ \A e \in Embeds \ {EmbedOf[j]} : spend'[e] = spend[e]
                  /\ spend'[EmbedOf[j]] = spend[EmbedOf[j]]
                                         + ((SessionUsed(j)' - SessionUsed(j))
                                            + (Halfway(r)' - Halfway(r)))
  BY <1>3, <1>7, <1>9
<1>11. \A k \in Jtis \ {j} :
         sessionToks'[k] = sessionToks[k] /\ (k \in seeded' <=> k \in seeded)
  BY <1>3
<1> QED
  BY <1>1, <1>2, <1>3, <1>8, <1>10, <1>11, ChargeKeepsLedger

LEMMA SessionLedger ==
  ASSUME ChatInv, ChatInv', LedgerInv, NEW r \in Requests,
         ChargePromptSession(r) \/ ChargeDeltaSession(r)
  PROVE  LedgerInv'
<1>j. PICK j \in Jtis : j = req[r].jti
  BY ChargesAreNat
<1>1. \A q \in Requests \ {r} : pc'[q] = pc[q] /\ req'[q] = req[q]
  BY Frame DEF Handler
<1>2. EmbedOf[j] \in Embeds /\ j \in seeded
  BY <1>j, ChatAssumption
     DEF ChargePromptSession, ChargeDeltaSession, ChatInv, WellFormed, Bookkeeping
<1>3. /\ UNCHANGED <<day, seeded, spend>> /\ IsFiniteSet(seeded')
      /\ sessionToks \in [Jtis -> Int] /\ TokBudget[j] \in Int
  BY ChatAssumption
     DEF ChargePromptSession, ChargeDeltaSession, ChatInv, WellFormed, TypeOK, LedgerInv
<1>4. req \in [Requests -> Locals] /\ req[r] \in Locals /\ pc \in [Requests -> Steps]
  BY DEF ChatInv, WellFormed, TypeOK
<1> DEFINE Used2(k) ==
             /\ sessionToks' = [sessionToks EXCEPT ![j] = @ - k]
             /\ Halfway(r) = k /\ Halfway(r)' = 0 /\ req'[r].jti = j
<1>5. ASSUME ChargePromptSession(r) PROVE \E k : Used2(k)
  <2>1. /\ sessionToks' = [sessionToks EXCEPT ![j] = @ - req[r].prompt]
        /\ pc[r] = "promptSession" /\ pc'[r] = "resolve" /\ req' = req
    BY <1>4, <1>5, <1>j DEF ChargePromptSession, SessionSpend, GoTo
  <2>2. Halfway(r) = req[r].prompt /\ Halfway(r)' = 0
    BY <2>1 DEF Halfway
  <2>3. Used2(req[r].prompt)
    BY <2>1, <2>2, <1>j
  <2> QED
    BY <2>3
<1>6. ASSUME ChargeDeltaSession(r) PROVE \E k : Used2(k)
  <2>1. /\ sessionToks' = [sessionToks EXCEPT ![j] = @ - Owed(r)]
        /\ pc[r] = "chargeSession" /\ pc'[r] \in {"finish", "stream"}
    BY <1>4, <1>6, <1>j DEF ChargeDeltaSession, SessionSpend, GoTo
  <2>2. Halfway(r) = Owed(r) /\ Halfway(r)' = 0
    BY <2>1 DEF Halfway
  <2>3. req'[r].jti = j
    <3> DEFINE paid == [req[r] EXCEPT !.charged = EstimateTokens(req[r].text)]
    <3>1. paid.jti = j /\ [paid EXCEPT !.ending = "stop"].jti = j
      BY <1>4, <1>j DEF Locals
    <3>2. req'[r] = paid \/ req'[r] = [paid EXCEPT !.ending = "stop"]
      BY <1>4, <1>6 DEF ChargeDeltaSession
    <3> QED
      BY <3>1, <3>2
  <2>4. Used2(Owed(r))
    BY <2>1, <2>2, <2>3
  <2> QED
    BY <2>4
<1>7. PICK k : Used2(k)
  BY <1>5, <1>6
<1>8. j = req[r].jti /\ j = req'[r].jti
  BY <1>7, <1>j
<1>9. Halfway(r) \in Int /\ SessionUsed(j) \in Int /\ spend[EmbedOf[j]] \in Int
  <2>1. LedgerTypesOK
    BY LedgerTypes DEF LedgerInv
  <2>2. Shares(r, j, EmbedOf[j])
    BY <2>1, <1>2, <1>8, SharesOf DEF SharesOK
  <2> QED
    BY <2>2 DEF Shares
<1>10. SessionUsed(j)' = SessionUsed(j) + k
  <2>1. sessionToks'[j] = sessionToks[j] - k /\ sessionToks[j] \in Int /\ k \in Int
    BY <1>3, <1>7, <1>9
  <2>2. SessionUsed(j) = TokBudget[j] - sessionToks[j]
        /\ SessionUsed(j)' = TokBudget[j] - sessionToks'[j]
    BY <1>2, <1>3 DEF SessionUsed
  <2> QED
    BY <2>1, <2>2, <1>3
<1>11. spend'[EmbedOf[j]] = spend[EmbedOf[j]]
                            + ((SessionUsed(j)' - SessionUsed(j)) + (Halfway(r)' - Halfway(r)))
  BY <1>3, <1>7, <1>9, <1>10
<1>12. /\ \A e \in Embeds \ {EmbedOf[j]} : spend'[e] = spend[e]
       /\ \A i \in Jtis \ {j} :
            sessionToks'[i] = sessionToks[i] /\ (i \in seeded' <=> i \in seeded)
  BY <1>3, <1>7
<1>13. day' = day /\ IsFiniteSet(seeded')
  BY <1>3
<1> QED
  BY <1>1, <1>8, <1>11, <1>12, <1>13, ChargeKeepsLedger

(* The other steps of a handler record nothing. *)
LEMMA OtherStepsLedger ==
  ASSUME ChatInv, ChatInv', LedgerInv, NEW r \in Requests,
         \/ \E j \in Jtis, n \in Prompts : Start(r, j, n)
         \/ ConsumeMessage(r) \/ SpendAvailable(r) \/ SessionTokensRemaining(r) \/ Resolve(r)
         \/ Deadline(r) \/ (\E d \in Deltas : Delta(r, d)) \/ Write(r) \/ UpstreamEnds(r)
         \/ Finish(r)
  PROVE  LedgerInv'
<1>1. \A q \in Requests \ {r} : pc'[q] = pc[q] /\ req'[q] = req[q]
  BY Frame DEF Handler
<1>2. UNCHANGED <<day, spend, seeded, sessionToks>>
  BY DEF Start, ConsumeMessage, SpendAvailable, SessionTokensRemaining, Resolve, Deadline,
         Delta, Write, UpstreamEnds, Finish, counters
<1>3. req \in [Requests -> Locals] /\ req[r] \in Locals /\ pc \in [Requests -> Steps]
  BY DEF ChatInv, WellFormed, TypeOK
<1> DEFINE halves == {"promptSession", "chargeSession"}
<1>4. ASSUME pc[r] \notin halves, pc'[r] \notin halves
      PROVE  Halfway(r) = 0 /\ Halfway(r)' = 0
  BY <1>4 DEF Halfway
<1>5. CASE Deadline(r)
  <2>1. /\ req'[r].jti = req[r].jti /\ req'[r].prompt = req[r].prompt
        /\ req'[r].text = req[r].text /\ req'[r].charged = req[r].charged /\ pc' = pc
    BY <1>3, <1>5 DEF Deadline, Locals
  <2>2. Halfway(r)' = Halfway(r)
    BY <2>1 DEF Halfway, Owed
  <2> QED
    BY <1>1, <1>2, <2>1, <2>2, QuietKeepsLedger
<1>6. CASE ~ Deadline(r)
  <2>1. pc[r] \notin halves /\ pc'[r] \notin halves
    BY <1>3, <1>6
       DEF Start, ConsumeMessage, SpendAvailable, SessionTokensRemaining, Resolve, Delta,
           Write, UpstreamEnds, Finish, GoTo, Return
  <2> QED
    BY <1>1, <1>2, <1>4, <2>1, QuietKeepsLedger
<1> QED
  BY <1>5, <1>6

(* Nothing recorded, no session, and no handler: the ledgers are empty.    *)
LEMMA EmptyLedger ==
  ASSUME seeded = {}, spend = [e \in Embeds |-> 0], pc = [r \in Requests |-> "idle"],
         NEW e \in Embeds
  PROVE  Ledger(e)
<1>1. Sessions(e) = {} /\ Serving(e) \in SUBSET Requests
  BY DEF Sessions, Serving
<1>2. IsFiniteSet(Serving(e)) /\ IsFiniteSet(Sessions(e))
  BY <1>1, FS_Subset, FS_EmptySet, ChatAssumption
<1>3. \A r \in Serving(e) : Halves[r] = 0
  BY <1>1 DEF Halves, Halfway
<1>4. SumFunctionOnSet(Halves, Serving(e)) = 0
  BY <1>2, <1>3, SumOfNothing
<1>5. \A j \in Sessions(e) : Used[j] = 0
  BY <1>1
<1>6. SumFunctionOnSet(Used, Sessions(e)) = 0
  BY <1>2, <1>5, SumOfNothing
<1>7. spend[e] = 0
  OBVIOUS
<1> QED
  BY <1>4, <1>6, <1>7 DEF Ledger

EmptyState ==
  seeded = {} /\ spend = [e \in Embeds |-> 0] /\ pc = [r \in Requests |-> "idle"]

LEMMA EmptyLedgers == EmptyState => \A e \in Embeds : Ledger(e)
BY EmptyLedger DEF EmptyState

LEMMA EmptyLedgersNext == EmptyState' => (\A e \in Embeds : Ledger(e))'
BY EmptyLedgers, PTL

LEMMA LedgerInit == Init => LedgerInv
BY EmptyLedgers, FS_EmptySet DEF Init, EmptyState, LedgerInv

LEMMA LedgerNext ==
  ASSUME ChatInv, ChatInv', LedgerInv, [Next]_vars
  PROVE  LedgerInv'
<1>1. ASSUME NEW r \in Requests, NEW j \in Jtis, NEW n \in Prompts, Start(r, j, n)
      PROVE  LedgerInv'
  BY <1>1, OtherStepsLedger
<1>2. ASSUME NEW r \in Requests, Handler(r) PROVE LedgerInv'
  <2>1. CASE InitSession(r)
    BY <2>1, InitSessionLedger
  <2>2. CASE ChargePrompt(r) \/ ChargeDelta(r)
    BY <2>2, BackendLedger
  <2>3. CASE ChargePromptSession(r) \/ ChargeDeltaSession(r)
    BY <2>3, SessionLedger
  <2> QED
    BY <1>2, <2>1, <2>2, <2>3, OtherStepsLedger DEF Handler
<1>3. CASE UNCHANGED <<day, spend, seeded, sessionToks, pc, req>>
  <2>1. PICK r \in Requests : TRUE
    BY ChatAssumption
  <2>2. Halfway(r)' = Halfway(r)
    BY <1>3 DEF Halfway, Owed
  <2> QED
    BY <1>3, <2>2, QuietKeepsLedger
<1>4. CASE Midnight
  <2>1. ~ (day' = 0)
    BY <1>4 DEF Midnight, ChatInv, WellFormed, TypeOK
  <2> QED
    BY <1>4, <2>1 DEF Midnight, LedgerInv
<1>5. CASE Restart
  <2>1. IsFiniteSet(seeded')
    BY <1>5, FS_EmptySet DEF Restart
  <2>2. ~Durable => EmptyState'
    BY <1>5 DEF Restart, SpendAfterRestart, EmptyState
  <2> QED
    BY <2>1, <2>2, EmptyLedgersNext DEF LedgerInv
<1>6. ASSUME NEW c \in Conns, Lands(c) PROVE LedgerInv'
  <2>1. Durable
    BY DEF Conns
  <2>2. seeded' = seeded
    BY <1>6 DEF Lands
  <2> QED
    BY <2>1, <2>2 DEF LedgerInv
<1> QED
  BY <1>1, <1>2, <1>3, <1>4, <1>5, <1>6 DEF Next, Reconfigure, counters, vars

(* The two ledgers of AddSpend (quota.go:97-112) agree: what an embed      *)
(* recorded today is what its sessions have used, plus the charges that    *)
(* are halfway, in whatever order the handlers write them.                 *)
THEOREM Ledgers == Spec => []LedgersAgree
<1>1. LedgerInv => LedgersAgree
  BY DEF LedgerInv, LedgersAgree, Ledger, Used, Halves, Sessions, Serving
<1>2. ChatInv /\ ChatInv' /\ LedgerInv /\ [Next]_vars => LedgerInv'
  BY LedgerNext
<1> QED
  BY <1>1, <1>2, InitInv, NextInv, LedgerInit, PTL DEF Spec
=============================================================================
