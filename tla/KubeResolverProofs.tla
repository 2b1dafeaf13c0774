------------------------- MODULE KubeResolverProofs --------------------------
(***************************************************************************)
(* How stale a gateway token can be, for any agents, handlers, time to     *)
(* live and request timeout.  The invariant says of every token on its way *)
(* how old it may be: one that was read is no older than its request, and  *)
(* one in the cache than the latest request that can have stored it.       *)
(***************************************************************************)
EXTENDS KubeResolver, TLAPS

(* A token read at or after t: replaced at t or later, if at all. *)
CurrentSince(token, t) ==
  token.n \in DOMAIN replaced[token.ns] => t <= replaced[token.ns][token.n]

Past == \A ns \in Namespaces : \A n \in DOMAIN replaced[ns] : replaced[ns][n] <= clock

(* n is 0 for no token, and at most the current one otherwise *)
Made(token) == token \in Token /\ token.n >= 1 /\ token.n <= Len(replaced[token.ns]) + 1

RequestOK(h) ==
  /\ req[h] \in Request /\ req[h].sent <= clock /\ clock <= req[h].sent + FetchMax
  /\ pc[h] = "reply" =>
       /\ Made(req[h].token) /\ req[h].token.ns = req[h].agent.ns
       /\ CurrentSince(req[h].token, req[h].sent)

EntryOK(a) ==
  LET c == cache[a] IN
  \/ c = NoEntry
  \/ /\ c \in Entry /\ Made(c.token) /\ c.token.ns = a.ns
     /\ c.exp <= clock + TTL
     /\ CurrentSince(c.token, c.exp - (TTL + FetchMax))

ServedOK(s) ==
  /\ s \in [agent : Agents, token : Token, at : Nat]
  /\ Made(s.token) /\ s.token.ns = s.agent.ns /\ s.at <= clock
  /\ CurrentSince(s.token, s.at - (TTL + FetchMax) + 1)

KubeInv ==
  /\ clock \in Nat
  /\ replaced \in [Namespaces -> Seq(Nat)]
  /\ Past
  /\ cache \in [Keys -> Entry \cup {NoEntry}]
  /\ pc \in [Handlers -> {"idle", "fetch", "reply"}]
  /\ DOMAIN req = Handlers
  /\ \A h \in Handlers : pc[h] # "idle" => RequestOK(h)
  /\ \A a \in Agents : EntryOK(a)
  /\ \A s \in served : ServedOK(s)

LEMMA KeysAreAgents == Keys = Agents
  BY DEF Keys, CacheKey

LEMMA NamespaceOf == \A a \in Agents : a.ns \in Namespaces
  BY DEF Namespaces

LEMMA KubeInvImplies == KubeInv => KubeTypeOK /\ StalenessBounded /\ OwnToken
<1> SUFFICES ASSUME KubeInv PROVE KubeTypeOK /\ StalenessBounded /\ OwnToken
  OBVIOUS
<1>1. KubeTypeOK
  BY DEF KubeInv, KubeTypeOK, RequestOK, ServedOK
<1>2. ASSUME NEW s \in served PROVE ~ StaleFor(s.token, s.at, TTL + FetchMax)
  <2>1. s \in [agent : Agents, token : Token, at : Nat] /\ Made(s.token)
        /\ CurrentSince(s.token, s.at - (TTL + FetchMax) + 1)
    BY DEF KubeInv, ServedOK
  <2>2. CASE s.token.n \in DOMAIN replaced[s.token.ns]
    <3> DEFINE x == replaced[s.token.ns][s.token.n]
    <3>1. s.at - (TTL + FetchMax) + 1 <= x
      BY <2>1, <2>2 DEF CurrentSince
    <3>2. x \in Nat /\ s.at \in Nat
      BY <2>1, <2>2 DEF KubeInv, Token
    <3>. HIDE DEF x
    <3>3. ~ (x + (TTL + FetchMax) <= s.at)
      BY <3>1, <3>2, KubeAssumption
    <3>. QED
      BY <3>3 DEF StaleFor, x
  <2>3. CASE s.token.n \notin DOMAIN replaced[s.token.ns]
    BY <2>3 DEF StaleFor
  <2>. QED
    BY <2>2, <2>3
<1>3. OwnToken
  BY DEF KubeInv, ServedOK, OwnToken
<1>. QED
  BY <1>1, <1>2, <1>3 DEF StalenessBounded

LEMMA InitKube == Init => KubeInv
<1> SUFFICES ASSUME Init PROVE KubeInv
  OBVIOUS
<1>1. cache \in [Keys -> Entry \cup {NoEntry}] /\ \A a \in Agents : EntryOK(a)
  BY KeysAreAgents DEF Init, EntryOK
<1>2. replaced \in [Namespaces -> Seq(Nat)] /\ Past
  <2>1. <<>> \in Seq(Nat) /\ DOMAIN <<>> = {}
    OBVIOUS
  <2>. QED
    BY <2>1 DEF Init, Past
<1>. QED
  BY <1>1, <1>2 DEF Init, KubeInv

(* Tokens stay what they are when only the clock or nothing of theirs      *)
(* moves.                                                                  *)
LEMMA Untouched ==
  ASSUME KubeInv, clock' \in Nat, clock <= clock', UNCHANGED <<replaced, cache>>
  PROVE  /\ replaced' \in [Namespaces -> Seq(Nat)] /\ Past'
         /\ cache' \in [Keys -> Entry \cup {NoEntry}]
         /\ \A a \in Agents : EntryOK(a)'
         /\ \A s \in served : ServedOK(s)'
<1>1. Past'
  <2> SUFFICES ASSUME NEW ns \in Namespaces, NEW n \in DOMAIN replaced[ns]
               PROVE  replaced[ns][n] <= clock'
    BY DEF Past
  <2>1. replaced[ns][n] <= clock /\ replaced[ns][n] \in Nat /\ clock \in Nat
    BY DEF KubeInv, Past
  <2>. QED
    BY <2>1
<1>2. ASSUME NEW a \in Agents PROVE EntryOK(a)'
  <2>1. EntryOK(a) /\ clock \in Nat /\ cache'[a] = cache[a]
    BY DEF KubeInv
  <2>2. CASE cache[a] = NoEntry
    BY <2>1, <2>2 DEF EntryOK
  <2>3. CASE cache[a] # NoEntry
    <3>1. /\ cache[a] \in Entry /\ Made(cache[a].token) /\ cache[a].token.ns = a.ns
          /\ cache[a].exp <= clock + TTL
          /\ CurrentSince(cache[a].token, cache[a].exp - (TTL + FetchMax))
      BY <2>1, <2>3 DEF EntryOK
    <3>2. cache[a].exp <= clock' + TTL
      <4>1. cache[a].exp \in Nat
        BY <3>1 DEF Entry
      <4>. QED
        BY <2>1, <3>1, <4>1, KubeAssumption
    <3>3. Made(cache[a].token)' /\ CurrentSince(cache[a].token, cache[a].exp - (TTL + FetchMax))'
      BY <3>1 DEF Made, CurrentSince
    <3>. QED
      BY <2>1, <3>1, <3>2, <3>3 DEF EntryOK
  <2>. QED
    BY <2>2, <2>3
<1>3. ASSUME NEW s \in served PROVE ServedOK(s)'
  <2>1. ServedOK(s) /\ clock \in Nat
    BY DEF KubeInv
  <2>2. s.at \in Nat
    BY <2>1 DEF ServedOK
  <2>3. s.at <= clock'
    BY <2>1, <2>2 DEF ServedOK
  <2>. QED
    BY <2>1, <2>3 DEF ServedOK, Made, CurrentSince
<1>. QED
  BY <1>1, <1>2, <1>3 DEF KubeInv

(* Nor does a request change, when time has not run out for it. *)
LEMMA RequestKept ==
  ASSUME KubeInv, NEW h \in Handlers, pc[h] # "idle",
         clock' \in Nat, clock <= clock', clock' <= req[h].sent + FetchMax,
         pc'[h] = pc[h], req'[h] = req[h], UNCHANGED replaced
  PROVE  RequestOK(h)'
<1>1. RequestOK(h) /\ clock \in Nat
  BY DEF KubeInv
<1>2. req[h].sent \in Nat
  BY <1>1 DEF RequestOK, Request
<1>3. req[h].sent <= clock'
  BY <1>1, <1>2 DEF RequestOK
<1>. QED
  BY <1>1, <1>3 DEF RequestOK, Made, CurrentSince

LEMMA CurrentIsCurrent ==
  ASSUME KubeInv, NEW ns \in Namespaces
  PROVE  /\ Made(Current(ns)) /\ Current(ns).ns = ns
         /\ \A t \in Int : CurrentSince(Current(ns), t)
<1>1. replaced[ns] \in Seq(Nat)
  BY DEF KubeInv
<1>2. Len(replaced[ns]) \in Nat /\ DOMAIN replaced[ns] = 1..Len(replaced[ns])
  BY <1>1
<1> DEFINE n == Len(replaced[ns]) + 1
<1>3. Current(ns) = [ns |-> ns, n |-> n]
  BY DEF Current
<1>4. n \in Nat /\ n >= 1 /\ n \notin DOMAIN replaced[ns]
  BY <1>2
<1>. HIDE DEF n
<1>. QED
  BY <1>2, <1>3, <1>4 DEF Made, Token, CurrentSince, n

(* The request a handler has just made or had answered *)
LEMMA RequestSet ==
  ASSUME KubeInv, NEW h \in Handlers, NEW q \in Request, NEW step \in {"fetch", "reply"},
         pc' = [pc EXCEPT ![h] = step], req' = [req EXCEPT ![h] = q],
         UNCHANGED <<clock, replaced, cache, served>>,
         q.sent <= clock, clock <= q.sent + FetchMax,
         step = "reply" => /\ Made(q.token) /\ q.token.ns = q.agent.ns
                           /\ CurrentSince(q.token, q.sent)
  PROVE  KubeInv'
<1>1. pc' \in [Handlers -> {"idle", "fetch", "reply"}] /\ DOMAIN req' = Handlers
      /\ pc'[h] = step /\ req'[h] = q
  BY DEF KubeInv
<1>2. ASSUME NEW g \in Handlers, pc'[g] # "idle" PROVE RequestOK(g)'
  <2>1. CASE g = h
    BY <1>1, <2>1 DEF RequestOK, Made, CurrentSince
  <2>2. CASE g # h
    <3>1. pc'[g] = pc[g] /\ req'[g] = req[g]
      BY <2>2 DEF KubeInv
    <3>2. RequestOK(g)
      BY <1>2, <3>1 DEF KubeInv
    <3>. QED
      BY <3>1, <3>2 DEF RequestOK, Made, CurrentSince
  <2>. QED
    BY <2>1, <2>2
<1>3. clock \in Nat /\ clock' \in Nat /\ clock <= clock'
  BY DEF KubeInv
<1>4. \A s \in served' : ServedOK(s)'
  BY <1>3, Untouched
<1>. QED
  BY <1>1, <1>2, <1>3, <1>4, Untouched DEF KubeInv

(* An answer of Resolve: the token is in order, and of its age.            *)
LEMMA ServedSet ==
  ASSUME KubeInv, NEW s \in [agent : Agents, token : Token, at : Nat],
         UNCHANGED <<clock, replaced>>,
         s.at = clock, Made(s.token), s.token.ns = s.agent.ns,
         NEW t \in Int, CurrentSince(s.token, t), (clock - (TTL + FetchMax)) + 1 <= t
  PROVE  ServedOK(s)'
<1>1. clock \in Nat /\ s.at <= clock' /\ TTL \in Nat /\ FetchMax \in Nat
  BY KubeAssumption DEF KubeInv
<1>2. CurrentSince(s.token, s.at - (TTL + FetchMax) + 1)
  <2> SUFFICES ASSUME s.token.n \in DOMAIN replaced[s.token.ns]
               PROVE  s.at - (TTL + FetchMax) + 1 <= replaced[s.token.ns][s.token.n]
    BY DEF CurrentSince
  <2> DEFINE x == replaced[s.token.ns][s.token.n]
  <2>1. t <= x /\ x \in Nat
    BY DEF CurrentSince, KubeInv, Token
  <2>. HIDE DEF x
  <2>2. (clock - (TTL + FetchMax)) + 1 <= x
    BY <1>1, <2>1
  <2>. QED
    BY <2>2 DEF x
<1>. QED
  BY <1>1, <1>2 DEF ServedOK, Made, CurrentSince

LEMMA NextKube == ASSUME KubeInv, [Next]_vars PROVE KubeInv'
<1>0. clock \in Nat /\ TTL \in Nat \ {0} /\ FetchMax \in Nat
  BY KubeAssumption DEF KubeInv
<1>1. ASSUME NEW h \in Handlers, NEW a \in Agents, Hit(h, a) PROVE KubeInv'
  <2>1. PICK c : c = cache[a]
    OBVIOUS
  <2>2. PICK s : s = [agent |-> a, token |-> c.token, at |-> clock]
    OBVIOUS
  <2>3. /\ clock < c.exp /\ served' = {s} /\ UNCHANGED <<clock, replaced, cache, pc, req>>
    BY <1>1, <2>1, <2>2 DEF Hit, Serve, CacheKey
  <2>4. c # NoEntry
    <3>1. NoEntry.exp = 0
      BY DEF NoEntry
    <3>. QED
      BY <1>0, <2>3, <3>1
  <2>5. /\ c \in Entry /\ Made(c.token) /\ c.token.ns = a.ns
        /\ CurrentSince(c.token, c.exp - (TTL + FetchMax))
    BY <2>1, <2>4 DEF KubeInv, EntryOK
  <2>6. c.exp \in Nat /\ c.token \in Token
    BY <2>5 DEF Entry
  <2>7. PICK t \in Int : t = c.exp - (TTL + FetchMax)
    BY <1>0, <2>6
  <2>8. (clock - (TTL + FetchMax)) + 1 <= t
    BY <1>0, <2>3, <2>6, <2>7
  <2>9. ServedOK(s)'
    <3>1. /\ s \in [agent : Agents, token : Token, at : Nat]
          /\ s.at = clock /\ s.token = c.token /\ s.agent = a
      BY <1>0, <2>2, <2>6
    <3>. QED
      BY <2>3, <2>5, <2>7, <2>8, <3>1, ServedSet
  <2>10. ASSUME NEW g \in Handlers, pc'[g] # "idle" PROVE RequestOK(g)'
    BY <2>3, <2>10 DEF KubeInv, RequestOK, Made, CurrentSince
  <2>. QED
    BY <1>0, <2>3, <2>9, <2>10, Untouched DEF KubeInv
<1>2. ASSUME NEW h \in Handlers, NEW a \in Agents, Miss(h, a) PROVE KubeInv'
  <2>1. PICK q : q = [agent |-> a, sent |-> clock, token |-> NoEntry.token]
    OBVIOUS
  <2>2. /\ pc' = [pc EXCEPT ![h] = "fetch"] /\ req' = [req EXCEPT ![h] = q]
        /\ UNCHANGED <<clock, replaced, cache, served>>
    BY <1>2, <2>1 DEF Miss
  <2>3. q \in Request /\ q.sent = clock
    BY <1>0, <2>1 DEF Request
  <2>4. q.sent <= clock /\ clock <= q.sent + FetchMax
    BY <1>0, <2>3
  <2>. QED
    BY <2>2, <2>3, <2>4, RequestSet
<1>3. ASSUME NEW h \in Handlers, Read(h) PROVE KubeInv'
  <2>1. PICK t : t = Current(req[h].agent.ns)
    OBVIOUS
  <2>2. PICK q : q = [req[h] EXCEPT !.token = t]
    OBVIOUS
  <2>3. /\ pc[h] = "fetch" /\ pc' = [pc EXCEPT ![h] = "reply"] /\ req' = [req EXCEPT ![h] = q]
        /\ UNCHANGED <<clock, replaced, cache, served>>
    BY <1>3, <2>1, <2>2 DEF Read
  <2>4. RequestOK(h)
    BY <2>3 DEF KubeInv
  <2>5. req[h] \in Request /\ req[h].agent.ns \in Namespaces /\ req[h].sent \in Int
    BY <2>4, NamespaceOf DEF RequestOK, Request
  <2>6. Made(t) /\ t.ns = req[h].agent.ns /\ CurrentSince(t, req[h].sent)
    BY <2>1, <2>5, CurrentIsCurrent
  <2>7. /\ q \in Request /\ q.sent = req[h].sent /\ q.agent = req[h].agent /\ q.token = t
    BY <2>2, <2>5, <2>6 DEF Request, Made
  <2>8. q.sent <= clock /\ clock <= q.sent + FetchMax
    BY <2>4, <2>7 DEF RequestOK
  <2>. QED
    BY <2>3, <2>6, <2>7, <2>8, RequestSet
<1>4. ASSUME NEW h \in Handlers, Store(h) PROVE KubeInv'
  <2>1. PICK q : q = req[h]
    OBVIOUS
  <2>2. PICK c : c = [token |-> q.token, exp |-> clock + TTL]
    OBVIOUS
  <2>3. PICK s : s = [agent |-> q.agent, token |-> q.token, at |-> clock]
    OBVIOUS
  <2>4. /\ pc[h] = "reply" /\ cache' = [cache EXCEPT ![q.agent] = c] /\ served' = {s}
        /\ pc' = [pc EXCEPT ![h] = "idle"] /\ req' = [req EXCEPT ![h] = <<>>]
        /\ UNCHANGED <<clock, replaced>>
    BY <1>4, <2>1, <2>2, <2>3 DEF Store, Serve, CacheKey
  <2>5. /\ q \in Request /\ q.sent <= clock /\ clock <= q.sent + FetchMax
        /\ Made(q.token) /\ q.token.ns = q.agent.ns /\ CurrentSince(q.token, q.sent)
    BY <2>1, <2>4 DEF KubeInv, RequestOK
  <2>6. q.sent \in Nat /\ q.agent \in Agents /\ q.token \in Token
    BY <2>5 DEF Request, Made
  <2>7. c \in Entry /\ c.exp = clock + TTL /\ c.token = q.token
    BY <1>0, <2>2, <2>6 DEF Entry
  <2>8. ServedOK(s)'
    <3>1. /\ s \in [agent : Agents, token : Token, at : Nat]
          /\ s.at = clock /\ s.token = q.token /\ s.agent = q.agent
      BY <1>0, <2>3, <2>6
    <3>2. (clock - (TTL + FetchMax)) + 1 <= q.sent /\ q.sent \in Int
      BY <1>0, <2>5, <2>6
    <3>. QED
      BY <2>4, <2>5, <3>1, <3>2, ServedSet
  <2>9. cache' \in [Keys -> Entry \cup {NoEntry}]
    BY <2>4, <2>7 DEF KubeInv
  <2>10. ASSUME NEW a \in Agents PROVE EntryOK(a)'
    <3>1. CASE a = q.agent
      <4>1. cache'[a] = c
        BY <2>4, <2>6, <3>1, KeysAreAgents DEF KubeInv
      <4>2. CurrentSince(c.token, c.exp - (TTL + FetchMax))
        <5> SUFFICES ASSUME c.token.n \in DOMAIN replaced[c.token.ns]
                     PROVE  c.exp - (TTL + FetchMax) <= replaced[c.token.ns][c.token.n]
          BY DEF CurrentSince
        <5> DEFINE x == replaced[c.token.ns][c.token.n]
        <5>1. q.sent <= x /\ x \in Nat
          BY <2>5, <2>6, <2>7 DEF CurrentSince, KubeInv, Token
        <5>. HIDE DEF x
        <5>2. (clock + TTL) - (TTL + FetchMax) <= x
          BY <1>0, <2>5, <2>6, <5>1
        <5>. QED
          BY <2>7, <5>2 DEF x
      <4>3. c.exp <= clock' + TTL
        BY <1>0, <2>4, <2>7
      <4>. QED
        BY <2>4, <2>5, <2>7, <3>1, <4>1, <4>2, <4>3 DEF EntryOK, Made, CurrentSince
    <3>2. CASE a # q.agent
      <4>1. cache'[a] = cache[a] /\ EntryOK(a)
        BY <2>4, <3>2, KeysAreAgents DEF KubeInv
      <4>. QED
        BY <2>4, <4>1 DEF EntryOK, Made, CurrentSince
    <3>. QED
      BY <3>1, <3>2
  <2>11. ASSUME NEW g \in Handlers, pc'[g] # "idle" PROVE RequestOK(g)'
    <3>1. g # h /\ pc'[g] = pc[g] /\ req'[g] = req[g]
      BY <2>4, <2>11 DEF KubeInv
    <3>2. RequestOK(g)
      BY <2>11, <3>1 DEF KubeInv
    <3>. QED
      BY <2>4, <3>1, <3>2 DEF RequestOK, Made, CurrentSince
  <2>12. pc' \in [Handlers -> {"idle", "fetch", "reply"}] /\ DOMAIN req' = Handlers
    BY <2>4 DEF KubeInv
  <2>13. Past'
    BY <2>4 DEF KubeInv, Past
  <2>. QED
    BY <1>0, <2>4, <2>8, <2>9, <2>10, <2>11, <2>12, <2>13 DEF KubeInv
<1>5. ASSUME NEW h \in Handlers, Fail(h) PROVE KubeInv'
  <2>1. /\ pc' = [pc EXCEPT ![h] = "idle"] /\ req' = [req EXCEPT ![h] = <<>>]
        /\ UNCHANGED <<clock, replaced, cache, served>>
    BY <1>5 DEF Fail
  <2>2. ASSUME NEW g \in Handlers, pc'[g] # "idle" PROVE RequestOK(g)'
    <3>1. g # h /\ pc'[g] = pc[g] /\ req'[g] = req[g]
      BY <2>1, <2>2 DEF KubeInv
    <3>2. RequestOK(g)
      BY <2>2, <3>1 DEF KubeInv
    <3>. QED
      BY <2>1, <3>1, <3>2 DEF RequestOK, Made, CurrentSince
  <2>3. pc' \in [Handlers -> {"idle", "fetch", "reply"}] /\ DOMAIN req' = Handlers
    BY <2>1 DEF KubeInv
  <2>. QED
    BY <1>0, <2>1, <2>2, <2>3, Untouched DEF KubeInv
<1>6. ASSUME Tick PROVE KubeInv'
  <2>1. /\ \A h \in Handlers : pc[h] # "idle" => clock < req[h].sent + FetchMax
        /\ clock' = clock + 1 /\ UNCHANGED <<replaced, cache, pc, req, served>>
    BY <1>6 DEF Tick
  <2>2. clock' \in Nat /\ clock <= clock'
    BY <1>0, <2>1
  <2>3. ASSUME NEW h \in Handlers, pc'[h] # "idle" PROVE RequestOK(h)'
    <3>1. pc[h] # "idle" /\ clock < req[h].sent + FetchMax
      BY <2>1, <2>3
    <3>2. req[h].sent \in Nat
      BY <3>1 DEF KubeInv, RequestOK, Request
    <3>3. clock' <= req[h].sent + FetchMax
      BY <1>0, <2>1, <3>1, <3>2
    <3>. QED
      BY <2>1, <2>2, <3>1, <3>3, RequestKept
  <2>. QED
    BY <2>1, <2>2, <2>3, Untouched DEF KubeInv
<1>7. ASSUME NEW ns \in Namespaces, Rotate(ns) PROVE KubeInv'
  <2>1. /\ replaced' = [replaced EXCEPT ![ns] = Append(@, clock)]
        /\ UNCHANGED <<clock, cache, pc, req, served>>
    BY <1>7 DEF Rotate
  <2>2. ASSUME NEW m \in Namespaces
        PROVE  /\ replaced[m] \in Seq(Nat) /\ replaced'[m] \in Seq(Nat)
               /\ Len(replaced[m]) <= Len(replaced'[m])
               /\ \A n \in DOMAIN replaced'[m] :
                    replaced'[m][n] = clock \/ (n \in DOMAIN replaced[m] /\ replaced'[m][n] = replaced[m][n])
    <3>1. PICK s \in Seq(Nat) : s = replaced[m]
      BY DEF KubeInv
    <3>2. replaced'[m] = s \/ replaced'[m] = Append(s, clock)
      BY <2>1, <3>1 DEF KubeInv
    <3>3. /\ Append(s, clock) \in Seq(Nat) /\ Len(s) <= Len(Append(s, clock))
          /\ \A n \in DOMAIN Append(s, clock) :
               Append(s, clock)[n] = clock \/ (n \in DOMAIN s /\ Append(s, clock)[n] = s[n])
      <4>1. /\ Append(s, clock) \in Seq(Nat) /\ Len(Append(s, clock)) = Len(s) + 1 /\ Len(s) \in Nat
            /\ DOMAIN s = 1..Len(s) /\ DOMAIN Append(s, clock) = 1..(Len(s) + 1)
        BY <1>0, <3>1
      <4>2. \A n \in 1..(Len(s) + 1) :
              Append(s, clock)[n] = clock \/ (n \in 1..Len(s) /\ Append(s, clock)[n] = s[n])
        BY <1>0, <3>1
      <4>3. Len(s) <= Len(Append(s, clock))
        BY <4>1
      <4>. QED
        BY <4>1, <4>2, <4>3, Zenon
    <3>4. CASE replaced'[m] = s
      BY <3>1, <3>4
    <3>5. CASE replaced'[m] = Append(s, clock)
      BY <3>1, <3>3, <3>5, Zenon
    <3>. QED
      BY <3>2, <3>4, <3>5
  <2>3. ASSUME NEW token \in Token, NEW t \in Int, Made(token), CurrentSince(token, t), t <= clock
        PROVE  Made(token)' /\ CurrentSince(token, t)'
    <3>1. token.ns \in Namespaces /\ token.n \in Nat
      BY DEF Token
    <3>2. Made(token)'
      <4>1. Len(replaced[token.ns]) \in Nat /\ Len(replaced'[token.ns]) \in Nat
            /\ Len(replaced[token.ns]) <= Len(replaced'[token.ns])
        BY <2>2, <3>1
      <4>. QED
        BY <2>3, <3>1, <4>1 DEF Made
    <3>3. CurrentSince(token, t)'
      BY <2>2, <2>3, <3>1 DEF CurrentSince
    <3>. QED
      BY <3>2, <3>3
  <2>4. ASSUME NEW h \in Handlers, pc'[h] # "idle" PROVE RequestOK(h)'
    <3>1. RequestOK(h) /\ pc'[h] = pc[h] /\ req'[h] = req[h] /\ clock' = clock
      BY <2>1, <2>4 DEF KubeInv
    <3>2. CASE pc[h] = "reply"
      <4>1. /\ req[h].token \in Token /\ req[h].sent \in Int /\ Made(req[h].token)
            /\ CurrentSince(req[h].token, req[h].sent) /\ req[h].sent <= clock
        BY <3>1, <3>2 DEF RequestOK, Request, Made
      <4>2. Made(req[h].token)' /\ CurrentSince(req[h].token, req[h].sent)'
        <5>1. PICK q : q = req[h]
          OBVIOUS
        <5>2. Made(q.token)' /\ CurrentSince(q.token, q.sent)'
          BY <2>3, <4>1, <5>1
        <5>. QED
          BY <3>1, <5>1, <5>2 DEF Made, CurrentSince
      <4>. QED
        BY <3>1, <3>2, <4>2 DEF RequestOK
    <3>3. CASE pc[h] # "reply"
      BY <3>1, <3>3 DEF RequestOK
    <3>. QED
      BY <3>2, <3>3
  <2>5. ASSUME NEW a \in Agents PROVE EntryOK(a)'
    <3>1. PICK c : c = cache[a]
      OBVIOUS
    <3>2. cache'[a] = c /\ clock' = clock /\ EntryOK(a)
      BY <2>1, <3>1 DEF KubeInv
    <3>3. CASE c = NoEntry
      BY <3>2, <3>3 DEF EntryOK
    <3>4. CASE c # NoEntry
      <4>1. /\ c \in Entry /\ Made(c.token) /\ c.token.ns = a.ns /\ c.exp <= clock + TTL
            /\ CurrentSince(c.token, c.exp - (TTL + FetchMax))
        BY <3>1, <3>2, <3>4 DEF EntryOK
      <4>2. c.exp \in Nat /\ c.token \in Token
        BY <4>1 DEF Entry
      <4>3. PICK t \in Int : t = c.exp - (TTL + FetchMax)
        BY <1>0, <4>2
      <4>4. t <= clock
        BY <1>0, <4>1, <4>2, <4>3
      <4>5. Made(c.token)' /\ CurrentSince(c.token, t)'
        BY <2>3, <4>1, <4>2, <4>3, <4>4
      <4>. QED
        BY <3>2, <4>1, <4>3, <4>5 DEF EntryOK
    <3>. QED
      BY <3>3, <3>4
  <2>6. ASSUME NEW s \in served' PROVE ServedOK(s)'
    <3>1. ServedOK(s) /\ clock' = clock
      BY <2>1 DEF KubeInv
    <3>2. s.token \in Token /\ s.at \in Nat /\ s.at <= clock
      BY <3>1 DEF ServedOK
    <3>3. PICK t \in Int : t = s.at - (TTL + FetchMax) + 1
      BY <1>0, <3>2
    <3>4. t <= clock
      BY <1>0, <3>2, <3>3
    <3>5. Made(s.token)' /\ CurrentSince(s.token, t)'
      BY <2>3, <3>1, <3>2, <3>3, <3>4 DEF ServedOK
    <3>. QED
      BY <3>1, <3>3, <3>5 DEF ServedOK
  <2>7. Past'
    <3> SUFFICES ASSUME NEW m \in Namespaces, NEW n \in DOMAIN replaced'[m]
                 PROVE  replaced'[m][n] <= clock
      BY <2>1 DEF Past
    <3>1. replaced'[m][n] = clock \/ (n \in DOMAIN replaced[m] /\ replaced'[m][n] = replaced[m][n])
      BY <2>2
    <3>2. n \in DOMAIN replaced[m] => replaced[m][n] <= clock
      BY DEF KubeInv, Past
    <3>. QED
      BY <1>0, <3>1, <3>2
  <2>8. replaced' \in [Namespaces -> Seq(Nat)]
    BY <1>0, <2>1 DEF KubeInv
  <2>. QED
    BY <1>0, <2>1, <2>4, <2>5, <2>6, <2>7, <2>8 DEF KubeInv
<1>8. CASE UNCHANGED vars
  <2>1. ASSUME NEW h \in Handlers, pc'[h] # "idle" PROVE RequestOK(h)'
    BY <1>8, <2>1 DEF vars, KubeInv, RequestOK, Made, CurrentSince
  <2>. QED
    BY <1>0, <1>8, <2>1, Untouched DEF vars, KubeInv
<1>. QED
  BY <1>1, <1>2, <1>3, <1>4, <1>5, <1>6, <1>7, <1>8 DEF Next

LEMMA KubeInvariant == Spec => []KubeInv
<1>1. KubeInv /\ [Next]_vars => KubeInv'
  BY NextKube
<1>. QED
  BY InitKube, <1>1, PTL DEF Spec

(* A rotated token is used for less than TTL + FetchMax, for any number of *)
(* agents and handlers, however their reads overlap (kube.go:180).         *)
THEOREM KubeStaleness == Spec => []StalenessBounded
<1>. QED
  BY KubeInvariant, KubeInvImplies, PTL

(* An agent is called with a token of its own namespace and no other.      *)
THEOREM KubeTokensAreOwn == Spec => []OwnToken
<1>. QED
  BY KubeInvariant, KubeInvImplies, PTL

(* Type correctness: what is cached or served was read from a Secret.      *)
THEOREM KubeTypes == Spec => []KubeTypeOK
<1>. QED
  BY KubeInvariant, KubeInvImplies, PTL
=============================================================================
