---------------------------- MODULE KubeResolver ----------------------------
(***************************************************************************)
(* KubeSecretResolver (src/broker/internal/broker/kube.go): the gateway    *)
(* token of an agent is read from a Secret of its namespace and cached.    *)
(* Nobody holds the mutex while the Secret is read, so handlers that miss  *)
(* together read together and store in any order.                          *)
(*                                                                         *)
(* A token is the namespace it was read from and the number of the         *)
(* rotation that made it.                                                  *)
(***************************************************************************)
EXTENDS Integers, Sequences

CONSTANTS
  Agents,      \* what parseAgentRef makes of agent_refs: [ns, name] records
  Handlers,    \* chat handlers that resolve
  TTL,         \* KubeSecretResolver.TTL
  FetchMax,    \* the Timeout of kubeClient.http
  MaxClock, MaxRotations   \* bounds of the model

ASSUME KubeAssumption ==
  /\ Agents \subseteq [ns : STRING, name : STRING]
  /\ TTL \in Nat \ {0} /\ FetchMax \in Nat

VARIABLES
  clock,
  replaced,  \* replaced[ns][n]: when the n-th token of the Secret was replaced
  cache,     \* cache[k]: the entry, or NoEntry
  pc,        \* pc[h]: "idle", "fetch" (asking), "reply" (answered)
  req,       \* req[h]: the agent, when the request was sent, the token read
  served     \* the last answer of Resolve, if any, and when it was given

vars == <<clock, replaced, cache, pc, req, served>>

Namespaces == {a.ns : a \in Agents}

(* mutant: agents of one name share an entry *)
NameKey(a) == [ns |-> "", name |-> a.name]

(* namespace + "/" + name; a namespace has no "/" *)
CacheKey(a) == a

Keys == {CacheKey(a) : a \in Agents}

Token == [ns : Namespaces, n : Nat]
NoEntry == [token |-> [ns |-> "", n |-> 0], exp |-> 0]

Init ==
  /\ clock = 0
  /\ replaced = [ns \in Namespaces |-> <<>>]
  /\ cache = [k \in Keys |-> NoEntry]
  /\ pc = [h \in Handlers |-> "idle"]
  /\ req = [h \in Handlers |-> <<>>]
  /\ served = {}

(* The token in the Secret now *)
Current(ns) == [ns |-> ns, n |-> Len(replaced[ns]) + 1]

Serve(a, token) == served' = {[agent |-> a, token |-> token, at |-> clock]}

(* mutant: an entry that is used lives on *)
RenewingHit(h, a) ==
  LET c == cache[CacheKey(a)] IN
  /\ pc[h] = "idle"
  /\ clock < c.exp
  /\ Serve(a, c.token)
  /\ cache' = [cache EXCEPT ![CacheKey(a)].exp = clock + TTL]
  /\ UNCHANGED <<clock, replaced, pc, req>>

Hit(h, a) ==
  LET c == cache[CacheKey(a)] IN
  /\ pc[h] = "idle"
  /\ clock < c.exp
  /\ Serve(a, c.token)
  /\ UNCHANGED <<clock, replaced, cache, pc, req>>

Miss(h, a) ==
  /\ pc[h] = "idle"
  /\ ~ (clock < cache[CacheKey(a)].exp)
  /\ pc' = [pc EXCEPT ![h] = "fetch"]
  /\ req' = [req EXCEPT ![h] = [agent |-> a, sent |-> clock, token |-> NoEntry.token]]
  /\ UNCHANGED <<clock, replaced, cache, served>>

(* The API server reads the Secret of the namespace. *)
Read(h) ==
  /\ pc[h] = "fetch"
  /\ pc' = [pc EXCEPT ![h] = "reply"]
  /\ req' = [req EXCEPT ![h].token = Current(req[h].agent.ns)]
  /\ UNCHANGED <<clock, replaced, cache, served>>

Store(h) ==
  /\ pc[h] = "reply"
  /\ cache' = [cache EXCEPT ![CacheKey(req[h].agent)] =
                 [token |-> req[h].token, exp |-> clock + TTL]]
  /\ Serve(req[h].agent, req[h].token)
  /\ pc' = [pc EXCEPT ![h] = "idle"]
  /\ req' = [req EXCEPT ![h] = <<>>]
  /\ UNCHANGED <<clock, replaced>>

(* mutant: a key that is not in the Secret is cached like one that is *)
CachingFail(h) ==
  /\ pc[h] # "idle"
  /\ cache' = [cache EXCEPT ![CacheKey(req[h].agent)] =
                 [token |-> req[h].token, exp |-> clock + TTL]]
  /\ pc' = [pc EXCEPT ![h] = "idle"]
  /\ req' = [req EXCEPT ![h] = <<>>]
  /\ UNCHANGED <<clock, replaced, served>>

(* The request fails, times out or is cancelled, or the key is not there:  *)
(* nothing is cached.                                                      *)
Fail(h) ==
  /\ pc[h] # "idle"
  /\ pc' = [pc EXCEPT ![h] = "idle"]
  /\ req' = [req EXCEPT ![h] = <<>>]
  /\ UNCHANGED <<clock, replaced, cache, served>>

(* A request is over FetchMax after it was sent. *)
Tick ==
  /\ clock < MaxClock
  /\ \A h \in Handlers : pc[h] # "idle" => clock < req[h].sent + FetchMax
  /\ clock' = clock + 1
  /\ UNCHANGED <<replaced, cache, pc, req, served>>

(* The operator replaces the token. *)
Rotate(ns) ==
  /\ Len(replaced[ns]) < MaxRotations
  /\ replaced' = [replaced EXCEPT ![ns] = Append(@, clock)]
  /\ UNCHANGED <<clock, cache, pc, req, served>>

Next ==
  \/ \E h \in Handlers :
       \/ \E a \in Agents : Hit(h, a) \/ Miss(h, a)
       \/ Read(h) \/ Store(h) \/ Fail(h)
  \/ Tick
  \/ \E ns \in Namespaces : Rotate(ns)

Spec == Init /\ [][Next]_vars

-----------------------------------------------------------------------------

Entry == [token : Token, exp : Nat]
Request == [agent : Agents, sent : Nat, token : Token \cup {NoEntry.token}]

(* The variables have their types: what is cached was read from a Secret.  *)
KubeTypeOK ==
  /\ clock \in Nat
  /\ replaced \in [Namespaces -> Seq(Nat)]
  /\ cache \in [Keys -> Entry \cup {NoEntry}]
  /\ pc \in [Handlers -> {"idle", "fetch", "reply"}]
  /\ \A h \in Handlers : pc[h] # "idle" => req[h] \in Request
  /\ served \subseteq [agent : Agents, token : Token, at : Nat]

(* A token is stale for age a if it was replaced at least a ago. *)
StaleFor(token, at, age) ==
  /\ token.n \in DOMAIN replaced[token.ns]
  /\ replaced[token.ns][token.n] + age <= at

(* A rotated token is used for less than the time to live and the time a   *)
(* read may take, although a read that is late may store an older token    *)
(* over a newer one and gives it a whole time to live again.               *)
StalenessBounded == \A s \in served : ~ StaleFor(s.token, s.at, TTL + FetchMax)

(* An agent is called with a token of its own namespace, whoever else      *)
(* shares its name or resolves at the same time.                           *)
OwnToken == \A s \in served : s.token.ns = s.agent.ns
=============================================================================
