# clankstack-embed, in TLA+

A verification development for `clankstack-embed`: a chat widget that a web
page drops in (`src/embed`, TypeScript) and the broker it talks to
(`src/broker`, Go), which stands between anonymous visitors and an agent
gateway that charges for tokens. The broker's promise is a budget: an operator
gives an *embed* an allow-list of origins and limits (sessions per minute,
messages and tokens per session, tokens per day), and the broker is the only
thing that enforces them. Most of this development is about that.

Paths are relative to the repository; `chat.go` and the like are under
`src/broker/internal/broker/`, `client.ts` and the like under `src/embed/src/`,
and `agent.js` is the widget as the broker serves it to visitors, built with
the two libraries it stands on, Lit and marked (`internal/broker/web/agent.js`).

To check it: `tlc -config X.cfg M` for the runs of section 4, `tlapm M.tla` for
the modules whose names end in `Proofs`.

## 1. Inventory

| component | source | state it keeps | operations | modelled in |
|---|---|---|---|---|
| Chat handler | `chat.go` | per request: the embed as read, prompt and answer so far, what was charged | `handleChat`, its `emit` callback, `streamSSEError` | `Chat` |
| Quotas | `quota.go` | maps under one mutex: rate windows, messages and tokens left per session | `InitSession`, `ConsumeMessage`, `SpendAvailable`, `SessionTokensRemaining`, `AddSpend` | `Chat` |
| | | | `AllowSession` | `RateLimiter` |
| Daily spend | `spend.go` | tokens per embed and UTC day, in memory or in Postgres | `Add`, `Today`, the roll at midnight | `Chat` |
| Gateway client | `gateway.go` | none; one upstream request per chat | `StreamChat` | `Chat`: what a stream can do to its handler |
| Conversation history | `chat.go:24-54` | messages per (embed, visitor), at most 20 | `get`, `append` | `ChatHistory` |
| Embed store | `store.go`, `embeds.go`, `manage.go` | embeds by id, ids by publishable key | create, patch, delete, rotate, toggle, seed file | `EmbedStore` |
| Session exchange | `session.go`, `tokens.go` | none: a session is a signed token | `handleSession`, `originAllowed` | `EmbedStore` (look-up, allow-list), `RateLimiter` (rate) |
| Kubernetes resolver | `kube.go` | a cache of gateway tokens with a time to live | `Resolve` | `KubeResolver` |
| Admin page | `admin.go`, `admin_session.go` | none: a signed cookie | toggle, rotate, delete | `EmbedStore` |
| Browser SDK | `client.ts` | the token, the exchange in flight | `send`, `ensureSession`, `exchangeSession`, `reset` | `Client` |
| SSE parser | `sse.ts` | buffer, the event being put together | `push`, `flush`, the reader loop | `SSEParser` |
| One answer | `client.ts:206-231`, `types.ts` | events taken, deltas yielded, the promise of the text | the loop of `send`; the caller stops, the connection breaks | `AnswerStream` |
| Widget, its handlers | `clankstack-agent.ts` | bubbles, busy flag, the handle of the stream, the draft | `open`, `close`, `onInput`, `submit`, `sendMessage`, `ensureConfig`, `reset`, removal | `Element` |
| Widget, its page | `clankstack-agent.ts` | what is drawn | `bootstrap`, `firstUpdated`, `updated`, `render` and its parts | `Widget` |
| Lit, update cycle | `agent.js` | the pending flag, what changed | `requestUpdate`, `performUpdate`, connection, attributes | `ReactiveElement` |
| Lit, parts of a template | `agent.js` | the nodes behind each part | setting a value, `repeat`, `classMap`, `unsafeHTML` | `LitParts` |
| Markdown | `markdown.ts`, `agent.js` | while one answer is read: the queue of texts, the links defined, what a tag has left open | marked's lexer, parser and renderer, the sanitizer | `Lexer`, `Markdown` |
| Styles, templates, static files, charts, fake gateway | | none that changes | | not modelled (section 8) |

How they meet. The widget exchanges a publishable key for a session token
(`POST /v1/embed/session`), then posts each message with it
(`POST /v1/embed/chat`) and reads the answer as server-sent events. Each
request runs in a goroutine of its own. Goroutines share the quota maps, the
spend backend, the store, the history and the resolver's cache; each of these
has its own mutex and none is held across two calls, so a handler is a sequence
of atomic regions with others in between. The upstream calls back into the
handler (`emit`) for every delta. In the browser there is one thread, and
calls interleave at their awaits. The widget sets its properties in these
calls; Lit collects what was set and draws the element in a microtask, and the
callbacks of that update set properties again.

What is hard, and where it is looked at:

- *check, then charge*: `handleChat` checks the daily and the session budget
  once and charges prompt and deltas later, in two steps each (backend, then
  session map). `Chat`, `Meter`.
- *failure*: the spend upsert may fail, be applied and its answer lost, or be
  applied when its caller has long gone on; the visitor may vanish or stop reading; the upstream may hang, fail, or end
  without saying so; the process may restart. `Chat`, `ChatHistory`.
- *time*: midnight turns the spend under running requests (`Chat`); windows
  have boundaries (`RateLimiter`); cached credentials age (`KubeResolver`).
- *stale copies*: a handler works on the embed as it was before the body was
  read (`Chat`); a record is copied shallowly, so copies share an array
  (`EmbedStore`); a turn reads the conversation long before it adds to it
  (`ChatHistory`); an answer comes back to an SDK that has been reset since
  (`Client`).
- *cuts*: the network cuts a stream between any two characters, and the
  caller or the connection may stop it between any two events (`SSEParser`,
  `AnswerStream`).
- *a page behind its state*: what is drawn was computed from an earlier state,
  an event of the visitor comes from what is drawn, and nodes are reused for a
  list that has changed under them (`Widget`, `LitParts`).
- *someone else's text*: an answer is markup made by a model that may have read
  anything; it is rendered and then cleaned, at any depth (`Markdown`). Its
  texts wait in a queue while the blocks around them are still being read again,
  joined and ended (`Lexer`).

`PROJECT.json` lists the hazards one by one, each with its line and with the
properties that would catch it, or the reason that none does.

## 2. Modules

`X` holds the model and its properties, `XMC` the values TLC needs, `XProofs`
the theorems; those about `SSEParser` are in `ClientProofs`, and those about
`repeat` (`LitParts`) in `WidgetProofs`, beside those about their callers.

| module | stands for |
|---|---|
| `Meter` | *abstract*: what a token budget promises when it is checked once and charged later |
| `Chat` | *detailed*: `handleChat` over quotas and spend; instantiates `Meter` twice |
| `RateLimiter` | `AllowSession` |
| `EmbedStore` | `MemStore`, its callers, and the exchange that reads a record outside the mutex |
| `ChatHistory` | the remembered conversation |
| `KubeResolver` | the cache of gateway tokens |
| `Client` | one `ClankstackAgent` of the SDK |
| `SSEParser` | `sse.ts`: the variables and steps of the parser, and `Events`, what a stream says |
| `AnswerStream` | one answer through `send`: extends `SSEParser` by the loop above it |
| `Markdown` | from marked's tokens to clean HTML, as functions |
| `Lexer` | from the source of an answer to marked's tokens, as functions |
| `Element` | the state of the widget and its handlers, over what `Client` promises |
| `ReactiveElement` | Lit's update cycle |
| `LitParts` | Lit's parts: what an update does to the nodes that are there |
| `Widget` | the composition of the last three, with the page and its events |

Beside a definition there may be one or two whose comment says *mutant*: the
same definition with a plausible mistake in it. Putting it in the place of the
real one makes some property of a run fail; `PROJECT.json` says which.
This shows that the property depends on that code.

### Chat

One action is one locked region, one call of the spend backend, one read from
the upstream or one write to the visitor. `pc[r]` names the next one:

| step | code |
|---|---|
| `Start` | token verified, embed read and enabled, body read (chat.go:75-126) |
| `InitSession`, `ConsumeMessage`, `SpendAvailable`, `SessionTokensRemaining` | the gate (chat.go:128-144), one locked region of quota.go each |
| `ChargePrompt`, `ChargePromptSession` | `AddSpend` for the prompt (chat.go:149), its two halves: backend, then map |
| `Resolve` | the resolver, which may fail (chat.go:157) |
| `Delta`, `Write`, `ChargeDelta`, `ChargeDeltaSession` | one call of `emit` (chat.go:181-203) |
| `Deadline`, `UpstreamEnds`, `Finish` | the context's timeout, the four ways a stream ends, the last event |
| `Lands` | Postgres gets to an upsert whose five seconds were over (spend.go:93), or drops it |
| `Reconfigure`, `Midnight`, `Restart` | what happens around the handlers |

Text is its length; tokens are `estimateTokens` of it, with its rounding, since
`emit` charges the difference of two roundings. `Durable` chooses the backend:
`memSpend` never fails and is lost with the process; `pgSpend` survives, may
fail, and may fail after it was applied. It may also give up while the upsert is
still to be run: `lost[c]` is what connection `c` has under way then, which is
charged later or never, restarts or not. There are as many of these at most as
Postgres accepts connections (`Connections`). Budgets are integers, since
`manage.go` accepts negative ones.

`Meter` knows accounts, the requests that are past the check, those that
may still charge pieces, and the charges under way that nobody waits for. `DailyMeter` maps each embed, `SessionMeter` each
session token to an account; the mapping reads the phase of a request off its
`pc`. That the phases need this care is the content of the refinement: for the
daily budget a request stops counting as *streaming* when the backend has told
it that the day is used up, one step before it acts on it.

### RateLimiter, KubeResolver, ChatHistory

`AllowSession` holds the mutex throughout and is one action; the clock ticks
between calls, and the log of grants is history. `Restart` empties the windows,
and the log with them: what the limiter promises holds as long as the process
runs. `Resolve` is a hit, or a miss
followed by a read and a store with nobody holding the mutex; the log of
rotations is history. A turn of `ChatHistory` reads the conversation (`Begin`),
passes the gate, streams, adds two messages (`Persist`) and only then sends
its last event (`Reply`), in the order of chat.go:208 and after.

### EmbedStore

Slices are modelled as Go has them, an array on a heap and a length, because
`Update` copies a record and shares its array, and `json.Unmarshal` decodes a
PATCHed list element by element into the array of the copy: it reuses it when
it has room and grows it otherwise, leaves an element alone on `null`, goes on
after an element of the wrong type and fails at the end, and cuts the slice to
the decoded length; an empty list is a slice of its own (`MakeEmpty`). A string that is being written is `Torn`: the exchange
reads without the mutex, and what it reads then may compare either way.

### Client

One action from one await to the next; promise reactions run before the next
task (`Quiet`). The exchange in flight is a number; `since` records which reset
it came after. The broker may refuse any token at any time, and the network may
lose the request or its answer.

### SSEParser, AnswerStream

A stream is a sequence of line ends and pieces of lines, pushed in chunks of any
size. The reference definition (`Events`) reads the stream as a whole, without
a buffer: it finds lines and blank lines by position. `AnswerStream` takes the
parser's steps only when the events of the last chunk are taken (the generator
of `parseSSEStream` is pulled), and sorts events by what their data parses to: a
piece alone on its line is a payload of the broker, anything else is not JSON
or none of its events. What the caller must get (`Deltas`, `Rejects`) is read off
the whole stream again.

### Widget: Element, ReactiveElement, LitParts

`Element` has the handlers: turns of `sendMessage`, calls of `open` and `reset`
with their `ensureConfig`, the input, and the removal of the element,
interleaved at the awaits. What the SDK does below is reduced to: the config
comes or fails, deltas come, the stream ends or fails.

`Widget` runs every handler inside the update cycle. A handler that changes a
reactive property asks for an update (`Shown`); `Update` draws the page from the
state (`Rendered`), then runs `firstUpdated` and `updated`, which make the
client and so ask for one more update. Events of the visitor, calls of the host
page and chunks are tasks, and come when no update is pending; the rests behind
awaits are microtasks and come in any order with it. `screen` is the page: the
launcher, the title, the input as the visitor has it and as it was last set, and
a row of nodes for each bubble. What becomes of the rows at an update is the
algorithm of lit-html itself (`Repeat`, two lists walked from both ends, and
`SetValue`), so that a bubble shown in the wrong row would be seen.

### Markdown

A document is the list of tokens that marked's lexer makes of it; HTML is the
tree that the browser makes of the text. `Parse` and `ParseInline` are marked's
parser and renderer, `Raw` the override of `markdown.ts` for raw HTML, `Walk`
the sanitizer.

`Lexer` makes those tokens. A source is a list of lines, and the text of a line
a list of spans; of what kind a line or a span is, the source says (the code
decides it by a regular expression). What is left is what the lexer does with
them: `BlockTokens` reads line after line, into quotes and items and again where
a quote goes on without its mark (`QuoteOf`); a text is joined to the one before
it (`Merge`) or gets a place in the queue (`Inline`); and when all definitions
are known, `InlineQueue` reads the queue in its order, with `inLink` and
`inRawBlock` as the text before has left them. `ShowsTheSource` compares what
comes out of `Lex` and `RenderMarkdown` with the words of the source as a reader
of Markdown finds them, without a queue and without reading anything twice.

`Lexer` and `Markdown` are recursive over data, and declare RECURSIVE operators.

## 3. The plan it follows

1. `Meter` and `Chat`, refinement, first theorems. *Done.*
2. `RateLimiter`, `ChatHistory`, `EmbedStore`, `KubeResolver` with their
   theorems. *Done.*
3. `Client`, `SSEParser`, `Element`. *Done, with their theorems.*
   Then what is above and below them: `AnswerStream`, `Lexer`, `Markdown`, and the
   widget as the visitor has it (`Widget` over `Element`, `ReactiveElement`,
   `LitParts`). *Done; `Widget` and `LitParts` with their theorems, the others
   model-checked.*
4. The session token: `Mint` and `Verify` with their expiry, `handleSession`
   from rate to token as one sequence over `EmbedStore` and `RateLimiter`, the
   admin cookie beside it, so that a rotated key or a disabled embed can be
   followed through sessions minted before. *To do.*
5. `ExplicitResolver` and the choice of a gateway, the chunks of the upstream
   (`gateway.go`). *To do.*
6. The session budget's refinement proved as the daily one is, and that the
   two ledgers agree; proofs about `Client` and the handlers of the widget.
   That `repeat` keeps nodes for lists of any length, and with it that the page
   is the state (`ScreenIsCurrent`, `NodesKept`). *Done.*
7. SDK against broker: a `Client` whose exchanges and refusals are those of
   the token's expiry and of a broker that restarts. *To do.*

## 4. Runs

Runs that pass:

| run | bounds | what it shows |
|---|---|---|
| `chat_memory` | two handlers, two sessions of one embed, memory backend, a session held by its own budget and one only by the day's, one midnight | types and bookkeeping; messages are conserved; deltas are charged once; the two ledgers agree; both budgets are passed by less than the bound |
| `chat_postgres` | two handlers on one session, upserts that fail or land late over one connection, daily budget edited between -1 and 2 under them, restarts, one day | `Chat` implements `Meter` for both budgets; the day's spend never falls; every handler returns |
| `limiter` | one address, limits unset, one or two and changing, three windows, restarts | at most twice the limit in any minute; a refusal has a minute's grants behind it |
| `store` | two embeds, two keys, three arrays of at most two elements, patches that empty a list, grow, shrink, leave an element alone or fail, one exchange | the index; dead keys; no sharing between embeds; an accepted list is the stored list; an exchange decides by one list |
| `history` | two handlers of one visitor, four turns, cap 4 | the conversation is the last turns that finished; what was answered is sent with the next question |
| `kube` | two handlers, two agents of one name in two namespaces, both tokens rotated | how long an old token is used; whose token it is |
| `client` | three callers, six exchanges, one reset | a message reaches the agent once; a refusal is followed by one retry, with another session; one exchange at a time and no expiry without a refusal (both until a reset) |
| `sse` | every stream of at most five pieces and line ends over seven kinds of piece, cut in every way, the caller stopping and the connection breaking anywhere; about 5,000 small documents, with every token of marked side by side and nested; about 8,800 small sources: texts of two spans, lists of three lines of every kind, quotes and lists of them, one within the other | events in order, none early; the caller gets what the stream says up to its first `done` or `error`, and the promise agrees; a document is shown harmless and with all its words in place, and so is a source |
| `element` | a popup; a turn of the visitor and one of the host page, one `open`, one `reset`, one delta a stream, one error; closing, removal and putting back at any time; parameters set late or again only while nothing is shown (`SetsNow`); all pairs of lists of up to four keys for `repeat` (assumption `RepeatKeepsNodes`) | a cleared transcript stays cleared; questions stay; what leaves the input is sent; the page is the state whenever no update is pending; nodes that need not change are left alone; the input comes back |

Runs that find a violation, one for each finding of section 6:
`chat_unaccounted_prompt`, `store_rejected_patch`, `client_reset`.

*Why these bounds are enough.* The hazards are pairwise: a check of one request
between the check and the charge of another, a patch under a reader, a turn
overlapping a turn. Two actors show them all; `client` takes three because
"another caller drops the session while a third waits for it" needs them.
Budgets are one to three charges wide, so that a state is never more than two
steps from the boundary, and the sizes of prompts and deltas are chosen on both
sides of the rounding (3, 4 and 5 bytes). Two handlers can both be past the
check with one token left, which is the worst case of `BoundedOvershoot`; the
daily spend of `chat_memory` reaches its bound. `MaxNow` is three windows, `MaxClock` two lives of a cache entry
and the reads around them; after that the situations repeat shifted in time.
Four turns against a cap of four messages trim twice. A PATCH that puts one text over
another before it fails is in `store_rejected_patch`; `store` has the other ways to
decode a list. In `sse` five places hold
two events with one of the two forms of a line end, or one with two fields and
its terminator; in `element` two turns can overlap, since `reset` clears the busy
flag while the first one streams. What the bounds cut off
for the properties with a theorem is covered by the proof; so is midnight for
the two refinements, of which TLC sees only what follows from them
(`DailyOvershootBounded` in `chat_memory`).

*Deadlock.* It is checked except in `client`, `client_reset` and `element`,
where the system rests once every call has ended; and in `store` and
`store_rejected_patch`, whose keys run out after a few rotations (the code's
do not).

## 5. Fairness

- `Chat!HandlerFairness`: the Go scheduler runs every goroutine; `pgSpend`
  gives up after 5 s (spend.go:93), the Kubernetes client after 10 s, and the
  upstream context after its timeout (chat.go:173), after which the read fails.
  No fairness makes the upstream send, end or fail before that.
- `Chat!VisitorFairness`: a write to the visitor returns, since it reads or its
  connection is closed. This one is an assumption about the visitor: the server
  sets no write deadline (server.go:225), and `HandlersReturn` does not hold
  without it.
- `AnswerStream`: the loops go on, the rest of the stream arrives or the
  connection breaks, and a caller that has a delta asks for more or stops. One
  weak fairness for all of these: each makes progress towards the end.
- `Widget`: the event loop runs what an await waited for and the update that is
  asked for, and a stream of the SDK ends or brings another delta (the broker's
  timeout bounds it). One weak fairness for all of these (`Progress`); nothing
  is assumed of the visitor or the host page.

Nothing is assumed of edits, midnights, restarts, rotations or resets.

## 6. Findings

Three runs check a sentence of the repository that the code does not keep:

1. *A prompt that could not be recorded is served* (`chat_unaccounted_prompt`).
   `handleChat` drops what `AddSpend` returns for the prompt (chat.go:149), so
   a failing backend is noticed at the first delta at the earliest; quota.go:73:
   "refusing service beats spending unaccounted tokens".
2. *A rejected PATCH changes the allow-list* (`store_rejected_patch`). The copy
   in `Update` (store.go:110) shares its array with the record, and the list is
   decoded into it (manage.go:205) before an element of the wrong type makes
   the call fail with 400.
3. *A reset session comes back* (`client_reset`). An exchange in flight at
   `reset` stores its token afterwards (client.ts:147); client.ts:83: "Drop any
   cached session token/config."

Met while modelling, and kept in the models as the code has them:

- a public embed is said to cost "up to $X/day" (README.md:156); concurrent
  requests, and upserts that are applied after their timeout, pass the daily
  budget, within `DailyOvershootBounded` (chat.go:137, 196; spend.go:93);
- the limiter is a fixed window (quota.go:59) where quota.go:15 speaks of a
  sliding one: `TwiceTheLimit` is what it guarantees;
- an upstream that ends without `[DONE]` is passed on as complete
  (gateway.go:195; broker/README.md:70);
- an exchange reads the allow-list while a PATCH writes it (session.go:111,
  manage.go:205): a data race; `ExchangeKeepsItsList` leaves that case out by
  its `clean` flag, and says so;
- turns whose caller brings its own messages are remembered too (chat.go:208;
  the comment above it says they are not);
- after a reset the end of an older exchange makes the SDK forget the newer one
  (client.ts:104), so exchanges are not de-duplicated then; `OneExchange` and
  `ExpiredMeansRefused` are stated until the first reset;
- a network error of `fetch` in `send` is thrown as it is (client.ts:206);
- a CR at the very end of a stream stays in the value of its line (sse.ts:71),
  and `retry` is forgotten with the event (sse.ts:147);
- a stream that ends without `done` counts as a whole answer (client.ts:225);
  a caller that stops early leaves the promise of the text pending for ever, and
  aborting the widget's turn does not end the request below it
  (clankstack-agent.ts, `sendMessage`);
- in the widget, the end of an aborted stream clears the busy flag and the
  handle of the stream that runs by then (`finally` of `sendMessage`); the error
  of an aborted stream is shown after a reset; and a bubble whose stream ended
  while the element was off the page types for ever (`ScreenIsCurrent` names
  the exception);
- the first update runs `bootstrap` twice, in `firstUpdated` and in `updated`,
  and so makes two clients; a key that is set after the first update makes none,
  since `updated` only replaces a client that is there (`ready`);
- a parameter that is set again makes a new client and the default title, while
  `sessionConfig` stays that of the old one; and it is not reactive, so that the
  badge appears with the next update only;
- in a mode other than popup nothing asks for the config before the first
  message, so that neither title nor greeting of the embed are shown until then;
- the sanitizer drops images with their text, the boxes of tasks and the first
  number of a list, which marked renders and `ALLOWED_TAGS` does not have;
- markdown.ts:7 says that raw HTML is escaped. A tag that opens code and is not
  closed in the answer (a sentence about `<code>`, say) leaves `inRawBlock` set
  (agent.js:1430), and the lexer then escapes no text any more (agent.js:1605).
  The sanitizer still sees all that comes of it, but a text such as `<y, z>`
  reads as a tag then, and the rest of its paragraph goes with it: the
  assumption `RawCodeSwallows` of `AnswerStreamMC` shows such an answer, and
  `ShowsTheSource` leaves them out (`Swallows`).

## 7. Proofs

| theorem | module | says, for every value of the constants |
|---|---|---|
| `MeterInvariant`, `Overshoot` | `MeterProofs` | the load of an account stays within its limit, so its counter does: it passes its cap by less than a prompt and a piece per request, and the larger of the two per charge under way |
| `TypeCorrect`, `MessageBudget`, `DeltaCharging`, `SpendIsKept` | `ChatProofs` | `WellFormed`, `MessagesConserved`, `DeltasChargedOnce`, `SpendSurvives` |
| `DailyRefinement`, `DailyOvershoot` | `ChatProofs` | `Chat` implements `Meter` for the daily budget; hence the overshoot bound |
| `SessionRefinement`, `SessionOvershoot` | `ChatProofs` | the same for the budget of a session |
| `Ledgers` | `ChatProofs` | `LedgersAgree`, for any number of sessions and handlers |
| `LimiterInvariant`, `AtMostTwice`, `RefusalsJustified` | `RateLimiterProofs` | `LimiterInv`, `TwiceTheLimit`, `RefusedOnlyWhenBusy` |
| `IndexInvariant`, `ListsStayApart`, `KeysStayDead` | `EmbedStoreProofs` | `IndexConsistent`, `ListsNotShared`, `RetiredKeysStayDead` |
| `SlicesFit`, `PatchIsStored`, `ExchangeDecidesByItsList` | `EmbedStoreProofs` | `StoreWellFormed`, `AcceptedListIsStored`, `ExchangeKeepsItsList` |
| `HistoryTypes`, `HistoryInvariant`, `AnswersAreSent` | `ChatHistoryProofs` | `HistoryTypeOK`, `LastTurnsRemembered`, `AnsweredTurnsSent` |
| `KubeTypes`, `KubeStaleness`, `KubeTokensAreOwn` | `KubeResolverProofs` | `KubeTypeOK`, `StalenessBounded`, `OwnToken` |
| `ClientTypes`, `MessageSentOnce`, `RetryIsFresh`, `ExchangesAreShared`, `ExpiredIsRefused` | `ClientProofs` | `ClientTypeOK`, `NeverSentTwice`, `OneFreshRetry`, `OneExchange`, `ExpiredMeansRefused` |
| `EventsKeepTheirOrder` | `ClientProofs` | `EventsInOrder`, for streams of any length |
| `WidgetTypes`, `TranscriptIsCleared`, `QuestionsAreKept`, `SubmittedTurns` | `WidgetProofs` | `ElementTypeOK`, `ClearedStaysCleared`, `QuestionsStay`, `SubmittedIsSent` |
| `RepeatIsKeyed` | `WidgetProofs` | `repeat`, for any two lists without duplicates: a key that stays keeps its nodes, a new one gets new nodes, the nodes of the others go, and the page is in the order of the new list |
| `BubblesAreTheirOwn` | `WidgetProofs` | no two bubbles have the same id; an answer has the deltas of its own stream, and types only while that runs or after it was aborted |
| `PageIsCurrent`, `NodesAreKept` | `WidgetProofs` | `ScreenIsCurrent`, `NodesKept` |

*Assumptions.* Only those named in the modules (`ChatAssumption`,
`LimiterAssumption`, ...): finite sets of handlers and of connections, sizes
that are naturals, budgets that are integers up to a largest one, an even cap
of messages (the code's is 20). `Meter`'s is a definition, taken as a hypothesis by its
theorems and derived from `ChatAssumption` in `ChatProofs`. That prompts
and deltas have a largest size is the body limit of 256 KiB and the scanner's
line limit of 1 MiB.

*Arguments.*

- `Meter`: that the counter is within its limit is not inductive. The *load*
  is: the counter, plus a prompt and a piece for each request past its check,
  plus a piece for each that streams, plus each charge under way that nobody
  waits for. A charge moves tokens from the potential
  part to the recorded part, at once or when it lands; admission adds to the load only below the cap.
- `Chat`: `Bookkeeping` strengthens the types with what a handler knows at each
  step. `DeltasChargedOnce` rests on it: what is owed at `write` is what one
  delta can add to the estimate.
- `Chat` implements `Meter`, twice: the initial states map to an initial state
  of the meter and each action to the step its comment says, or to a stutter;
  the theorem of `Meter` then carries over. A restart crashes every session's
  meter, since the counters of the sessions are lost with the process.
- `LedgersAgree` equates a counter with two sums, over the sessions that have
  counters and over the requests that are between the halves of a charge. Every
  step changes one term of each at most, and a charge moves its tokens from one
  sum to the other (`SumTakes`, `SumMoves`). The sums themselves are the only
  place where something is shown by induction, over the size of a set.
- `RateLimiter`: `WindowIsNewest` (the last `count` grants are those of the
  window in the map, in rank order) and `GrantsInOrder` make two grants that
  are `2 * MaxLimit` apart lie in windows with another one between them.
- `EmbedStore`: the index is inductive together with `StoreTypeOK` and with
  what the writer's copy knows of its record (its key cannot be rotated while
  the mutex is held). For the lists it takes what the heap looks like while one
  is decoded (`HeapInv`): the elements before the current one are those of the
  patch, no element but the current one is half written, and an exchange that
  is still `clean` reads an array whose elements are those it found.
- `ChatHistory`: trimming the messages of a sequence of turns commutes with
  dropping its oldest turns (`TrimKeepsLatest`), which needs the cap to be even.
  A turn is in the conversation before its visitor hears that it ended
  (`ToldInv`), and what is cut there was pushed out by the cap.
- `KubeResolver`: a cached token was current `TTL + FetchMax` before the entry
  expires; a token read by a handler was current when its request was sent.
- `Client`: a session that was refused is dropped before the call that was
  refused goes on, and the exchange it came from has ended; so what a retry
  gets, from its own exchange or from another caller's, is another session.
  Until a reset there is one exchange that is not over, the one in flight
  (`OneInFlight`), and the session of an exchange that went well is there until
  all who waited for it have used it (`SessionKept`): a call drops a session in
  a promise reaction, and the answer to an exchange or to a message is a task,
  which comes when no reaction waits.
- `SSEParser`: there is a place in the stream up to which the parser has taken
  its lines (`InStream`). What it holds of the event under way is what the lines
  since the last blank one say, what it has handed on is what the stream says up
  to there, and the rest of what has arrived is in the buffer and begins a line.
  Each turn of the loop of `push` moves the place by one line (`LineTaken`), and
  what a stream says up to a place is the first part of what it says as a whole
  (`EventsBegin`). A stream that ends in CR is left out, as in the property.
- `Element`: the handle belongs to a turn that streams, the draft to a turn that
  has not begun, and only turns that were shown can have been cleared
  (`ElementInv`). Every step of `Widget` is a step of `Element` or leaves its
  variables alone (`WidgetSteps`), so this needs no page. Neither does
  `BubblesInv`, which says of every bubble at which step its call is: a call that
  has not come that far has no bubble yet, so the ids of new bubbles are new, and
  `bumpMessage` and the filter of a stream that fails reach one bubble at most.
  The answer of a stream that was aborted by taking the element off the page stays
  in the list as it was, which is the exception about bubbles that type.
- `LitParts`: the walk of `repeat` over two lists (`WalkInv`). What has been
  walked over is what it is to be: the parts found for the first and the last
  places of the new list (`Found`). The rest of the page is the old parts that
  are still to be had, in their old order and between those two (`Page`), which
  is what makes each `insertBefore` put a part where it belongs: its reference is
  the first of these, or the first of the last places. A key that is in what is
  left of one list is in what is left of the other, if it is in both (`Matches`),
  and the maps, once made, have every key of what is left (`Maps`), so that no
  part that stays is dropped for a new one. Every step keeps this and uses up a
  place of one list (`Goes`), and both lists are used up after as many steps as
  they have places.
- `Widget`: the page is the state while no update is asked for, and what the
  handlers set asks for one (`ScreenInv`). While one is asked for the page is an
  old one, but still a page with a row for each of its keys; what an update makes
  of it follows from `RepeatIsKeyed` (`RowsAreDrawn`). The text in the input
  needs a part of its own: the update sets it only when the draft is not the one
  that it set last, so the input must hold the draft or the draft must be another
  than that (`InputIsDraft`), however often the visitor and `submit` take turns
  between two updates. `SubmittedIsSent` needs the page as well: Enter reaches a
  turn that may refuse the text, and it is the page that keeps the visitor from
  it, since the input is disabled unless an update is still to come, in which
  case no event is taken.

*Induction over data.* The induction theorems of the library take an operator
and cannot be used here. Where one is needed all the same (a sum over a finite
set, the first element with a property, the steps of the walk of `repeat`), the
proof takes a smallest counterexample, from `WFMin` and the well-foundedness of
the numbers and of the finite sets by inclusion. The walk of `repeat` is a
function of the number of steps for that reason (`WalkFrom`): it is over after
as many as both lists have places, and stays where it is from then on.

*Model-checked only.* Liveness (`HandlersReturn`, `AnswerAsSent`,
`InputComesBack`), which is beyond the prover, and `AnswerIsShown` with the
assumptions about sources and documents in `AnswerStreamMC`, since `Lexer` and
`Markdown` are recursive over data.

## 8. Not modelled

- `ExplicitResolver`, the parsing of upstream chunks, the token's and the
  cookie's signature and expiry: planned (section 3).
- Routing, CORS preflight, configuration: no state and one possible order.
- Static files, templates, error envelopes, styles: pure output.
- Of the widget: theming (`theme="auto"` set after the first update never
  follows the system), the visitor id in the browser's storage, focus and
  scrolling, and the events it sends to the host page.
- Of Lit: how a template string is cut into parts, reflected attributes,
  controllers, hydration. Of marked: the regular expressions by which the lexer
  tells of what kind a line or a span is, and what they cut off; headings that
  are underlined, e-mail addresses, escapes, images in a source and links within
  the text of a link; and its options other than the ones set. Of `markdown.ts`:
  the fallback for a runtime without `DOMParser`, which no browser is.
- The fake gateway (a development aid), charts, examples.
- The maps of quotas, windows and history never shrink; nothing in the code
  bounds them, so there is no bound to check.
