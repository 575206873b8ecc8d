# A TLA+ model of command-code-proxy-server

The proxy accepts OpenAI-style chat requests on a local HTTP server and answers
them from the CommandCode API. Its hard parts are small but concurrent: a
hand-written keep-alive transport, a startup sequence that must precede all chat
traffic, a retry loop, a translation of an event stream in two modes, a cache of
session ids, one of environment snapshots, a model catalog refreshed in the
background, and the conversion of replayed conversations. This directory models
them in TLA+, checks the models with TLC and proves with TLAPS every safety
property that a run shows to hold.

Paths below are relative to `src/`; `PROJECT.json` maps each definition to the
lines it models and lists runs, mutants, hazards, findings and theorems.

## 1. Inventory

| Component | State | Operations | Hard part |
|---|---|---|---|
| Transport, `internal/upstream/transport.go` | pool: an intrusive list per host under `mu`; per connection a deadline and unread bytes; per body `closed`, `done` | `RoundTrip`, `acquire`, `exchange`, `bodyCloser.Read/Close/finish`, `release`, `CloseIdleConnections` | concurrent requests, stale connections, lost answers, retry, deadlines |
| Chat handler, `internal/proxy/proxy.go:311` | locals of one goroutine per request | refuse, start the beacon, wait at the gate, call, retry, answer | disconnects between any two steps, retry of what is safe to retry, bodies left open |
| Beacon, `internal/proxy/beacon.go` | `beaconOnce`, `beaconGate`, locals of `runBeacon` | `StartBeacon`, `awaitBeacon`, rounds of `beaconCall` | run once, order before chat traffic, gate always closes |
| Streaming, `proxy.go:468` | role, tool-call indexes, finish flags | one case per event type, closing tail | three tool-call dialects, streams cut anywhere |
| Collected answer, `proxy.go:782` | text, calls, first error, usage | one case per event type, one reply | agreement with the streaming mode, errors not reported as success |
| Session identity, `internal/proxy/identity.go` | map from conversation to id and time, under `mu` | `sessionFor`, `newIdentity`, `slugPath` | clock read before the lock; a key derived anew each turn |
| Environment snapshot, `envconfig.go` | cached snapshot and its time, under a mutex held while git runs | `get`, `collectEnvConfig`, `cliWorkDir` | stale snapshot, requests that wait for git, slug and directory that must agree |
| Model catalog, `catalog.go`, `model.go` | id list and indexes under an RWMutex | refresh loop, `update`, `resolve`, `MapModel`, `HandleModels` | refresh beside readers, failed refreshes, ambiguous names |
| Conversion, `convert.go`; request building, `proxy.go:206`; Responses endpoint, `proxy.go:945` | none | pure functions | results that find their call, calls spelt twice, empty turns, limits over two handlers |
| Version, `internal/version`; start-up, `main.go` | frozen version; identity and cache replaced without a lock | `Resolve`, `SetWorkingDir`, `SetProjectSlug`, order of `main` | one version, slug and session for beacon and requests |
| Update check, TLS template, routes, wire types, capture tools | none that matters at run time | | |

Interaction: `main.go` configures a `Proxy`, resolves the version, starts the
beacon when it has a key, and serves. net/http runs each request in a goroutine of
its own; the handlers and the beacon share the `http.Client` and thereby the
transport's pool; handlers wait for the beacon on a channel that is closed once;
`sessionFor` is called by every handler while it builds its request, as are the
snapshot cache's `get` and, for the model, the catalog, which a goroutine of its
own refreshes. `HandleResponses` rewrites its request and calls the chat handler.

What makes each component correct:

- transport: a connection has one user; the pool holds exactly the idle open
  connections; an answer reaches the request it answers; what is repeated is
  only what may have been lost; every wait ends;
- handler and beacon: birth events before chat traffic, once; retries only after
  a server error; nothing left open; every client is answered;
- translation: the stream is closed once, calls reassemble by index, both modes
  tell the same story, errors are visible;
- identity: concurrent requests of a conversation share a session, idle sessions
  are not resumed; replayed turns keep the conversation's key;
- start-up: the process claims one version, slug and session, and the slug is that
  of the directory it reports;
- snapshot: recent, gathered once for all who need it, and nobody waits for ever;
- catalog: failures keep the last list, the page's order decides nothing, a listed
  model is served as itself, and the catalog catches up;
- conversion: what the proxy reads of a turn arrives once and in order, results bear the name of
  their call, nothing upstream refuses is sent, limits are kept.

## 2. Modules

```
ConnLease  <--- implemented by ---  Transport  <-- MCTransport
                       TransportProofs, TransportUseProofs
CCEvents <- StreamResponse, NonStreamResponse <- ResponseModes <- MCResponseModes
                       ResponseProofs
UpstreamCalls <- Beacon <- ChatHandler <- MCChatHandler
                       HandlerProofs
Sessions <- MCSessions
                       SessionsProofs
Convert <- RequestBody \
               Catalog <- Requests <- MCRequests
                       RequestProofs
EnvConfig <- Startup <- MCStartup
                       StartupProofs
SequenceLemmas <- TransportUseProofs, ResponseProofs, RequestProofs
```

Each proof module extends the last model of its line. Where the models filter a
sequence they join pieces of at most one element (`FlattenSeq`, and `Keep` in
`Convert`), because the provers cannot expand `SelectSeq`.

**Transport** has one host, because the proxy dials one. `head` and `next` are
the list, `sock` and `peer` the two ends of a connection, `sent` and `replies` the
bytes under way, `junk` the connections that carry an undelivered tail of an
earlier answer (a zlib decoder reports EOF before the last chunk is read).
A request's `pc` is where its goroutine is: `acquire`, `dial`, `send`, `await`
(inside `exchange`), `body`, `finished` (the body has ended), `reread` (it was read
once more afterwards), `closed`, `failed`. Each action is one locked section or
one blocking I/O operation. `ServerExecute`, `PeerDrop` and `Expire` are the
server, the network and the clock.

**ConnLease** is what a user of the pool may rely on: connections are opened once,
leased to one request at a time, returned, dropped or flushed. `Transport!Leases`
and `IdleConns` give the refinement mapping.

**StreamResponse** and **NonStreamResponse** have one action per `case` of the event
switch. Text is a sequence of tokens, so that order, loss and duplication show;
`frames` is what the client has received. **ResponseModes** lets one upstream speak
to both at once. It produces the three dialects of tool calls that the two
switches handle; a call's events follow its dialect (no fragment before its
announcement, none after its `tool-call`), nothing but framing follows `finish`.
What it meant is recorded in `meant`, which the properties compare with what an
OpenAI client can assemble from the frames.

**UpstreamCalls** is the handlers' view of the transport: whether a connection is
idle decides whether a cancelled request is still sent, because only the dial
looks at the context. **Beacon** and **ChatHandler** are the two kinds of goroutine.
A handler's `passed` records which branch of the `select` let it through, `sent`
that its call has put the request on a connection. An upstream answer is a status
and a throttle class; `rate_limit_error` stands for `insufficient_quota` too, as both
map to 429; the statuses are 200, 304, 500 and both ends of the 4xx range. Whether the API key comes from the client or from the server is the
choice between `Accept` and `RefuseEarly`. A 500 from request building cannot
occur: `BuildRequest` has no error path and marshals plain structs. A disconnect is
enabled where it is noticed or decides something: at the gate, before a call, in a
backoff; in between it commutes with the handler's own steps.

**Sessions** splits `sessionFor` where the code does: `ReadClock` before the mutex,
`Reuse` or `Mint` inside. An id is named by the request that minted it.

**Catalog** is the refresher goroutine and the lists it makes; a name is a sequence
of words and punctuation, so that the short and the normalised form are computed
as the code does. `ids` is the list, and the three indexes, which `update` rebuilds
with it, are what `index` says of an id and a name. A fetch and its update are one
step: nobody else updates, and a reader sees either the old list or the new one.

**Convert** is `convert.go`. The map `toolNames`, which the code fills as it goes, is
represented by the calls that lie before a message or part (`callsBefore`, `nameOf`).
An absent or empty id is `Nil`, because `strPtr` drops the field of an
empty string. Text is tokens of `Words`; a part has the text the code would make of it. The
two spellings of a call (`tool_calls`, parts) are kept apart, the many type names
of each kind of part are not. What a client says in fields that no conversion reads
(`refusal` and `reasoning_content` of a message, the output of a `function_call_output`) is
its `aside`, which the model drops as the code does. **RequestBody** adds the limit, the tools, the key of
`sessionFor` and the rewriting of `/v1/responses`. **Requests** lets a client hold a
conversation on either endpoint, replaying its history in each request as such
clients do, beside the refresher and a client of `/v1/models`.

**EnvConfig** is the snapshot cache: `StartGather` and `EndGather` hold the mutex,
`Hit` does not gather; what is read is represented by when it was read, so that age
and mixture can be stated. **Startup** runs `main` step by step (`MainSteps` is its
order, which two mutants change), then requests; the beacon appears as the reader of
session and version. Its rounds are in `Beacon`.

Operators named for a mistake (`FinishIgnoresDone`, `RetriesAnyRead`,
`StatusFirst`, ...) stand before the definition they would replace. They are the
mutants: each property of a passing run is shown to fail with one of them.

## 3. Runs

| Run | Instance | Shows |
|---|---|---|
| `transport_safety` | 3 requests, 2 connections | list structure, exclusive use, no use after close, no answer to the wrong request |
| `transport_live` | 2 requests, 4 connections, fair | repeats only over pooled connections, deadlines, termination, refinement of `ConnLease` |
| `transport_twice` | 3 requests, 2 connections | violation: a request executed twice |
| `response_modes` | 2 calls, 5 events, 2 error classes | closing, role, reassembly, agreement, errors |
| `response_dropped` | the same | violation: a dropped connection collected as an empty success |
| `response_input` | 4 events | violation: arguments lost in the stream only |
| `chat_gate` | 2 handlers, 2 rounds, 1 attempt | the beacon runs once, and before those who waited for it |
| `chat_retry` | 1 handler, 3 rounds, 3 attempts, fair | retries, open bodies, replies, every client served |
| `chat_early` | 2 handlers | violation: a cancelled request overtakes the beacon |
| `sessions` | 4 requests, 2 conversations, TTL 4, lag 1, clock 0..7 | shared ids, expiry |
| `building` | 3 turns out of 9 messages or 6 items, 4 other inputs, 64 + 16 combinations of limits, 4 ids, 4 pages and an outage, fair refresher | conversion, limits, threads, models while the catalog changes |
| `startup` | 12 sets of flags, 3 requests, TTL 1, git up to 1, clock 0..3, day 2, fair | one identity, header and body, snapshots shared, recent and never waited for in vain |

Bounds and why they suffice:

- `Requests`, `Conns`: an exclusion failure needs a holder, a thief and someone
  who returns the connection in between, hence three requests; two connections
  make lists of length two, where links are lost. Two requests need at most four
  dials, so with four connections no dial is refused by the bound and liveness is
  not vacuous. `executed` and the queues are bounded by the attempts.
- `MaxEvents` = 5: two calls opened, a fragment for each, one further event (text,
  error, finish, aggregate); `ArgsAreStreamed` restricts the passing run to
  upstreams that stream the arguments of a call they announce; the run
  `response_input` lifts it.
- `chat_gate` has one attempt since retries do not touch the gate; `chat_retry` has
  the code's three attempts and three rounds with one handler, since handlers
  interact only at the beacon and the pool. `serverKey` takes both values.
- `MaxTime` = 7 > `sessionTTL` + 2 lags: a session can be used, expire, and be
  minted again; with one tick more in `StableSession`'s bound TLC finds it violated.
- `building`: a name is lost or a call doubled between a turn and the next; three
  turns are a call, something between, and its result. The messages have each kind
  of part, both spellings of calls, one of them in both, and a turn for each way to
  be empty; one message and three items say something where it is not read. Clients that
  vary the limits say one turn; a limit is absent, 0, within the ceiling or above it. Pages share a short form, a
  normal form, and a set of ids in two orders. A client lists models before its
  conversation only, since the two handlers share nothing but the catalog.
- `startup`: flags set and not set, absolute and relative, with and without a word;
  three requests are two that race for a gathering and one that comes later, and
  the clock lets the snapshot expire and the day end.

Deadlock checking is off where a run ends with all requests served and no step
left, which is where these bounded systems stop.

Fairness. Goroutines are scheduled, so a handler's or a request's own steps are
weakly fair; timers and deadlines fire (`Expire`, the gate's and the backoff's
timers). The server owes nothing: `ServerExecute` and reading to the end of a body
are not fair. The call's own deadline (`Client.Timeout`, 30 s for the beacon) is why
`Answer` and `BeaconAnswer` are fair: a call returns by then, with or without an
answer; that a call returns is what `Transport!Termination` checks. The refresher is fair
because its client has a timeout of a minute and its sleeps end; the vendor's page is
not. In `startup` main's steps and the handlers' are fair; that git ends is an
assumption (`MaxGather`), as the code runs it without a limit and under the mutex.

## 4. Disagreements between code and documentation

Four violation runs record where the code does something else than a comment or
the README says; `PROJECT.json` quotes each. In short: a retry can repeat an executed
POST; a dropped connection can be collected as an empty 200; a streamed call can
lose arguments that arrive only in the aggregate; a client that leaves at the gate lets
its request overtake the beacon.

Met while modelling, and visible in the definitions:

- the retry asks the pool again and need not dial, although `transport.go:100` says
  "retry once with a fresh dial" (`AcquirePooled` is enabled at both attempts);
- every use refreshes a session, so `sessionTTL` bounds idle time and not "how long
  one client conversation keeps its session id" (`identity.go:23`, `Touch`);
- `SetWorkingDir` with a directory without letters or digits keeps the slug of the
  previous one, so header and body do not "stay in sync" (`proxy.go:191`); the third
  case of `HeaderAndBodyAgree` is this one;
- of several tool calls without an id in one message's `tool_calls` only the first
  is sent (`AddCalls`); `CallsSurvive` is about calls with an id;
- a request of system messages only is sent with a null message list, while empty
  content of a message is replaced (`BodyIsAccepted`);
- of an item of `/v1/responses` only the role and the first of `content`, `text` and
  `input` are read (`proxy.go:1029-1041`): the output of a `function_call_output`, which is
  how that API spells a tool result, is lost and an empty turn of the user sent in its
  place, and so it is with a `function_call` and its arguments, although `main.go:89`
  announces the endpoint as compatible with OpenAI's; `ReadOf` states the loss, and
  `ResultsFindTheirCall` and `CallsSurvive` say nothing of such items;
- a message's `refusal` and `reasoning_content` (`api/openai.go:11,16`) are dropped by
  `ConvertMessages` (`ReadOf`);
- `sessionFor` makes a fresh uuid for a request without `user`, system and user text,
  although its comment speaks of "falling back to the process-wide session"
  (`identity.go:91`); `TurnsKeepTheThread` exempts conversations without a key;
- some labels of `staticMapModel` have capitals (`model.go:29,45,49,51`, such as
  `MiniMaxAI/MiniMax-M3`) and can never equal the lower-cased name they are compared with;
  `Catalog` folds case, so this does not show in it: a name of that spelling is handed
  through and reaches the model meant, in whatever case the client wrote it;
- a limit below 1 falls back to the default even when a less specific limit is
  given (`LimitIsHonoured`).

## 5. Proofs

A theorem holds for every value of the constants that satisfies the assumptions
named; TLC evaluates these in the runs. Most constants are sets of any size: how many
requests, handlers, conversations, events or turns there are never matters.

**TransportProofs**, from `NoneAssumption`. `IInv == TypeOK /\ PoolInv /\ LeaseInv` is
inductive. Exclusive use alone is not: a pop must know that the next element is
linked only once and is not held, so `PoolInv` says that the links are injective,
that only linked connections have successors and that nothing linked is held, and
`LeaseInv` that held connections are open and have one holder. Each kind of step
(pop, dial, push, discard, close idle, quiet) has a lemma. A second invariant,
`WireInv`, ties what is on the wire of a connection to its holder and gives
`AnswerIsMine`; the refinement of `ConnLease` follows action by action (`LeaseBorrow`,
`LeaseOpen`, `LeaseReturn`, `LeaseDrop`, `LeaseFlush`, `LeaseStutter`).

**TransportUseProofs** goes on from there. `Deadlines`: a request that waits has set
its deadline on its connection, or one that read on after its end of file has.
`Repeats`: `RepeatInv` accounts for each request; what the server has executed of it
and what still lies on some wire never exceeds the writes made, and there is no
second write unless the first was on a pooled connection. `PoolIsIdle`: `ListInv`
says that the idle connections can be numbered along the links, so that the list ends
and holds nothing else; the property counts steps, and the proof bounds the count by
the number of connections, which is why it needs `ConnsAssumption` (a process
opens finitely many).

**HandlerProofs**, from `HandlerAssumption` and `AttemptsAssumption` (at least one
attempt and one round) and `NoneAssumption`. `HandlerInv` says what each position of a
handler implies: which attempts lie behind it, which answer it holds and whether a body is
open; `BeaconInv` the same of the beacon, above all that the gate closes only when all
is settled or the rounds are spent. `GateOrder`, `Retries`, `Bodies` and `Replies`
follow; `RunsOnce` is an action property from the same invariant.

**SessionsProofs**, from `SessionsAssumption` (a positive TTL, a natural lag, a
marker that is no request, conversation or entry). The property relates two
returned requests, long after the map may have forgotten them; `Kept` makes it
inductive: for every served request its conversation's entry still holds its id
with a time at most `MaxLag` older than the request's own, or `sessionTTL - MaxLag` has
gone by. A request at the lock is at most `MaxLag` behind the clock, which gives the
bound `sessionTTL - 2 * MaxLag`. `SeenByOne` (an entry's time is some request's) gives
`IdleSessionExpires`.

**StartupProofs**. `IInv` says what main has settled at each step (`Order`,
`SlugInv`), that every snapshot, in the cache or handed out, is of the working
directory (`SnapshotInv`), and that what was said is what is the case (`SaidInv`).
`OneIdentity` and `HeaderAndBodyAgree` are not inductive alone: they hold because
nothing is read before main has settled it, and need no assumption. `OneGather` and
`Recency` are about times, from `EnvConfigAssumption`: whoever gathers holds the mutex
and found the cache expired when it began (`GatherInv`), the cached snapshot is
at most `MaxGather` older than its time (`CacheInv`), and what was handed out is the
cached snapshot or one that had expired when the cached one was begun (`HandedOut`).

**ResponseProofs**, from `BoundAssumption` and `NoneAssumption` of `CCEvents`. `Inv`
relates what was sent to what upstream meant, after each event: the frames are parts
of an answer and then, once, the closing ones (`Open`, `Closed`); texts and errors add up
to those meant (`Told`); calls are numbered alike by the stream, the collector and
upstream (`Numbered`, `Indexed`); each is announced under its index
(`Announced`), its fragments make up its arguments (`Assembled`), and the collector
holds the same (`Collected`). `Followed` is the condition that the stream was not
left because its client had gone. `Reassembly` and `Agreement` assume
`ArgsAreStreamed`, that is, an upstream that streams the arguments of a call it
announces; without it both are false, as the run `response_input` shows. The rest
holds for every upstream.

**RequestProofs**, from `CatalogAssumption` (a page lists names that are not empty; the
built-in models are no aliases of others), `RequestBodyAssumption` (the default limit is
one upstream takes and the default tools have names) and `ClientsAssumption` (limits are
integers or absent; content is text of `Words` or parts of the types that `Convert` has;
`Nil` is no message and no role; the newline that `ExtractSystem` puts between two texts
is no word). `CatalogInv` says
that a loaded catalog is the sorted form of some list and not empty, from which
`SafeRefresh` and `Faithfulness` follow. `ListedServed` has the hypothesis that an id on
the page that is also a key of `staticMapModel` stands for itself. It is true of ids with
the vendor's prefix, the keys of `model.go` being what they are; a page that listed a bare
`minimax` would send its readers elsewhere once it no longer does. `RequestInv` says that
the chat request and the body in hand are those of the client's request; `Acceptance`
then needs that no conversion leaves a message empty, and `Limitation` that the rewriting
for `/v1/responses` neither loses nor reorders a limit. `ConversationInv` adds that the
chat request and the last body are those of the history, from which the rest follows:

- `Continuity`: a turn put at the end moves neither the model, the instructions nor the
  first thing the user said, on either endpoint.
- `ResultsNamed`: a result of the body is what one part of the client's message has
  become; the names it was looked up in are those of the calls before that part, each of
  which has a part before it in the body, and a part of the body that is a call is one of
  the client's.
- `CallsKept`: `parseContent` reads a call part as one call; `AddCalls` adds the calls
  whose id no part has, and of those with one id only the first, so that the parts which
  bear the id are exactly one.
- `TurnsKept`: the texts of a message's parts, joined, are what its content says, and
  `AddCalls` and `normalizeContent` add none; a body's texts are then those of its
  messages, piece by piece, the system's texts are the lines without the newlines
  between them, and each endpoint's rewriting keeps what is read of an item (`HeardBy`).
  What a turn says (`SaidBy`) includes what is not read, its `aside` and an item's later
  fields; `ReadOf` takes that away, and the theorem says that nothing else is lost. It
  holds for any client.

`ResultsNamed` and `CallsKept` have the hypothesis `ClientsFollowTheProtocol`: only
assistants call tools, and an id stands for one call of a message, by one name. It is what
OpenAI's protocol asks of a client and nothing the proxy checks, and each part is needed:
the code drops the `tool_calls` of any other role while it enters their names, and it sends
a call that is spelt twice among the parts twice. It bounds neither
the length of a conversation, nor where its ids recur, nor how calls and results are spelt.
TLC evaluates it for the run's messages and items (`ProtocolAssumption` in `MCRequests`).

**SequenceLemmas** has what these share: the least element of a set of numbers,
the pieces of a `FlattenSeq`, suffixes. The library's induction rules take an operator as
a parameter and cannot be used; instead, a statement about all prefixes is proved
from its least counterexample, which exists because `<` is well founded on the naturals.
About `FlattenSeq` they say how it grows by a piece, that what distributes over joins
distributes over it (`PiecesFlatten`), which piece each place of the whole lies in
(`FlattenPlaces`), and what pieces of one element make (`FlattenSingles`).

Only model-checked: the liveness properties (`Termination`, `EveryoneIsServed`,
`EveryRequestIsSent`, `CatchesUp`), which the provers cannot do. Every invariant and
every action property of the passing runs, and the refinement, is a theorem. The violation
runs show what is false and has no theorem.

## 6. Not modelled, and the plan

Modelled in this order: transport, responses, handlers and beacon, sessions,
catalog and conversions, start-up and snapshot; then proved, component by component.
Next: the conversation key of `RequestBody` as the key of `Sessions`, in one module.

Hazards that no property covers are those of which nothing holds: a pool without limit, a
birth event repeated because its answer was lost, a session in use that never expires, the
slug of a directory without words, a git that hangs or fails. `PROJECT.json` says why for each.

Left out for good: TLS and header bytes, log text, `Retry-After` values, the text
patterns that classify errors, routing, what git and the directory listing say, the
update check (it compares tags for a line that is printed), the capture tools. They
keep no state and decide nothing the properties are about.
