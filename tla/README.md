# A TLA+ model of oc2api

oc2api is an OpenAI-compatible proxy in Go: it reshapes a client's completion
request, sends it to an upstream through one of the egress nodes of a
subscription, and streams or aggregates the answer. On Vercel a thin Node layer
(`api/index.js`) starts the Go binary and talks JSON-RPC to it over pipes. This
directory holds TLA+ modules for the parts of it that keep state, the TLC
configurations that check them, and proofs that TLAPS checks. Source paths below
are relative to the repository's root; definitions keep the source's names
where they can.

## The system

| part | state | operations | used by | what is hard |
| --- | --- | --- | --- | --- |
| `internal/proxypool/pool.go`, `strategy.go` | list of nodes, rotating index, sticky node, verdict and cool-down per key, `loaded`, `loadMu` | `Start`, `Take`, `Report` | chat, httpapi, main | callers race with each other, with three background tasks, and with a refresh that replaces the maps |
| `proxypool/probe.go` | `probeReady`, `probeRunMu` | initial probe, health loop, `waitProbe` | pool | batches that skip or wait for one another; a channel that must be closed |
| `proxypool/refresh.go` | locals kept over unlocked probing | refresh loop | pool | read, unlock for minutes, then write |
| `internal/chat` | attempts of a request, its open body, a first answer in hand | `UpstreamWithSession`, `Complete` | httpapi, rpc | retries over nodes that other requests report on; a client that leaves |
| `internal/protocol` | decisions about tool calls, held frames | `Stream`, `Aggregate` | httpapi, rpc, chat | names that arrive after their call; two paths that must agree |
| `internal/rpc` | goroutines per request, a lock on stdout | `ServeStdio`, `Handle` | Node layer | many requests on one pipe; streams that fail |
| `api/index.js` | `child`, `pending`, `nextId` | `ensureChild`, `rpcCall`, `handler` | Vercel | the child dies at any moment, late lines, one outcome per call |
| `internal/shape` | renames of one request | `Build` | chat, protocol | digests of tool names that agree, tools that only `tool_choice` names |
| `internal/httpapi` | locals of a request | completions, `/ip` | clients | `/ip` walks over the nodes by itself, next to a goroutine that looks the direct address up |
| `proxypool/dial.go` | a connection, its deadline, a watcher | `Entry.Dial` | zen, probes | a handshake raced by a context that closes the connection from another goroutine |
| `internal/zen` | session id | one HTTP exchange | chat, rpc | its result is a free choice here; what it does with a dialed connection is in `Tunnel` |
| `internal/config`, `ipinfo`, parsers, mihomo | none after start | | | sequential; left to tests |

They interact by calls, except for these: the pool is shared memory under `mu`,
`loadMu` and `probeRunMu`; background tasks are started by the first successful
load; Node and the Go core exchange lines over two pipes and one exit event.

For each part the properties that make it correct are those listed with its run
below; `PROJECT.json` lists the hazards behind them with their lines.

## Modules

- `NodeSelection` says which node `pickLocked` returns and where the rotating
  index ends, without loops: the first node in rotation of the best non-empty
  class (healthy, unprobed, any that is not cooling), else the first to thaw.
- `PickLoop` is `pickLocked` itself, one loop iteration per step. TLC checks it
  against `NodeSelection`; the pool then uses the operators.
- `ProxyPool` is `internal/proxypool`. Each critical section under `p.mu` is one
  action. `loadMu` and `probeRunMu` are held over network calls and are
  variables. `pc` says where a goroutine is in `load`, `Take` and its use of a
  node; `task`, `jobs` and `fetched` do so for the three background tasks.
- `ChatContract` is what one completion promises: bounded attempts, at most one
  second call, a result. `ChatService` extends `ProxyPool` with the retry loop,
  the direct fallback, the bodies (`body`: open, stalled) that are drained or read,
  and `Complete`: `result` is its first answer, kept over the second call, and
  `FirstReturns` and `SecondReturns` are the ways it can return.
- `HttpServer` extends `ChatService` with the handlers: streamed and unary
  completions and their early refusals, and `/ip`, which takes and reports nodes
  without the chat service. It implements `ChatContract` for its completions under
  the mapping `running <- [c |-> call[c] # "none" /\ pc[c] # "idle"]`.
- `Tunnel` is one `Entry.Dial` and what its caller does with the connection: the
  three handshakes over a stream of lines or bytes that arrives in any packets,
  the deadline, the `AfterFunc` of the context, and the closing of the connection.
- `Renames` is the two maps of `shape.Renames`, without state: `rename` and
  `Restore`. `SseFilter` extends it: `Build` enters the names of a request, one per
  step, and then one answer is fed, frame by frame, to `Stream` and `Aggregate` at
  the same time, so that their decisions can be compared.
- `FrameWriter` is the way of frames through `bufio.Writer` and `emitWriter`, one
  batch per flush.
- `RpcBridge` is the Node process and the Go cores it starts: the pipes, the
  goroutines, the exit events and the HTTP responses.
- `ProxyPoolProofs`, `PickLoopProofs`, `HttpServerProofs`, `TunnelProofs`,
  `SseFilterProofs`, `FrameWriterProofs` and `RpcBridgeProofs` hold the theorems (`HttpServerProofs`
  rests on those of the pool). `MC*` modules name small sets.

An operator `D_M` is the definition `D` with a plausible mistake in it. Nothing
uses it; `PROJECT.json` ("mutants") pairs every property of a run with one that
breaks it.

### Abstractions

- Time: `cooling[n]` is the number of ticks left (0: no entry, or expired; the
  code deletes expired entries when it meets them, which nobody can tell). The
  two cool-downs are constants with quota < failure.
- A verdict is absent (no `nodeState`), unknown, healthy or dead. Latency is left
  out; the age of a verdict is left open: any set of healthy nodes may be due for
  a recheck.
- The 16 probe workers: any outstanding job may be the next to finish. A key
  listed twice is probed once in the model and twice in the code, where the
  later verdict stands.
- What a network call brings is a free choice. A refresh whose fetch fails
  changes nothing and is not a step.
- `skipProbe` is set only in tests and is false here. `ErrEmpty` of `Take`
  cannot happen: `PoolIndexed` shows that a loaded pool has a node.
- `waitProbe`'s timer and the request's context are one step, `WaitTimeout`.
- The name of a tool is a pair of a text and a number: `<<t, 0>>` is what a client
  calls a tool, `<<d, k>>` the name made of the prefix and the digest `d`, where `k`
  numbers tools of one digest. Which texts share a digest is a constant. That a
  client calls a tool by such a name itself is left out.
- A frame has one choice, since a request's `n` is not passed on
  (`shape.go`, `forwardedParams`), and upstream sends nothing after `[DONE]`.
- A status other than 2xx is passed on as "upstream"; a success is 200. An answer of
  `Aggregate` is known by the call of Upstream that brought it and by whether it has
  content (`Answer`). A body is read to its end, breaks or stalls; a broken one is
  a 502 of the first call, leaves the first answer in force in a second one
  (`SecondReturns`), and cannot change the status of a stream any more. Reading a body
  and answering the client are one step; a client of a stream that stays but
  reads no more holds its request like a stalled body and is not told from one.
- In `Tunnel` an HTTP answer is a sequence of lines and a SOCKS reply one of bytes.
  A read brings any further part of what the proxy sends; the proxy may fall
  silent after it or close. The watcher's closure reads the variable `conn` while
  `Dial` assigns to it, a data race: the closure may see one half of each value and
  fail on it, which is the outcome `crashed`.
- Who has reported a node is done with it or takes another, at once (`Report`
  leaves the caller "idle" or at "load"). The chat service and `/ip` decide which;
  with that choice left open in the pool, they are steps of it.
- In `SseFilter` a fragment that stays in a rewritten frame keeps its place: the
  calls written are a function on the places kept, and what follows moves up only
  in the client's array.
- Left out because they fail before anything is touched, or in the way of another
  path: an error of `shape.Build` (`chat.go:43-46`), a service without a pool
  (`chat.go:50-52`, which is `Direct` at once), a scheme `Dial` does not know
  (`dial.go:48-49`). `BatchDone` unlocks `probeRunMu` and closes `probeReady` in
  one step; no lock protects the channel, so nobody can rely on the moment between.
- In `RpcBridge` a response is its head, its chunks and whether it has ended. A
  refusal is a result with a status other than 200. Node handles the exit of a
  child and the reset of `child` in one turn, so it can still write to a core
  that is down but never sees `exitCode` set on the `child` it keeps. A new
  core is the least that has not been started: which one is a name only. Lines
  printed before a crash are delivered before or after the exit event. The chunk
  in `RpcBridge` is one `emitWriter.Write`.

## Runs

| run | shows | bounds |
| --- | --- | --- |
| `MCPickLoop` | the loops pick what `NodeSelection` says; even rotation; a node always | lists of three nodes and one with a repeated key; all verdicts; cool-downs 0..2 |
| `MCPool` | load once, one batch at a time, no orphan channel; verdicts and cool-downs, of healthy nodes too, and the sticky node through reports, probes and refreshes; best class served; switches only to a healthy list | two callers, two nodes, a list that loses and regains one, health loop |
| `MCPoolLive` | dead nodes are probed again, unless refreshes hold `probeRunMu` again and again (the health loop drops a round that meets one); every `Take` returns, after failing loads too; a refresh that waits for a batch ends | one caller, a list that swaps its node, health loop, round robin |
| `MCHttp` | the completions implement `ChatContract`; a retry turns away from its node; a first answer is kept over the second call and lost only to one with content; every node taken is reported; every request is answered, unless a body of its own stalls and its client stays | one caller, requests of all kinds in turn, two nodes, two attempts |
| `MCSseFilter` | order and what an end may lose, truthful `tool_calls`, no built-in call passes, names come back, `Aggregate` keeps only what `Stream` keeps | two call indexes, four requests of which one has two tools of one digest, four frames, any end |
| `MCFrameWriter` | what is written between two flushes is out, whole, and cut only if it is longer than the buffer | three frames, all texts of up to five bytes, buffer of three |
| `MCTunnel` | the tunnel starts where the answer ends; a connection has one owner; `Dial` returns | 154 proxies: each scheme, refusals, junk, silence, all address types, up to two bytes of the target in any packet |
| `MCBridge` | one core; own replies in order; head after verdict; ended replies stay ended; no awaited call is forgotten; each is answered unless its own stream breaks | one stream of up to two chunks, two unary calls of which one is too long a line, any crashes |

Why these bounds are enough to be of use: the pool's properties relate at most
two nodes and two processes (a node that is reported and one that is current, a
loader and a late loader, a batch and a task that waits for it), and all of them
are proved without bounds below. A cool-down of two ticks tells "shorter" from
"longer" and lets one expire while the other runs. In `SseFilter` a conflict takes two
calls and three frames (two announced, one named, the other named); the fourth
lets something follow. In `RpcBridge` ids and cores number at most the requests,
so crashes need no bound; three requests let a late line of a first core meet a
call on the second while a third waits.

The two callers of `MCPool` are interchangeable: no action, constant or property
singles one out (`Main` is not among them), so `CallerSymmetry` is sound; the run
checks safety only. Other requests that use the pool at the same time appear there,
where two callers take and report freely; `MCHttp` has one caller and no background
loop but the initial probe, and leaves the others to `MCPool` and to the proofs.

`CHECK_DEADLOCK FALSE` stands where the system really stops: `PickLoop` after the last
call of its history, an answer that has been read to its end or to the bound on
its frames, a connection that has been released, and requests that have all been
answered.

### What the code does not do

Four runs expect a violation. Each states what a comment or a message in
the repository says, and TLC shows the code doing otherwise. `PROJECT.json`
("findings") quotes the lines.

- `MCChatCancel`: the departure of a client counts as the node's failure.
- `MCSseKeptCallsWhole`: a held frame with an unnamed call is flushed by a later frame
  without an undecided call of its own; the call, still undecided, loses its fragment.
- `MCFrameSplit`: a frame longer than the `bufio.Writer` becomes several messages,
  cut within a character.
- `MCBridgeBroken`: a stream that breaks leaves its request without an answer.

Smaller departures from comments were seen while modelling; they have no run,
but the models behave as the code does:

- `refresh.go:15-16` says that requests never reach unverified new nodes. `Report`
  on a node that a refresh has removed recreates its state (`Reports` in
  `ProxyPool`, the node not in `entries`), so the node is no newcomer when it is
  listed again and is switched in unprobed.
- `probe.go:33` and `:49` speak of dead nodes whose cool-down has expired;
  `probeDue` takes all dead nodes (`Due`), as its comment at `:66` says.
- `pool.go:159` describes the third loop as sparing nodes judged dead; it serves
  nothing else (`Accepts("any", e)`).
- `strategy.go:7-8` lists 429, 403 and transport failures as reasons to leave the
  sticky node; a 5xx of upstream is one as well (`CurrentAfter`).
- `stream.go:37`: at `[DONE]` the held frames are dropped whole, with their text,
  their finish reason and even a call whose name did arrive (`OnDone`), and not only
  the nameless calls. An end without `[DONE]` drops them as well (`OnEnd`).
- A line that the end of the body cuts off does not parse and is passed on as it is
  (`OnCutFrame`), so a name in it is not restored. `Aggregate` reports "stop" for a
  body that ends without `[DONE]`.
- A tool that only `tool_choice` names is renamed, too, so `HasClientTool` counts it
  as the client's (`Build`).
- A success of a probe or of `/ip` ends a quota cool-down (`pool.go:197`,
  `probe.go:136`), though neither asks upstream for a completion (`Reports`).
- A node is judged by the status before its body is read (`chat.go:87`): one that
  breaks every body stays healthy (`Replies`, then the 502 of `FirstReturns`).
- No deadline covers a body (`zen/client.go:118-119` says so of streams): a second call
  that stalls holds back a first answer that is in hand (`Nudge`, then `Stalls`), and
  so does the drain of an error body before the next attempt.
- `dial.go:34`: the data race of the watcher with `Dial` (`WatcherTears`).
- `parser.go:90` rejects as base64 every text with a '/', which is a base64 digit,
  although `parser.go:50` lists base64 as supported (parsing is not modelled).
- `stream.go:142`: `Aggregate` keeps a call only if its name has the prefix
  (`KeptByAggregate`), whereas `Stream` also lets through unprefixed client tools
  and unknown names (`dropToolCall`).

### Fairness

Liveness is checked under these assumptions. Goroutines run (weak fairness on
each step of one). A mutex taken with `Lock` is handed over in the end, as Go's
starvation mode sees to (strong fairness on `LoadLock`, `RefreshLock`); `TryLock`
promises nothing and gets none. Probes, dials, fetches and response headers have
deadlines in the code, so the steps that end them are fair: in `Tunnel` those are
the connect's own timeout and `TimesOut`, which is possible only while the deadline
of `handshakeTimeout` is set. Tickers tick (only
the health ticker is assumed to). Nothing makes a request come, a core
crash or an upstream stream break.

Bodies have no deadline. In `HttpServer` one may stall at any time (`Stalls`), whoever
reads it then waits (`Over`), and nothing makes a client leave: `Answered` exempts
just a request whose body has stalled and whose client is still there. The departure of the
client ends the read, so from then on an answer is asked for again. The fairness of
`Drain`, `NudgeUnary` and `ReplyChat` says no more than that a body which does not
stall is read to its end. `RpcBridge` does assume that an upstream body ends or
breaks, which is a property of upstream and not of the code, and that Node serves
every event.

## Proofs

Seven modules hold theorems. Each proves its component's specification for every
value of the constants: any number of nodes, callers, requests, frames or bytes.
The bounds of the runs are values of constants, so the theorems cover them and
all others.

`ProxyPoolProofs` proves, for any set of nodes, callers and subscriptions and any
cool-downs with 0 < quota < failure, `SafetySpec => []P` or `[][A]_vars` for all
safety and action properties of `ProxyPool` that hold:

1. `TypeCorrect` (`TypeOK`) is inductive as it stands.
2. `ProbesInv` adds to `LoadsOnce`, `OneBatch` and `OpenMeansProbing` that before
   the first load ends (`Started`) no task has left its initial stage and the
   channel is nil. Without it `StartLoops` could overwrite a running batch.
3. `IndexInv` adds to `PoolIndexed` that a loader between `Reload` and `SetLoaded`
   has put a list, that every job of the initial and of the health task and every
   node a caller holds has a state, and that what a refresh has fetched is a
   list. Without it a probe or a report could give a cool-down to a key
   without a state, or a switch could leave the list empty.
4. `SwitchesToHealthy`, `VerdictsKept`, `CooldownsHonoured`, `StickyStays` and
   `ServesBest` follow from steps that start in these invariants, one step of the
   proof per action. The frame lemmas say once which actions leave the pool alone.
   `CooldownsHonoured` protects healthy nodes as well, which is where a quota
   cool-down is found (`pool.go:198-199`): apart from time, only a success of the
   node in that very step, `Probed(n, TRUE)` or `Reported(n, "ok")`, may shorten it.
   A node that leaves the list loses its cool-down, as the code drops the map.

`PickLoopProofs` proves that the loops of `pickLocked` return what `NodeSelection`
says and that round robin is even. The inductive invariant says what each loop has
found out when it is at its counter (`Looped`): the index has gone `i` places from
where it began and refused every node on the way; a loop that comes after another
starts where that one did, because a loop that fails goes exactly once round; and
the search for the first to thaw holds the first minimum of what it has seen.
`Rotated` carries evenness from one call to the next: the calls so far began at
some place, have gone at most once round, and have served just the members of the
class that lie on the way. That the same node is not met twice on one turn is
arithmetic of remainders (`StepRound`, `GoOn`, `Round`).

`HttpServerProofs` puts the server on top of the pool:

1. `Served` adds to `HttpTypeOK` that requests come after `Start` has returned, that
   one that is still in its loop has an attempt left, that a second call belongs to
   a unary request, and that the locals of `/ip` are unused by others. It is inductive
   together with the pool's types.
2. `ServerUsesPool`: every step of the server is a step of `ProxyPool` or leaves its
   variables alone. Hence (`PoolInServer`) the invariants and action properties
   of the pool hold in the server.
3. `RetryLeavesNode` and `FirstAnswerKept` follow step by step: the first answer is
   state from `Nudge` on, every step but its own reply keeps it, and
   `SecondNeverWorse` goes through the ways `Complete` returns.
4. `ContractImplemented`: the initial state maps to the contract's, and every step to
   one of its actions or to none, for any number of attempts.

`TunnelProofs` proves the three safety properties of `Tunnel` for any set of
proxies, whatever they send:

1. `DialInv` adds to `TunnelTypeOK` and `ConnOwned` (`OwnInv`) that the stages of a
   parser belong to its scheme, that a connection exists once `Dial` has left its
   first stage, and that as long as the watcher is armed nobody has closed the
   connection. The last is why `stop()` decides who owns it: when it is in time the
   connection is open, and stays so.
2. `ReadInv` says how much of the answer each stage has consumed: nothing at first,
   the method and the verdict on the user before the SOCKS header, no blank line
   before the end of an HTTP head. `TunnelIntact` follows, with an answer of any
   length and headers in any number, where TLC takes a few.

`SseFilterProofs` proves all six properties of `MCSseFilter` for any requests, tools,
digests, frames and lengths:

1. `Shaped`: the two maps of the renames are inverse to each other and no key of
   `reverse` is a name a client can give (`Matched`). That `rename` preserves this rests
   on `Candidate` finding a number that is free, of which there is one among the first
   n + 1 when n names are taken.
2. `Decided` and `Gathered` say what each path knows of a call: the verdict on the
   first name that arrived for it. They speak of the whole answer so far, so a
   decision and a name that come in different frames are related.
3. `Sent` describes everything written, rewritten as of now. It is inductive because a
   decision is final: a frame goes out only when all its calls are decided, and
   later frames change none of these decisions.
4. `Held`: what is held follows what has been written, and each frame of it has a
   fragment of a call that had no name by then.

`FrameWriterProofs` proves `BatchesWhole` for any frames, any size of the buffer and
batches of any length. The invariant says that the messages of the batch, the buffer
and what is still to be copied make up, in this order, what was written, and that
the messages of an open batch are all full. `FlattenSeq` is a recursive function;
that one more sequence adds its own elements at the end (`FlattenAppend`) is shown
without induction: a function as the recursion asks for exists for every length,
and two of them agree where both are defined, since neither statement has a least
counterexample (`LeastNumber`).

`RpcBridgeProofs` proves all safety properties of `MCBridge`, for any number of requests,
any of which may be streams, have a line that is too long, or lose their core:

1. `TypeInv`, `CallInv`: ids are handed out once, and a request waits exactly as long
   as one entry of `pending` names it. `CoreInv` ties the running core to `child`.
2. `WireInv`: whatever a pipe or a goroutine carries has an id already handed out; if
   it is still awaited, then by the request that sent it and on the core in
   use. So lines of a dead core meet nobody who waits.
3. `OnceInv`: a request is in one place, in stdin, in a goroutine or finished, and a
   verdict is the last line under its id.
4. `StreamInv` numbers the frames: the ones in the pipe continue those the response
   has, without a gap, up to what the goroutine has sent. `ReplyInv` says what
   a response may look like at that point. Both are needed for `OwnReply`, since
   a frame is in the pipe or in the response.
5. `Attended`: a core that runs holds every awaited request but those whose stream
   broke. `NoLostCall` follows.

`NothingRunsOut` shows that the ids and cores of the model, as many as requests,
always suffice, so that no step is missing for want of one.

The assumptions are those of the constants in the modules of the components; TLC
evaluates them in the runs. They say what kind of thing a constant is (a script in
`Tunnel` is a scheme with a sequence of bytes or lines; frames have text, calls and
a finish), that the requests of `RpcBridge` are finitely many, since ids number them,
and that 0 < quota < failure.

Only model-checked:

- Liveness (`DeadProbedAgain`, `TakeReturns`, `RefreshEnds`, `AlwaysAnswers`, `Answered`,
  `DialReturns`, `UnbrokenAnswered`): fairness and ENABLED are out of the prover's reach.
- The four violations, which are counterexamples.

## Plan

Done: all modules, all runs, and proofs of every safety and action property that a
passing run checks.

Next: shorter proofs of `RpcBridge`, whose frame lemmas repeat each other; and that the
choice `Take` makes in `ProxyPool` is the one the loops of `PickLoop` come to, stated as
one theorem about both (now it follows from `LoopsPickAsSpecified` and from `Take`
being defined by the same operator, `Picks`).

## Not modelled

Configuration, parsing of subscriptions, the mihomo adapter and the IP
providers: sequential code without state of its own, whose results are free
choices above. `/health` and `/models`, which only read. Authorization, CORS and
the text of messages, prompts and headers. The session ids of `zen`, of which nothing in
this code depends on being different. The age of a verdict (`lastCheck`), of which the
model leaves open when it is due. A spawn of the core that fails: it throws in
Node, outside anything this model keeps. Logging.
