# Formal models of lenso-js

TLA+ models of the JavaScript side of Lenso: the generation boundary of a
Workers isolate, the native scopes of its events and what owns resources in it;
the three servers a Bun plugin can run behind its host, the streams between
plugins and the contracts their calls cross; and the launcher's hold on an
application process. TLC checks the models on small instances; TLAPS proves the
results listed below for every value of the constants.

Paths are relative to the repository; `W/` stands for
`packages/lenso-workers-runtime/`, `B/` for `packages/lenso-bun-plugin/src/`,
`C/` for `packages/lenso-cli/src/`, `R/` for
`packages/lenso-contract-runtime/src/` and `A/` for
`packages/lenso-process-protocol/src/`.

## Inventory of the system

| Part | State | Operations | Hard because | What makes it correct |
|---|---|---|---|---|
| Event scope, `W/scope.mjs` | flags, `pending`, `aborters`, `gates`, receipt | `operation`, `trackNative`, `attach`, `abort`, `invalidate`, `settled` | native promises settle whenever they like, aborts may be asynchronous and may fail, cleanup has a timer | a clean receipt means nothing is in flight; nothing is delivered after a receipt; an abort reaches all |
| Event runner, `W/runner.mjs` | generation, admission count, pending events, rotation queue, per-event deadline | `run`, `open`, session `invoke`, `cancel` and `closed`, abandonment, finalizers | results of replaced instances arrive late; deadlines, cancellations and traps race; a reset may fail | a generation is never replaced under an open event without rejecting it; stale scopes are fenced; everyone is answered |
| Process V1 child, `B/process-v1.ts` | active and retired ids, slot counter, waiters, control count | handshake, request, cancel, shutdown, `stop` | two listeners over one loop, a slot handed over in a `finally` | slots are conserved, an id is invoked once, nothing starts after stop |
| Bun Authoring V2 server, `B/v2.ts` | handshake, instance, active and retired ids, streams with sequence numbers, contexts, counters | initialize, construct, invoke, event.publish, stream.*, cancel, stop; calls, events and streams of the plugin at the host | limits and sequence numbers read before awaits, cancelled opens, a stop that sweeps a live map, budgets that shrink in transit | what the limits bound, contexts live as long as their work, ids served once, the two ends of a stream agree, scopes only narrow |
| Host process ownership, `C/host-owner.ts`, `C/host-app.ts` | handshake, pipe, timers, outcome; pending requests, terminal receipt | launch, start, inspect, stop, close | the owner, the pipe, the application and three timers end things in any order | everyone is told of the end; a failed start leaves nothing running |
| Legacy Bun server, `B/index.ts` | instance, active and retired ids, session | handshake, activate, request, cancel, shutdown, stop | `create` awaited between check and store; eviction of retired ids; overlapping shutdowns | instances are stopped, no provider's answer after a shutdown, an id comes back late |
| Workers plugin, `W/plugin.mjs`, `W/plugin-stream.mjs`, `R/stream.ts` | requests, opens under way, sessions, the flags of three layers of a stream | `invokeRequest`, `openStream`, `receive`, `send`, `closeSend`, `cancel`, `stop` | release races with the actions it serves; cleanup of an iterator answers late or never | the stop hook finds nothing running; an aborted stream gives its place back |
| HTTP transport, `W/http.mjs` | one response stream over one session | request body, pull, cancel, upgrade | transfer of the session to a socket while the request is aborted | a truncated response shows as an error; whoever reads is answered |
| WebSocket ingress, `packages/lenso-web-ingress-workers/websocket.mjs` | send queue, byte budgets, close state | message, drain, fail, close | slow peers, budgets, close handshake | queue and budgets hold, the frame in hand included |
| HTTP egress, `packages/lenso-http-egress-workers/event-fetch.mjs` | timer, controller, reader, the race being awaited | fetch, read, abort, timeout | abort and timeout race a fetch or a read that settles anyway | a response is whole; a clean receipt leaves nothing native behind |
| Timer domain, `W/clock.mjs` | map of ids, native timers | set, fire, clear, reset | the id wraps | ids in use are not reused |
| Host assembly, facilities, admission, settings, other `W/*.mjs` | grants with a cached adapter | grant, assemble | | |
| Contract runtime, `R/index.ts`, `R/browser.ts` | the scanner's stack of frames | validate, decode errors, convert failures | one pass must find every repetition that multiplies; errors nobody knows travel on | accepted patterns match in few ways; errors survive relays |
| Process protocol, `A/authoring.ts`; limits, proofs, targets | none | validators | lists are checked against each other in one pass, in two orders | what is accepted binds as declared; what is built is accepted |
| Generated bindings, `packages/lenso-bun/src/capabilities/*.ts` | none | clients and providers of 25 capabilities | answers cross plugins whose bindings differ in age | an answer is what the last plugin gave |
| Build, extraction, launcher, web client, scripts, fixtures | none that outlives a call | | | |

How they interact. A Workers request goes through the HTTP transport, which
creates a scope and calls `runner.run` or `runner.open`; the runner owns the
scope from then on: it aborts it, fences it and awaits its receipt. Egress and
WebSocket ingress register native work in the same scope. On Bun, the host
process talks JSON to one of three servers; the plugin talks back through
callbacks that carry the context of the work being done. The launcher starts an
application through a native owner process and controls it by messages inside
the owner's frames. The event runner and the scope share one event loop; so do
the two listeners of Process V1. All concurrency is therefore interleaving at
awaits, timers and abort listeners.

## Modules

| Module | Models | Built on |
|---|---|---|
| `ScopeLease` | abstract: what a scope promises its owner (open, closed, fenced; one receipt) | |
| `GenerationLease` | abstract: leases on a generation that is replaced when free or by ending every lease | |
| `CallWindow` | abstract: a window of calls, each run once, bounded, closed for good | |
| `EventScope` | `W/scope.mjs` | implements `ScopeLease` |
| `EventRunner` | `W/runner.mjs`, with the scope of each event abstracted to its lease | implements `GenerationLease` |
| `WorkersPlugin` | `W/plugin.mjs`, `W/plugin-stream.mjs` and the lowering `R/stream.ts` | |
| `WebIngress` | `W/http.mjs` and `websocket.mjs`: one request, over what the runner and the scope promise | |
| `HttpEgress` | `event-fetch.mjs`: one scoped fetch, over what the scope promises | |
| `WorkersClock` | `W/clock.mjs` | |
| `ProcessV1` | `B/process-v1.ts` | implements `CallWindow` |
| `BunAuthoring` | `B/v2.ts`: the life of work, streams, contexts and the plugin | |
| `BunStreams` | `B/v2.ts`: both ends of one stream and the calls the host relays between them | |
| `AuthoringInit` | `validateInitialize` of `A/authoring.ts`, the comparison with the definition, the binding and the use of clients and endpoints (`B/v2.ts`) | |
| `AuthoringWire` | the messages of nested calls, built by `B/v2.ts` and read by `A/authoring.ts` | |
| `LegacyPlugin` | `startPlugin` of `B/index.ts` | |
| `Capabilities` | the 25 files of `packages/lenso-bun/src/capabilities/` as data: operations, streams, error codes | |
| `CapabilityCall` | the two templates those files are instances of, and `R/index.ts`, over relays | `Capabilities` |
| `PortablePattern` | the pattern scanner of `R/browser.ts` beside the number of ways to match | |
| `OwnedProcess` | `C/host-owner.ts`: no behaviour of its own, its steps are composed by the next one | |
| `HostApplication` | `C/host-app.ts`, over the process it launched | `OwnedProcess` |
| `MC*` | the sets and symmetries of the instances; one `.cfg` per run | |
| `*Proofs` | the theorems about the module of the same name; `WorkersProofs`, `BunPluginsProofs` and `ContractsProofs` about the parts of `MCWorkers`, `MCBunPlugins` and `MCContracts` | |

The composition is by assume/guarantee: `EventScope` is shown to implement
`ScopeLease`, and `EventRunner` contains only the lease of each scope: its `life`
moves by what abort(), invalidate() and settled() do to a lease and by nothing
else, so what is shown of the runner holds whatever native work a scope has.
`WebIngress` stands on the runner's side of that contract in the same way (a
session ends, its scope first, and fails with the receipt), and `HttpEgress` on
the scope's: an abort closes the scope and aborts the operation in one step, as
`dispose()` of the runner makes it do before `settled()`.

`MCWorkers`, `MCBunPlugins` and `MCContracts` put parts that share no state into
one instance; a behaviour explores one part and leaves the others in their first
state.

### Correspondence with the code

*A step* is a handler from one await to the next. JavaScript runs it undivided,
so it is one action; a handler with awaits is one action per segment, and
everything else may happen in between. A message that is refused without
changing any state is no action.

* `EventScope`. `op[o]` is one use of `scope.operation`: `running` until its
  native promise settles, `completed` until the reaction `finish` ran. The code's
  `pending` is `Live`, the tracked aborts (`aborting`) and the promises adapters
  hand to `trackNative` (`extra`); `aborters` is `Live`. `settlement = "draining"`
  is a `settled()` in its race with the cleanup timer. `failed` and `certified`
  are history: the aborts that failed, and those that had run when a clean receipt
  was issued.
* `EventRunner`. `phase` is the promise of `execute`: `waiting` in the rotation
  queue, `admitted` until `resolve` or `reject`, `settled` until its `finally`
  runs, `finalizing` while `scope.settled()` is awaited. `work` is the Wasm side,
  which goes on after the promise is rejected. `gen` is the local `admitted`.
  The rotation at line 92-96 has no action: `IdleIsRetired` shows, and
  `EventRunnerProofs` proves, that its condition does not arise.
  `MicrotasksDrained` guards what is a macrotask (a timer): the reactions that
  are ready run first.
* `ProcessV1`. `granted` is the await between `acquireDataSlot` and the
  provider; `invoked` and `stopping` are history variables. The branch of
  `acquireDataSlot` with neither slot nor place has no action: `SlotsConserved`
  excludes it.
* `OwnedProcess` and `HostApplication`. A frame of the owner is one step. `owned`
  is the promise of `launchOwnedProcess`, `ownership` the outcome of `closed`,
  `timer` the startup or the cleanup timer. `pending` is the code's map of ids and
  `request` the promises: the two part when `send` throws. `notified` is the
  reaction that tells the listeners of the outcome; it was registered first, so
  all others come after it. A stop ends its wait with an answer to its id or with
  the terminal message; the shutdown it reads from either is left out.
* `BunAuthoring`. A correlation id, the context made for it and, for an open,
  the stream it yields are one name. `aborted` are the contexts whose
  `AbortController` fired. `closing` and `sweeping` are the awaits inside
  `#cancelStream` and inside the loop of `#stop`: `Stop` goes to the first stream
  it has to await (`SweepsNext`) or, if there is none, in the same step to the hook
  (`SweepEnds`). The streams the plugin opened at the host, which stop cancels
  before, belong to `BunStreams`. A publication refused by a limit is `refused`: its
  context is in the map, and no plugin code has seen it.
* `BunStreams`. `job` is the call the host relays for an action: calling, being
  served, answered. The consumer's `closed`, `sendSequence` and `cancelling` and
  the provider's `entry` and `nextSequence` are the fields of the code; what is
  left out is content, half closes and closes of the sending side. A receive that
  meets another is queued, as a session the provider wrote itself may do, or fails,
  as the lowering of the build makes it.
* `LegacyPlugin`. An activation is `creating` while `create()` is awaited, and a
  shutdown carries the instance its hook was called for. `since` counts what
  `retire` evicts.
* `WorkersPlugin`. The iterator of the provider answers its `calls` in order; the
  lowering's flags (`cut`, `finished`, `cleanup`, `closed`) and the session's
  (`physical`, `released`, `uncertain`, `actions`) are separate fields, since the
  reactions that carry one to the other are steps. `turns` are the yields a
  `finally` block makes.
* `WebIngress`. `handler` is where the async function of the request is, `body`
  the response stream with the pull it awaits, `socket` the closure of the
  transport. The lengths of chunks and frames are numbers. A socket is accepted
  whether or not its scope admits the native operation (`tracked`), and the platform
  may refuse to close it (`closeThrows`).
* `HttpEgress`. `race` is the `Promise.race` the transport awaits, with the first
  of its two promises that settled; `natives` and `cancels` are what the scope
  tracks. Whether the injected Fetch errors the body its signal aborts is a
  variable (`heeds`), as Fetch requires it and a replacement may not do it.
* `WorkersClock`. `timers` is the map, `native` the timers the platform holds.
* `AuthoringInit`. One step reads one element of a list, as the pass over it does;
  the two orders (code units for declarations, `localeCompare` for routes) are two
  sequences of the ids.
* `AuthoringWire`. A message is a record with the fields the code writes; time is a
  number, a text is the widths of its characters, and the id of a scope is the
  lengths of its parts: each hop adds `:outbound:` and a number. `clock` is
  `performance.now()` of all plugins and `transit` how long requests were on their
  way.
* `CapabilityCall`. One client and one provider binding of a capability meet, with
  relays between them; `old` names the hops whose binding does not know the newest
  error code. A value is known by whether it is portable.
* `PortablePattern`. A step is a token of the pattern. The counts of ways run
  beside the scanner's flags and are read by the properties only.

## Runs

All runs but `event_scope` switch deadlock checking off: a history in which
every event, request or message of the instance was used ends, as it should.
The scope can always be aborted again, so there it stays on.

Each component's `Safety` is the conjunction of its type invariant and of the
named invariants listed here; the proofs treat them one by one.

| Run | Instance | Shows |
|---|---|---|
| `event_scope` | 2 operations, capacity 1 | `Safety` (clean receipts are sound, late abort failures included; an abort reaches all), the lease is implemented, nothing is delivered after a receipt, `settled()` answers |
| `runner_lease` | a session and a request, retirement, ceiling and queue at 1, failing resets | `Safety`, refinement, everyone is answered |
| `runner_sessions` | 2 sessions and a request, retirement at 1, ceiling 2 | `Safety` (fencing, ownership of traps, deadlines, count, queue, retirement), success is complete, generation changes |
| `runner_stale` | as `runner_sessions` | finding: a cancelled session leaves a deadline |
| `process_v1` | 5 ids, one timed, 2 slots, queue 1, retired limit 2 | `Safety` (slots, one invocation, retired ids), window, no waiter lost |
| `host_application` | 3 inspections, room for 2, 2 revisions | `Safety` (everyone is told of the end, failed starts stop the process), the start is answered, the end reaches everyone |
| `bun_authoring` | 1 invocation, 3 opens, 2 events, 1 call, limits 2, 1, 2, 1, 1 | `Safety` (what the limits bound, contexts), ids, cancelled opens |
| `bun_calls` | 1 of each | finding: calls with the context of finished work |
| `bun_stop` | 1 of each | finding: stop with an event in progress |
| `bun_plugins` | a stream with 2 sends, 2 receives and a message; a legacy server with 3 ids, 2 activations, 2 shutdowns | the ends of a stream agree on sequence and end, a failure is final, an abort reaches the provider; instances are stopped, no provider's answer after a shutdown, an id comes back only after `maxRetiredRequestIds` others |
| `workers` | 2 streams and a request of a plugin; a response of 2 units and a socket with 2 frames queued; one fetch of 2 units; 3 timers on 3 ids | bounds hold with opens under way and the frame in hand; the stop hook finds nothing running; truncation shows; a fetched response is whole and a clean receipt leaves nothing of it; timers stay reachable; aborted streams leave; readers are answered |
| `contracts` | 25 capabilities over 2 hops; patterns of 8 tokens, depth 3, strings of 4; 2 declarations, 3 routes, 2 endpoints; chains of 3 plugins, time and budget 3, tokens of 256, first ids of 36 and 234, parts of 11 and 12 | answers and domain errors survive relays; accepted patterns match in few ways; clients are bound as declared; scopes only narrow; which of the server's own messages the validators refuse; where the text of a failure is lost |

Why the bounds are enough. The defects at stake are relations between two or
three actors: one that holds, one that waits, one that arrives. Three events
with a ceiling of two admissions rotate twice, so a late result can be two
generations old. Five ids on two slots and a queue of one fill both, leave one
refused and one that comes after a transfer. Three opens against a stream limit
of one with two active show both overruns `WorkBounded` allows. Two sends are
enough to overlap; two receives to have one wait behind another. Three timers on
three ids wrap the allocator with the map full. Three routes over two
requirements show every order violation and a cardinality of each kind. Two
relays separate what happens once from what happens at each hop. A pattern of
eight tokens holds two nested groups with a bar and a repetition in each
position. A first id of 234 characters outgrows a token at the second hop with
parts of 11 and 12 or fits it exactly with two of 11; one of 36 always fits. The
full rotation queue of the runner is the one boundary no run reaches (it takes three
events at a ceiling of one, and liveness beside them is too much): `QueueBounded`
rests there on its proof. Proofs remove the bounds for what they cover.

Message sets are finite because every message has an identity and is used once
(or, where the code must refuse it, again): `Events`, `Ids`, `Publications`,
`Calls` bound the length of a history; `MaxSessions` and `MaxServed` do for the
legacy server, where ids return. `HardLimit` and `QueueCapacity` are 96 and 32 in
the code, `FirstControlCapacity` is 32, `CleanupTurns` 16, `MaxId` 0x7fffffff,
`DetailLimit` 1024 and `TokenLimit` 256, which the runs use as it is; `PartLengths`
are the lengths of `:outbound:` with a number of one or two digits, and
`LongestPart` bounds them; the other limits are options. `generation` is an integer that
the events of the instance bound: each abandonment or retirement takes an
admitted event.

### Fairness

* `EventScope`: weak fairness of the cleanup timer only (`setTimeout`,
  `scope.mjs:144-160`). Native work may hang for ever; `SettlementAnswers` holds
  all the same.
* `EventRunner`: weak fairness of armed timers, of the polls of waiters (a
  bounded loop with `setTimeout`) and of finalizers, whose await ends because
  `settled()` does (`SettlementAnswers`). Wasm work has none: `EveryEventEnds`
  covers the work that hangs.
* `ProcessV1`: weak fairness of the segment after a slot is granted, a promise
  reaction. Providers have none; that every invocation ends is a premise written
  into `NoWaiterLost`.
* `HostApplication`: weak fairness of the three timers and of promise reactions.
  The owner, the pipe and the application have none: `StartAnswers` holds if they
  never speak, and `EndReachesEveryone` takes the end, or a stop of the process,
  as its premise. A stop whose application stays silent is not bounded by the
  code, and no property says so.
* `BunAuthoring`, `LegacyPlugin`, `HttpEgress`, `WorkersClock`: none, only safety
  is claimed.
* `BunStreams`: the host answers an open, and a cancel that was called is relayed
  and served. Sends, receives and the iterator have none (`AbortReachesProvider`
  holds while a send hangs).
* `WorkersPlugin`: weak fairness of promise reactions, and of the iterator's
  answers to the calls it was given. The second is an assumption on the plugin:
  without it cleanup has no bound in the code, and `stop()` throws rather than
  run the hook.
* `WebIngress`: weak fairness of the runner's deadline and cleanup timer and of the
  handler's reactions, and of a client that keeps reading. The application owes a
  read only when its session ended cleanly.

## Proofs

All are about the specifications as they stand, with the assumptions the modules
name: finite sets of events, ids, messages and timers, and limits that are positive
(the code checks the options; `validatePeerLimits` and `validateLimits` require it
of peers). Texts are sequences of characters of one to four bytes; a repetition
has two natural bounds, the first not above the second (the code's unbounded one is
`Unbounded`, a number); the ids of requirements form a sequence and a definition
has finitely many dependencies, as arrays and objects do. Three only keep names
apart: no action of a stream is called `cancel`,
no activation of the legacy server has the name of a stage of its life, and the
error code that stands for any code no binding was generated with (`Surprise`) is
none of the generated ones.

| Module | Inductive invariant | Why the properties alone are not inductive |
|---|---|---|
| `EventScopeProofs` | types, `FlagsAgree`, `CleanMeansQuiet`, `CancelReachesAll` | an operation could start after a clean receipt unless every flag that ends admission implies `closed`, and the receipt could hide a failed abort unless every one of them set `cleanupFailed` |
| `EventRunnerProofs` | types, `MembersCurrent`, `WorkOwned`, `LeaversFenced`, `PhasesAgree`, deadlines, empty when unavailable, `IdleIsRetired`; beside it `EndsAgree`, `FinalizingClosed`, the count of admissions and the bounds of the queue | the fence of stale scopes needs every pending event to be of the current generation, and every one that left to be fenced as it leaves |
| `ProcessV1Proofs` | types, `SlotsConserved` with `WaitersQueued`, `RoomToRetire`, `InvokedOnce`, `StopReachedAll` | the count of slots needs the queue to be free of repetitions; the bound on retired ids needs active and retired together |
| `BunAuthoringProofs` | types, `RoomLeft`, `Shares`, `ContextsFollowWork`, `SweepIsFinal` | the overrun of a limit is bounded only for streams plus opens under way, and for retired plus active ids |
| `HostApplicationProofs` | types, `WaitersMapped`, `EndsAgree`, `NobodyLeftWaiting`, `NoneUnattended` | nobody waits after the end only if whoever waits is in the map, and an end is reported only when sends already throw |
| `WorkersProofs`, `WorkersPlugin` | types, `StreamsKept` (each stream's three layers of flags agree, and its place is counted while it is opening, held or its iterator alive), `Staged` | the hook finds nothing under way only if a stream that gave its place back has an iterator that ended or is reported as unconfirmed |
| `WorkersProofs`, `WebIngress` | `Hosted`, `BodyOK`, `SocketOK`, `TruncationShows` | the budgets hold only if queue, bytes and the frame in hand are one account (`Waiting`); a body is closed as complete only if the pull that waited for the session to end had read the complete end |
| `WorkersProofs`, `HttpEgress` | types, what is timed, asked, raced, native and tracked for each stage of a call, `EgressSafety` | a response is whole only if the race that is awaited knows which of its two promises settled first |
| `WorkersProofs`, `WorkersClock` | types, `TimersReachable` | the id found is free because a map that holds only armed timers has room for one that is not |
| `BunPluginsProofs`, `BunStreams` | types, `Unopened`, `ActionsKept`, `Counts`, `InOrder`, `EndsKnown` | both ends agree on a sequence number only while no call failed and sends did not overlap; between them stand the answers the provider gave and the consumer has not seen (`Owed`) |
| `BunPluginsProofs`, `LegacyPlugin` | `Stages`, `Remembered`, `RequestsKept`, `NoneForgotten`, `Bound` | instances are all stopped only if at most one activation creates at a time, or a race was recorded; an id is old only by its position in the list of retired ones |
| `ContractsProofs`, `CapabilityCall` | `CallTyped`, `EntryHolds`, `ErrorsKept`, `OutcomesTraced` | a domain error survives a relay only if it is known, at every hop, which clients below knew its code |
| `ContractsProofs`, `AuthoringWire` | `WireTyped`, `ScopesNest`, `RequestNests`, `IdsGrow`, `OnTheWire`, `AtTheClient`, `WireFits` | deadlines narrow only if the scope of a request under way would nest whenever it arrives; a failure is traced only in the normal form it has on the wire and in the form each client gives it; a relayed text is refused only if its first writer cut it too late, so what a client returned must be short enough to be relayed without a cut |
| `ContractsProofs`, `AuthoringInit` | `InitInv`, and `BindingInv`: `Ordered`, `Numbered`, `Found`, `Apart`, `Promised`, `Counted`, `Matched`, `Connected` | one pass over a list checks an entry against the one before it and against the other list; only together do they say that the routes kept for a dependency are those of its requirement, in its order and as many as it may have |
| `ContractsProofs`, `PortablePattern` | `PatternInv`: bars are shared out among the open frames (`Stacked`), and each frame's flags say of its ways what `FrameHolds` states | ways multiply along a branch, so they stay below the bars only if each frame has bars of its own and at most one part of a branch has no single length |

Proved of every instance:

* `EventScope`: `Safety` (types, `CleanMeansQuiet`, `CancelReachesAll`),
  `NothingAfterReceipt`, capacity, refinement of `ScopeLease`.
* `EventRunner`: types, `StaleScopesFenced`, `TrapsComeFromMembers`,
  `EveryEventHasDeadline`, `UnavailableIsEmpty`, `IdleIsRetired`, the whole of
  `Safety`, `SuccessIsComplete`, `GenerationWaitsOrRejects`,
  capacity, refinement of `GenerationLease`.
* `ProcessV1`: `Safety` (types, `SlotsConserved`, `InvokedOnce`,
  `RetiredBounded`), `NothingStartsAfterStop`, refinement of `CallWindow`.
* `BunAuthoring`: `Safety` (types, `WorkBounded`, `ContextsFollowWork`),
  `ServedOnce`, `CancelledOpensNothing`.
* `HostApplication`: `Safety` (types with the bound of the map,
  `NobodyLeftWaiting`, `NoneUnattended`).
* `WorkersPlugin`: types, `StopFindsQuiet`, and that iterators alive and opens
  under way stay within the limit. `WebIngress`: types, `TruncationShows`, the
  bounds of a socket. `HttpEgress`: `EgressSafety`. `WorkersClock`:
  `TimersReachable`, for every width of the id. With these, `Safety` of the
  isolate.
* `BunStreams`: `StreamSafety`, `FailureIsFinal`. `LegacyPlugin`: `LegacySafety`,
  `NoAnswerAfterShutdown`, `IdsComeBackLate`.
* `CapabilityCall`: `DomainErrorsSurvive`, `AnswersAreGiven`, over any number of
  relays. That client and provider of every generated binding agree on the switch
  of each operation is a lemma of 25 cases (`BindingsFit`).
* `AuthoringWire`: `ScopesNarrow`, `FailuresRelayed`, `RefusedExactly`, for chains of
  any length, any budget, any limit of a detail or of a token and any text; and that
  a request is accepted as long as the id of its scope is a token, which it is in
  every chain that is not deep for its first id (`RequestsAreAccepted`).
* `AuthoringInit`: `BoundAsDeclared`, for any lists of declarations, routes and
  endpoints and any definition.
* `PortablePattern`: `PatternUnambiguous`, for patterns of any length and depth,
  strings of any length and any repetitions.
* `CapabilityCall`, `AuthoringInit`, `AuthoringWire`: types (`TypesOK`). What
  `PortablePattern` needs of its types is in `PatternInv`.

Bytes of a text, ways to match and the routes kept for a dependency are recursive
functions over the length of a list. The library's induction theorems take a
predicate, which the provers cannot instantiate, so `ContractsProofs` first derives
from the well-foundedness of the naturals what the others rest on, with sets in the
place of predicates: `Induction`, `Recursion` (a function with a given first value
and step exists) and `Unrolled` (so does one up to a bound).

A safety property follows from the invariant by propositional temporal reasoning;
an action property from a lemma `IInv /\ [Next]_vars => [A]_vars`; a refinement
from one step lemma per action, under the mapping written beside the property.
The refinements are of the safety part: the abstract modules state no fairness.
`NothingStartsAfterStop` and the capacities are proved and not checked by a run of
their own. `CallWindow` forbids what starts after a stop, so `process_v1` covers the
first; the capacities are counts that the guards of admission keep.

Only model-checked: liveness (`SettlementAnswers`, `EveryEventEnds`,
`NoWaiterLost`, `StartAnswers`, `EndReachesEveryone`, `AbortReachesProvider`,
`AbortedLeaves`, `ReaderIsAnswered`), which is out of the prover's reach. Every
safety property a run checks is stated by a theorem. The three findings are
counterexamples and need no proof.

## Findings

1. `W/runner.mjs:204`. `cancel()` of a published session passes its guard while
   the event's finalizer awaits the scope; `onAbort` arms a timer after the only
   `clearTimeout` of the finalizer, and when it fires it abandons a generation
   although the cancellation had settled in time (run `runner_stale`).
2. `B/v2.ts:448`. An invocation's context is never forgotten, unlike those of
   construct, events, failed opens and stop. A plugin that keeps it passes the
   guard "Host calls require the active invocation context" after the invocation
   was answered (run `bun_calls`).
3. `B/v2.ts:867`. `#stop` refuses "unfinished work" but does not look at event
   publications, nor at work admitted while it awaits the streams; the stop hook
   runs beside them (run `bun_stop`: with an event in progress and no stream open,
   stop reaches its hook without an await).

## Observations

What the models showed of the code beside the findings. Where a property has to
allow for one of these, the property's comment says so.

* `B/v2.ts:1186-1190` cuts the detail of a failure in bytes and decodes it, so a
  character cut in two becomes U+FFFD, three bytes long, and the detail may exceed
  the 1024 bytes that `A/authoring.ts:1159-1165` allows; `B/process-v1.ts:560` cuts
  between characters. `RefusedExactly` states the two cases in which a server's own
  answer is refused; the other is `accepted: false`, which `#cancel` answers for a
  finished call and `A/authoring.ts:773-779` does not take.
* The text of a failure is lost when it crosses a request client: the wire failure
  becomes the `detail` of an error and then "[object Object]". Events and streams
  keep it (`FailuresRelayed`).
* Two sends of one stream that overlap can both be accepted under one sequence
  number; the consumer never compares the number of what it receives; after a
  runtime failure it forgets the stream without a cancel, and the provider keeps
  its entry until it stops (`BunStreams`).
* Two legacy activations that overlap both call `create()`, and the first instance
  is never stopped; two shutdowns call the hook twice; `stop()` calls no hook
  (`LegacyPlugin`, `raced`).
* In `validateInitialize` declarations are sorted by code units and routes by
  `localeCompare`, so with ids that differ in `_` against a digit the two lists
  need different orders. Two endpoints of one capability can leave a second
  declared provider without an endpoint (`AuthoringInit`).
* A domain error that an older relay does not know as a string arrives as an object
  even at a caller that knows the string (`DomainErrorsSurvive`).
* The id of a scope grows by `:outbound:` and a number at every hop (`B/v2.ts:1124`),
  and the protocol takes tokens of at most 256 characters (`A/authoring.ts:281`, 443):
  a chain of nested calls that is deep for its first id, some twenty hops for one of
  36 characters, ends in a request the host refuses (`RefusedExactly`, `ChainIsDeep`).
* An upgrade whose scope is closed, or has all the operations it may have, is answered
  by 101 all the same, with a socket the scope does not track: no abort closes it and
  no receipt waits for it (`AcceptedSocket`).
* Receives of one stream that are under way when another one tells of a failure may
  still answer its regular end; only what starts later is refused (`FailureIsFinal`).
* A socket whose session ends cleanly without a close from the application is not
  closed by the transport; an upgrade whose response cannot be created leaves the
  native operation to the cleanup timeout (`WebIngress`).
* A response whose head is refused is aborted by its signal only. With a Fetch that
  ignores the signal, a reader that is cancelled between a chunk and its reaction
  ends as if the body did, and the shortened body passes for whole; Fetch forbids it
  (`ResponsesAreWhole`, `heeds`).

## Not modelled

Proof bytes and digests, JSON shapes, token syntax and wording, request and
response bodies: abstracted to what the handler does on acceptance and on
refusal. The schema keywords and formats of `R/browser.ts` are pure functions on
strings. `W/facilities.mjs`, `W/host.mjs` and the admission modules check plain
data and wire it together in synchronous code; `A/validate.ts`, `A/proof.ts` and
`A/execution-target.ts` check data too. Build, extraction, declarations, the
launcher and the web client keep no state that outlives a call. What the Rust
host and owner do (they are not in the repository) is any sequence of messages.
The body of Wasm and of providers is arbitrary: it may settle, fail, trap or
hang. Two `initialize` requests that overlap are actions of `BunAuthoring`, but no
property speaks of them: the code does not say what the second may change.

## Plan

The modules, runs and proofs that were planned are written. The order was: the
scope and the generation of an isolate with their abstract leases, the child process
and its host, the Bun servers, the Workers plugin and transports, the contracts.
Liveness stays with TLC. A next step would be a model of what extraction declares
against what `AuthoringInit` assumes of a definition.
