# StarlingMonkey: TLA+ models

StarlingMonkey is a JavaScript runtime for servers and WebAssembly components,
built on SpiderMonkey. It runs a script once, keeps its global, and dispatches
each incoming HTTP request to it as a `fetch` event. This directory models the
parts of it that carry its own protocols (the event loop and its drivers, the
fetch event, the WHATWG streams, bodies, fetch(), events and signals, the module
loader, both servers, the rooting of values), checks them with TLC on small
instances, and proves what matters most about the event loop, its drivers, the fetch
event, the rooting of values and both servers with TLAPS, for every size.

Paths below are relative to `src/crates/`.

## The system

Everything runs on one thread. A native server accepts connections with tokio
and hyper; every request gets an **event loop** of its own, and the loops are
cooperative tasks of the executor: one runs from an `.await` to the next. But
all requests share **one JavaScript global and one microtask queue** (except in
isolated mode), so the reaction of one request's promise can run in the turn of
another request's loop. Most of what is hard in this code comes from that, or
from author code that runs in the middle of a builtin.

| component | state | operations | interacts with | what is hard |
|---|---|---|---|---|
| event loop (`core-runtime/src/event_loop.rs`, `event_loop/timer.rs`) | task entries, ready and timer indexes, JS timer map, nesting level | queue, cancel, signal_ready, set/clear timer, `step` | calls task handlers, which call back | handlers cancel tasks of the frozen batch; intervals re-queue themselves; order across batches |
| loop drivers (`run_until`, `event_loop/interest.rs`, `js/src/promise.rs`) | interest count, listener, pending and active futures with owner and waker | drive, park, wake, poll, settle, cancel, stop | executor, all other loops | lost wakeups; starvation of futures; work of one loop touched in the turn of another |
| fetch event (`builtins/fetch-event`, `libstarling/src/serve_common.rs`) | the event's flags, potential response, pending promise count | dispatch, respondWith, waitUntil, time limits, abort, drain | event loop interest, AbortSignal, Response | a time limit racing the response; author code between settling and sending; promises settled in another request's turn |
| WritableStream (`builtins/web-streams/src/writable`) | state, queue, write requests, in-flight requests, ready and closed promises | write, close, abort, release, start/write/close settle | underlying sink, strategy, AbortSignal | author code in the middle of write() and abort(); abort against in-flight operations |
| ReadableStream (`web-streams/src/readable`): default and byte controllers | state, queue, read requests, pull-into descriptors | read, pull, enqueue, respond, close, cancel, release | sources | reentrant pull; buffers whose reader has left |
| tee, pipeTo, async iteration, read-all (`web-streams/src/readable`) | readers, flags, promises of their own | pull and cancel of branches; shutdown; next() and return() | both kinds of streams | two branches; shutdown with an action against pending writes; calls that wait behind each other |
| TransformStream (`web-streams/src/transform`) | backpressure and its change promise, finish promise | transform, flush, cancel, abort, terminate | both streams | cancel against flush; who ends first |
| bodies (`web-fetch/src/{incoming,outgoing}_body.rs`, `body_mixin.rs`, `body_proxy.rs`) | a source, a stream, a host body; a channel, a pump | extract, clone, consume, materialize, pull, push, forward, cancel | streams, transport | who holds the body; end, error and cancel against each other |
| headers (`web-fetch/src/headers.rs`, `algorithms.rs`) | a list and its guard | append, set, delete, fill, iterate | Request, Response | values that are combined past a safelist |
| fetch() (`web-fetch/src/{globals,transport,abort}.rs`) | an owned future, the chain of URLs | start, redirect, deliver, abort | loop drivers, HTTP client | abort against delivery; what follows a redirect |
| events and signals (`web-globals/src/{events,signals}`) | listener lists, dependent signals | dispatch, abort, any(), timeout() | everything | listeners changed during dispatch |
| native server (`libstarling/src/serve_native.rs`) | connections, background work, realms | accept, keep-alive, body pumps, shut down | hyper, fetch event | outcome of bodies; capacity and shutdown with work outstanding |
| WebAssembly server (`libstarling/src/serve_wasm.rs`, `platform/src/clock.rs`) | startup state, clock offset | start up, wait, serve, pre-initialize, snapshot, resume | host, Wizer | the driver of the startup is dropped; clocks over a snapshot |
| module loader (`core-runtime/src/module.rs`) | registry | resolve, load, link, evaluate, clear | engine, loop | one instance per file, failures part-way, globals |
| rooting (`js/src/gc/{pool,scope}.rs`) | root stack, private pages | enter, root, drop, collect | everything | scopes dropped out of order |

What makes each of them correct, in short: the event loop runs what is ready, in
order, and nothing that was cancelled; a driver neither misses a wakeup nor ends
with work left; a request gets the response that was given for it in time,
unchanged, and lives for as long as its lifetime promises and no longer; a stream
hands every chunk on once and in order, calls its sink or source by the rules, and
answers every promise; a body is read once and whole, or whoever reads it is told;
credentials stay at their origin; an abort takes hold; a callback that was removed
is not called; a file is one module of a global; a rooted value is traced.

The `hazards` of `PROJECT.json` list the places where these can go wrong.

## Modules

Every module has one operator or action per function of the code, named after it
where TLA+ allows, and keeps the code's state as one record `s` (the event loop,
the drivers, the fetch event and the pool have separate variables). The streams'
modules work alike: an abstract operation of the standard, as the code has it, is an
operator from record to record, composed as the functions call each other. Where an
operation calls author code in the middle, a **frame** on a stack keeps the rest of
it, and any call may come before the frame is resumed. Reactions and microtasks are
**jobs**, in the order they were queued, where that order matters. A
`debug_assert!`, `expect` or `unwrap` of the code is conjoined to `ok`.

### Event loop and requests

**EventLoop** models `TaskQueue`, the JS timer map, `timer.rs` and `step`. Tasks
are the numbers the code gives them; an entry is the record of `TaskEntry`, and
`ready` and `timers` are the two indexes beside it, updated by `Insert`, `Remove`
and `MarkReady` as in the code. A step is `StepBegin` (expire timers, freeze the
batch), then per task `StartTask`, whatever its handler does, `FinishTask` and
`DrainMicrotasks`, and `StepEnd`. While JavaScript runs (`JsRuns`) it may queue,
signal, cancel, set and clear at any point. Time is a counter that `Tick`
advances.

**LoopDriver** models `run_until` for several loops on one thread. It counts tasks
(what a step does with them is EventLoop's subject) and models the driver's
control point by point: the step, the two stop conditions, the yield and poll
after progress, and the await with its timer, its listener and its futures.
`where[f]` says in which of PromiseTls' two sets, or in which local variable of a
poll, a future is; a future in a local variable is not found by
`has_pending_futures` or `cancel_pending_future`, as in the code.

**FetchDispatch** models the life of a request: the event's flags and counts, the
phases of `dispatch_fetch` and `finish_request`, and the reactions, which run in
any request's turn. Every stretch between two awaits is delimited by `active`; it
ends only when no reaction is queued (`JobsQueued`), because every one of them
ends in a microtask checkpoint. `Program` is what author code may do in such a
stretch. `settledAs`, `drainedAs` and `readers` are history variables: `settledAs` are the headers
at the moment the promise passed to respondWith settles (`SettleRespond`), `drainedAs` those at
the end of the checkpoint in which its reaction ran. The headers that are sent are copied between the
two, by the reaction (`OnRespondFulfilled`), and the code that resolved the promise may edit them
before that.

### Streams

**WritableStream** has the stream with its controller and writers. The two calls
that run author code in the middle, `write()` (the strategy's `size()`) and
`abort()` (the signal's listeners), leave a frame.

**SinkProtocol** is the abstract specification of what a sink may rely on: `start`
first, one call at a time, chunks in the order they were written and once each,
`close` only after all of them, and nothing after `close` or `abort`.
WritableStream implements it (`SinkCallsInOrder` of MCStreams, a refinement).

**ReadableStream** models default controllers and default readers. `size()` runs
in the middle of `enqueue()`, the source's `cancel()` in the middle of `cancel()`,
and `pull()` in the middle of everything that makes room, so that a `read()` has
its chunk in hand while `pull()` runs (`InHand`). Reads and chunks are numbered in
the order of their calls. `accepted`, `asked` and `readInSize` are history. If
`size()` itself makes a read that has to wait, the standard's algorithm, which
the code follows, queues the measured chunk behind the waiting read, and a later
chunk overtakes it; `ChunksInOrder` makes this one exception.

**ByteStream** is its counterpart for byte controllers with both kinds of readers:
pull-into descriptors against the byte queue, `byobRequest` and its responses,
`min`, element sizes, automatic allocation, and buffers that a reader leaves
behind. Bytes are numbered, so that none can be lost or doubled unseen.

**SourceProtocol** is what a source may rely on: no `pull()` before `start()` has
succeeded, one at a time, none after the stream was closed, errored or cancelled;
`cancel()` at most once and only before the stream is over. ReadableStream and
ByteStream implement it (`SourceOrder`).

**Tee** and **ByteTee** are `tee()` for the two kinds of streams. Tee keeps of its
source and branches what the tee can see. ByteTee takes its three streams from
ByteStream (INSTANCE), because it changes readers on the source and reads into the
buffers of its branches.

**PipeTo** is `pipeTo()`: its reads, its deferred writes, the propagation of the end
of either side, the abort signal, and the shutdown that waits for pending writes,
performs its action and finalizes.

**TransformStream** ties the two sides with the backpressure flag and its change
promise, and one finish promise for `close()`, `abort()` and `cancel()`. A chunk goes to a read
that waits, whatever is queued, or through `size()` into the queue; `size()` is a frame of the
identity transform's enqueue too. As in ReadableStream, a read made from within `size()` lets the next
chunk overtake the one being measured, and `IdentityInOrder` excepts this case (`overtaken`) from
the order and from the limit of the queue.

**Iteration** is a stream made `from()` an iterable (an array, a synchronous
iterator that is wrapped, an asynchronous one), read by the stream's own async
iterators or all at once.

### Bodies and fetch()

**BodyOwners** says who owns what a Request or Response holds: bytes, a stream that
several may share, or a host body; with the constructors, `clone()`, `.body`,
`text()` and its kin, `fetch()` and the reservation for a response.

**HostBody** follows one body that is still on the host through its holders: the
owner, the source of its stream and the pull whose answer is deferred, a read of
everything, a proxy in another Request, an identity transform, the transport. The end of
`next_chunk()` (`ChunkRead`, `ReadFails`: the poll of the future) and `deliver_chunk` (`DeliverChunk`,
`DeliverEnd`, `DeliverError`: its settlement) are separate steps, with author code but no microtask
between them, as `poll_pending_futures` and `settle_completed_futures` have it. Without an event
loop (`LoopLeaves`) a pull, a deferred pull and `text()` are refused, each at its place in the code.

**BodyPump** is a body on its way out: `run()` of the pump, which reads until it would
wait, sends batches through the channel or waits for room, and behind the channel the
component's writer, with the loop that drives both. A chunk is one unit.

**Headers** is a header list with its guard: what may be appended, set, deleted,
what is combined and iterated, and what the constructors fill.

**FetchCall** is one call of `fetch()`: the schemes, the redirect loop with tainting,
credentials and body, the response, and the abort at every point. The transport's future is done
in one step and settled in another (`SettleFuture`). Between them, and while a poll holds all
futures, `cancel_pending_future` does not find it; FetchCall and HostBody have such an abort (`late`).

### Events, modules, rooting

**Events** has the listener lists and the dispatch over a snapshot of ids, abort
algorithms, `any()` with its source and dependent signals, and timeouts. The targets
are the signals.

**ModuleLoader** has the registry keyed by canonical path, the load hook, linking and
evaluation by the engine, failures at each of them, dynamic imports and globals.

**HandlePool** has the root stack and the private pages of scopes that were left by
nested ones, with the intrusive list, the free lists, and drops in any order. A
collection is not an action: what no traced slot refers to is `"dangling"` at once,
which is every moment at which it could come.

### Servers

**NativeServer** is the accept loop with its capacity, the requests of a connection
one after the other, the work they leave behind, realms, and shutdown. **RequestBody**
is the pump of a request's body with its budget, its limits and its reader;
**WireBody** the framing of a response, the producer of its body, and hyper, which
polls and drops it. **WasmServer** is the component: the startup that one request
drives while others wait, the host that drops requests, `pre_initialize`, the snapshot
and the clock after it.

### How they compose

The modules of a program this size cannot run in one state space. Where two parts
meet, one of three things connects them: an abstract protocol that one implements and
the other is written against (SinkProtocol, SourceProtocol); an INSTANCE (ByteTee
takes ByteStream's operations); or the part of the neighbour that can be seen, kept
in the record of the module and named in its header (FetchDispatch is driven as
LoopDriver's loops are; PipeTo and TransformStream keep of their streams what they
look at; BodyPump has both ends of the channel).

`MC*` modules give the constants their values (those of MCHost are in its
configurations). **MCStreams**, **MCWeb** and **MCHost**
put several specifications into one run: `kind` says which of them a behaviour
follows, and a property `kind = "x" => ...` is about that one. This keeps a question
that concerns all streams (do the asserts hold? is everybody answered?) one property.

**LoopDriverProofs**, **FetchDispatchProofs**, **WasmServerProofs** and **NativeServerProofs** have
the theorems about the modules they are named after, **RuntimeProofs** those about EventLoop and
HandlePool, which share nothing, and **WritableProofs** the invariant of WritableStream with a
lemma for each of its operations. **StreamsProofs** is about MCStreams and lifts that invariant to
what the run checks, the refinement of SinkProtocol included. **HostProofs** is about MCHost, which
takes the two servers from their proof modules: it lifts their invariants likewise, and proves
those of RequestBody and WireBody.

## Runs

| run | instance | shows |
|---|---|---|
| `event_loop` | 3 tasks, timeouts below and above 0, clock to 2 | the indexes and the timer map agree with the entries; a cleared timer never starts; timers start in deadline order, non-timers first, nested timers wait; a ready task runs although intervals re-queue themselves |
| `loop_driver` | 2 loops (one driven until no interest is held, the other stoppable), 2 futures (one of which may be unowned), 1 handle, cancellation across loops | no wakeup is lost, also when the last thing to wait for goes; no loop is given up with work left; futures settle in their owner's turn; a stopped loop drops its futures |
| `loop_driver_live` | 2 loops, 1 future, 1 timer | completed futures settle, ready tasks and expired timers run |
| `fetch_dispatch` | 2 requests, 1 lifetime promise, 2 responses (one with a null body), 1 edit each; a dispatch limit on one request and a drain limit on the other | a body is consumed once, and the headers sent miss no edit from before the response's promise settled and have none from after its microtask checkpoint; counts match promises and waitUntil holds; a response given in time is sent, and an abandoned one holds nobody |
| `streams` | the stream modules, instances in MCStreams | asserts; writes, reads, bytes and branches are served; chunks go through pipes and transforms; the protocols of sinks and sources; pipes settle |
| `web` | events, headers, fetch(), bodies, modules, rooting; instances in MCWeb | abort signals and listeners; header safelists; credentials, bodies and abort of fetch(); host bodies and owners; module instances; roots |
| `host` | body pump, request and response bodies, connections, component start-up, and a writable stream under fairness; instances in MCHost | order and outcome of bodies; connections stay in step; realms nest and slots return; the startup has a driver; whoever has nothing left to wait for ends |
| `fetch_dispatch_foreign` | waitUntil in another request's turn | **violated**: Findings 1 |
| `reserved_body` | a host body that author code touches after respondWith | **violated**: Findings 2 |
| `request_body_truncated` | a reader slower than the read timeout | **violated**: Findings 3 |
| `second_initialization` | `pre_initialize` called twice | **violated**: Findings 4 |
| `iterator_released` | three calls of an async iterator | **violated**: Findings 5 |

### Bounds

Two loops, or two requests, are what it takes for one to act in the turn of another;
three requests of the component are one that drives and two that wait, so that a dropped
driver leaves more than one behind. Three tasks allow one to run, one to be cancelled
by it and one to come in between; a clock of two ticks separates a timer that is
due, one that becomes due during a batch and one that does not. Three chunks are
one in flight, one queued and one being written; two writers are one released and
its successor. Three reads are one whose chunk is in hand, one that waits and one
made by the author code in between. Two chunks are enough for a tee or a pipe, which
hold one while another is on its way. Four bytes and views of one and of two elements of
two bytes let a fill stop short of the minimum, inside an element and past one. Three
origins are the requester's, the one a redirect goes to, and another to come back from.
Three signals are a source, one that depends on it and one that depends on that. Two
files, imports in both directions and two globals give cycles, failures and a registry
that has to be cleared. Three scopes are what an unlink from the middle of the
intrusive list takes; with pages of two slots and one kept allocation every path of the
free lists is taken.

Larger instances, too slow to run every time, were checked once without an error: ByteTee
with more views (1.1 million states), Events with four calls and timeouts (3.4 million),
Iteration with more calls (1.1 million), BodyOwners with four owners and seven
calls (9.8 million).

`CHECK_DEADLOCK FALSE` is set where the system may stop: all requests are over, all
loops have ended, a stream is closed.

`Careful = TRUE` in `streams` and `web` keeps author code from the few things with which
the asserts or the promises of this code are known to fail (each is under Findings, and in the head
of its module). Everything else author code may do stays possible, and the runs that
expect a violation set it to `FALSE`.

### Fairness

- EventLoop: weak fairness of the dispatch (`step` goes on, handlers return). None
  of what handlers do.
- LoopDriver: weak fairness of a turn (it runs to its next await), strong fairness
  of resuming a woken driver and of a sleep that elapses (the executor runs what
  was woken, though other loops come first any number of times), and that the
  JavaScript of a poll returns.
- FetchDispatch: weak fairness of reactions and of the end of a stretch (microtasks
  are drained, JavaScript returns), strong fairness of the end of a drain: the
  release of the last handle wakes the driver, which is what LoopDriver checks. No
  promise of a program is assumed to settle.
- PipeTo (in `streams`): jobs are drained, and the sink settles what it returned. Neither
  the source nor the author owes anything: a pipe must settle once an end is over.
- In `host`: author code of a writable stream returns and its sink answers; the pump and
  the writer of a body are polled, a `pull()` returns; the pump of a request's body is
  polled and its clock runs, but neither the client nor the reader does anything; the
  producer and hyper are polled. These are the tasks that the executor holds.

## Proofs

The theorems hold for every value of the constants, under the assumptions that the
modules state of them (and that TLC evaluates): names are distinct, sets of loops, futures,
requests and connections are finite, limits and bounds are numbers.

| module | theorems | what the runs check |
|---|---|---|
| RuntimeProofs (EventLoop) | `TypeCorrect`, `IndexesNeverDrift`, `TimerIdsNeverDrift`, `ClearedTimersStayCleared`, `TimersTakeTheirTurn` (from `TimersStartInOrder`, `NonTimersStartFirst`, `NestedTimersAlwaysWait`) | all safety properties of `event_loop` |
| LoopDriverProofs | `TypeCorrect`, `DriversAreWoken`, `DoneIsDone`, `FuturesAreKeptApart` | all properties of `loop_driver` |
| FetchDispatchProofs | `TypeCorrect`, `ResponsesSentOnce`, `LifetimesCounted`, `SettledIsSent`, `OwnLifetimesHonoured` | the invariants of `fetch_dispatch`, and one half of `AnsweredInTime` |
| RuntimeProofs (HandlePool) | `PoolTypeCorrect`, `RootsStayRooted` | `RootsStay` of `web` |
| WritableProofs | `StreamStaysConsistent` | through StreamsProofs |
| StreamsProofs | `WritesAreAnswered`, `NoWritableAssertFails`, `StreamImplementsSinkProtocol` | `WritesAnswered`, `SinkCallsInOrder` and the writable part of `StreamAsserts` of `streams` |
| WasmServerProofs | `TypeCorrect`, `StartupInOrder` | through HostProofs |
| NativeServerProofs | `TypeCorrect`, `ServerInOrder` | through HostProofs |
| HostProofs | `ServerKeepsItsOrder`, `StartupIsAlwaysDriven`, `RequestBodyStaysInStep`, `ResponseBodyStaysHonest` | all invariants of `host` except `PumpedInOrder` |

None of these properties is inductive by itself. Each module strengthens it to an inductive
invariant (`IInv`, `PoolInv` of HandlePool, `StreamInv` of WritableStream, `RequestBodyInv` and
`WireInv` of HostProofs) and proves that the initial
states have it, that every step keeps it, and what follows from it. TLC checked each of them
on the instances of the runs before it was proved.

**EventLoop** adds to the types and to `IndexesAgree` and `TimerIdsMatchTasks`:
`Allocated` (every id in the queue, in the batch or running was handed out, so a new task
never takes the place of an old one, nor of the running interval that will come back under
its id), `RunsAlone` (the running task is neither queued nor in the rest of the batch),
`TimerIdsOnce` (a cleared timer id has left the map, and no queued task has that of the
running timer) and `BatchOrder` (no queued timer is due before one that has started, and what
is left of the batch comes before every timer that is not in it). One lemma per action rests
on what `Insert`, `Remove` and `MarkReady` do to the indexes; the action properties follow
from the invariant and from the fact that only `StartTask` starts a task.

**LoopDriver**: one loop at most has the thread (`OneTurn`); futures are out of PromiseTls
only during a poll or its settlements, and then only those that the polling loop may drive
(`FuturesInPlace`); the interest count is the number of handles. For the wake-ups the invariant
says what a driver that listens in its await has *armed*: it is notified of what is due, it is
the waker of each pending future it may drive (`WakersRegistered`), and it waits for something
(`WaitsForSomething`). The actions of *other* loops are what this has to survive.

**FetchDispatch**: how far a request, its promise and its response have come agree
(`RespondsOnce`), the headers copied and sent are those that the given response had at some moment
from the settling to the end of the checkpoint (`HeadersKept`), a Response has
one taker (`OneTaker`), and reactions are queued only while some loop is active
(`TurnsDrained`), which is why a timer's abort cannot overtake one. `LifetimeHonoured` is false
in general (Findings 1): `OwnLifetimesHonoured` proves it if `waitUntil` is only called in the
turn of its own request, which makes the finding's cause the only one.

**HandlePool**: the levels of the root stack ascend and each scope has a live one; a handle
lies above the base of its scope's level, or in a page of its private allocation; the list of
allocations is doubly linked and reaches every allocation a scope owns, however scopes were
unlinked from it; and no page has two owners or is both owned and free.

**WritableStream**: the operations of `algorithms.rs` call each other, and the stream passes
through states in the middle of them that no caller sees, so the invariant is in three parts.
`Always` holds between any two operations: the sink's call and the in-flight requests agree
(`SinkCall`), an abort that waits will find the sink's `abort()` in place (`Erring`), a
promise is pending exactly while what it stands for waits (`Pending`), and a writer waits only
for a stream that can still answer (`WriterWaits`). `Open` holds while the stream is writable: the
queue is the chunk in flight, the waiting chunks and the close (`Queued`), what was accepted is what
was written followed by what waits (`InOrder`), and what no longer waits was written without an error
(`Resolved`). `AtRest` holds when the call is over: whatever could go on went on. `Suspended` says of the
`size()` calls in progress that they are for chunks nobody has accepted yet, which is what author code
that calls `write()`, `abort()` or `releaseLock()` in the middle could break. One lemma per
operation (`FinishErroring`, `UpdateBackpressure`, `AdvanceQueueIfNeeded`, ...) tells which parts it
needs and which it restores, and what the sink sees of it; a step of SinkProtocol is then
read off (`ServingIsProtocol`).

**WasmServer**: a request drives exactly while `STARTUP` says that one does (`DriversMatch`), the
loop of the startup is owned until it is done (`StartupInPlace`), and the clock's offset is what
the snapshot recorded (`ClocksAgree`). The one exception is a second `pre_initialize` (Findings 4).

**NativeServer**: whether the loop is at capacity is what it remembers, and the connections in
flight stay within the limit (`CapacityKnown`); in isolated mode there is one request at a time,
with its realm, its loop and its work (`OneRequest`); without it, loops, connections and work
agree (`LoopsReleased`).

**RequestBody**: every piece is in its place, with the reader, in the channel, in the frame at
hand or not sent yet, so what the reader has is a prefix (`FrameIsRest`, `ChannelFollows`), and an error
is the last item of the channel. **WireBody**: the chunks on the wire, in the channel, with the
producer and with the source are numbered consecutively (`WireInOrder`), what was taken and what
remains add up to the declared length (`WireInLength`), and hyper's view of the end is that of
the producer (`WireEnds`). In these two the steps are first told by what they do to the fields
(`NextRequestBodySteps`, `NextWireSteps`), and the invariant is proved of those.

Only model-checked: what MCStreams says of the other streams (`StreamAsserts`, `ReadsServed`,
`BytesServed`, `BranchesServed`, `NoChunkLost`, `TransformInStep`, `SourceOrder`), the invariants of
MCWeb other than `RootsStay`, and `PumpedInOrder` of MCHost, which joins what is queued with
`FlattenSeq`, and what that computes takes an induction over the sequence. Out of reach of
the prover are liveness (`loop_driver_live`, `AbandonedDontHold`, `NobodyWaitsForever` and the
like: it would need ENABLED), facts that need induction over data, and what recursive operators compute.

## Findings

Shown by a run that expects a violation:

1. `drain_lifetime_work` (`libstarling/src/serve_common.rs:127`) says it waits out the
   promises passed to `waitUntil`. The interest is taken on the loop that is active,
   so a `waitUntil()` in a continuation that runs in another request's turn extends
   that other request instead (`fetch_dispatch_foreign`). In the same situation
   `WaitUntilHolds` does hold: some request waits for the promise.
2. `reserve_body_for_sending` (`web-fetch/src/response.rs:727`) has nothing to lock when
   the body is still on the host: author code that touches `.body` afterwards reads it,
   and the response goes out without (`reserved_body`). The cause is that `.body` and
   `BodyMixin::consume` (`body_mixin.rs:142` and `:186`) take a host body without asking
   whether it is used; `new Request(event.request, {body})` followed by
   `event.request.text()` gets there as well (BodyOwners with `Careful = FALSE`).
3. A request body whose reader is slower than the read timeout is cut off without an error
   (`request_body_truncated`).
4. A second `pre_initialize` leaves `Startup::Driving` with nobody who drives
   (`second_initialization`).
5. The async iterator forgets its ongoing promise although a later call waits behind it;
   calls then overlap, and the reader's second release panics (`iterator_released`).

Met while modelling, without a run of their own. The first group is stated in a module and can
be reproduced by giving it to TLC:

- `cancel_pending_future` (`js/src/promise.rs:693`) says that dropping a future
  "lets the event loop exit once nothing else is pending". From another loop's turn it
  wakes nobody, and the owner stays parked. `NothingLeftWakes` of LoopDriver makes this
  one exception. Dropping an interest handle does notify the owner, for this very reason.
- A future spawned with no loop active (owner 0) is polled by every loop, and its completion
  wakes only the loop that polled it last. A loop that waited for nothing else is not woken
  when it settles: the second exception of `NothingLeftWakes`. `NoLostWakeup` speaks of
  owned futures only.
- `SentAsSettled` of FetchDispatch: `potential_response_headers` is said to be "The header list
  `potential_response` had when `respondWith`'s promise settled"
  (`fetch-event/src/fetch_event.rs:44`), a copy taken "before content had an opportunity to change
  the headers in the meantime" (`:433-435`). The copy is made by the reaction (`:312`), so the code
  that resolved the promise, and jobs queued before the reaction, may still change what is sent. What
  does hold is `SentFromCheckpoint`.
- `AbortClosesConnection` of FetchCall and `AbortDropsBody` of HostBody: `abort_body` is said to
  "stop the host read, cancelling an in-flight chunk read and dropping any unread host body, which
  closes the connection" (`web-fetch/src/response.rs:490-492`). An earlier settlement of the same
  turn may run author code (the `pull()` or `cancel()` of a stream that is pumped,
  `web-fetch/src/outgoing_body.rs:468-493`), and so may the poll of another future. If that code
  aborts, `cancel_pending_future` (`js/src/promise.rs:693`) looks through two sets that do not have
  the future. The promise rejects and the algorithm is detached; then the settlement
  builds a Response around the open connection all the same (`web-fetch/src/globals.rs:167-178`), or
  `deliver_chunk` puts the host's body back into the source of the errored stream
  (`web-fetch/src/incoming_body.rs:426-428`). Nobody can abort again, and the connection stays
  open until the objects are collected. That the author sees neither the response nor the chunk is
  what `AbortTakesHold` and `Released` check.
- `CancelEndsRead` and `AbortErrorsStream` of HostBody: a cancel or an abort in the middle of a read
  of the host's body finds the body in the future that reads it, and ends neither the read
  nor the stream at once.
- `FullBodyIsSent` of BodyPump: a body that filled its declared length while its stream
  is still open is reported as abandoned if its author is done before the stream ends.
- `PumpIsBounded` of RequestBody: the pump that has an error to tell waits for room in
  the channel with no limit (`README.md:140` of the repository promises one).
- With `Careful = FALSE`: in Events, `stopPropagation()` before `dispatchEvent()` fails
  the assert of `start_dispatching` (`web-globals/src/events/event.rs:296`); in
  ModuleLoader, an initializer script that imports the entry makes a second instance
  of it; in ByteStream, a BYOB buffer left behind with automatic allocation, or with a
  source that responds to it while default reads wait, fails
  `debug_assert_eq!` at `web-streams/src/readable/algorithms.rs:671`; in TransformStream,
  `enqueue()` fails the assert at `web-streams/src/transform/algorithms.rs:634` when one
  piece of author code fills the readable, empties it and enqueues again.
- `ClosedBranchesAnswer` of ByteTee has an exception: when close steps find a buffer of
  the other branch inside an element (`readable/algorithms.rs:2735`), reads into buffers of
  the branch that was closed first are never answered.
- A `read(view)` behind a buffer that its reader left does not call `pull()`.
- `pipeTo()` looks at its ends in the order in which reactions run: if the source closes
  and the destination fails in the same turn, which of them is propagated depends on it.
- The doc of `EventLoop::notified` says the future
  completes on its first poll if the notification came before it was created. A
  notification with no listener is lost; LoopDriver models it so, and `NoLostWakeup`
  holds because every turn looks at the queue again before it listens.

## Not modelled

`finish_pending_sends` in the drivers, because nothing in the repository registers a
send with a loop; `preventDefault` in the fetch event; the members of RequestInit that only set a field.
Finalization jobs run at the start of a microtask drain, where JavaScript may do anything
in the models already. The class and conversion layer and the macros have no
protocol of their own; URL, encoding and the like are data conversions; the rest of the platform
layer is the outside world, whose answers are free. Author code inside an iterable's `next()`
that calls the same stream, a chunk with a `then` of its own, or a `then` getter on
Object.prototype, are left out of the streams; so is running out of memory. Wording, logging
and the origins recorded for diagnostics are left out everywhere.

## Plan

What is left is to prove more: `NoReadForgotten` of ReadableStream and that it implements
SourceProtocol; then the invariants of Events.
