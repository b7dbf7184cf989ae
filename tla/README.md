# A TLA+ model of atasks

`atasks` turns coroutines into remote ones: a decorated coroutine is called
through a *reference*, which hands the call to a *router*, which hands it to a
*transport* (AMQP, or a loopback inside the process). On the other side another
router receives it and runs the coroutine. Three patterns share this path: `@atask`
(RPC), `@atask_queue` (an event for one worker) and `@atask_broadcast` (a message
for every subscriber).

The modules here are a model of that code, translated from `src/atasks/`. TLC checks
it on small instances; TLAPS proves every safety and action property the runs check, and all three
refinements, for instances of every size. What is left to TLC is under "Only model-checked".
`PROJECT.json` lists the runs, the source lines behind every definition, the hazards each
property is aimed at, and for each property a mutation of the model that breaks it.

Run everything from this directory:

    tlc -workers 2 -config AmqpClientShared.cfg MCAmqpClient.tla
    tlapm AmqpClientProofs.tla

## The system

| Part | State | Operations | Talks to |
|---|---|---|---|
| `AMQPTransport`, calls (`transport/backends/amqp.py`) | `_connection`, `_channel`, exchanges, response queue, `_awaiting_requests` (one future per call), one `asyncio.Lock` | `connect`, `disconnect`, `send_request`, `publish_event`, `publish_broadcast`, response handler, close callback | the broker; the router above it |
| `AMQPTransport`, queues | `_request_consumers`, `_event_consumers`, `_broadcast_consumers` | register and unregister a name, `_on_message`, `_on_event_message`, `_on_broadcast_message` | the broker; router callbacks |
| `LoopbackTransport` (`transport/base.py`) | callback tables | the same interface, run inside the caller's task | router callbacks |
| `Router` (`router.py`) | `server`, `_activated`, three registries, `client` | `activate`, `deactivate`, `register_atask*`, `send_*`, `_on_*`, `_call_coro` | a transport for each direction, a codec, `trace` |
| `trace` (`trace.py`) | context variables `CURRENT` and `ENTRY_FRAME`, `__atask_trace__` on exceptions | `push_hop`, `enter`, `leave`, `attach` | references (caller side), router (callee side) |
| decorators and references (`tasks.py`, `refs.py`) | none of their own | register a coroutine, make a reference | router, trace |
| `Registry`, namespaces, codecs | dictionaries | set and get per namespace; encode and decode | everybody |
| `service` process (`commands/service.py`) | what it connected, activated and started | `aiomain`: connect, start options, load, activate, run, listen, shut down | all of the above |
| self-watchdog, health endpoint, systemd heartbeat | a thread; an HTTP server; a task | probe the loop; answer; notify | the event loop, the OS |
| `cli.py`, `commands/refs.py` | none | argument parsing; generating reference modules | |

What makes it hard:

* **Shared futures.** The response handler, three ways of failing all calls at once, a
  timer and a cancellation race for one future, while its table entry is created,
  popped, or swapped away with the whole table.
* **One lock, many ways out.** Publishing, connecting and disconnecting exclude each
  other, and each can end by return, by exception, or by a `CancelledError` that may
  be real or an artefact of the AMQP library.
* **Acknowledge, then handle.** Messages are acknowledged before the handler runs. That
  avoids waiting for one's own prefetch slot and trades away redelivery after a crash;
  a lost acknowledgement still redelivers.
* **State read again after an await** in `activate` and `deactivate`, next to other tasks
  and with transport calls that fail half-way through a list.
* **Context that flows two ways.** Over loopback a handler runs in its caller's context, over
  AMQP in a fresh one; the call chain has to come out the same.
* **A namespace that can be replaced.** `Router()` puts a new router and new registries into
  it while an older router serves; handlers are looked up in the registry of the moment.
* **A thread beside the loop.** The watchdog's thread and the loop share three objects without
  a lock, and `stop()` blocks the loop while the thread waits for the loop to answer.
* **Shutdown after partial failure** of a process that has up to a dozen things to take down.

## The modules

| Module | Models | Composition |
|---|---|---|
| `RpcContract` | what `Transport.send_request` promises, for any transport | abstract specification |
| `EventContract` | what `Transport.publish_event` promises: queued events are processed, once more for every failure at most, and only a crash loses one | abstract specification |
| `AmqpClient` | one `AMQPTransport` as a client, with the broker and the worker side as far as they share its lock, table and connection | implements `RpcContract` (`Contract == INSTANCE RpcContract`, property `ImplementsContract`) |
| `AmqpClientProofs` | theorems about `AmqpClient` | extends it |
| `AmqpDelivery` | several processes, each a transport with registrations, around one broker | implements `EventContract` (property `ImplementsEvents`) |
| `AmqpDeliveryProofs` | theorems about `AmqpDelivery` | extends it |
| `EventContractProofs` | that `AmqpDelivery` implements `EventContract` | extends `AmqpDeliveryProofs` |
| `RouterActivation` | `Router.activate`, `deactivate` and registration, over transports that may raise | |
| `RouterActivationProofs` | theorems about `RouterActivation` | extends it |
| `Namespaces` | one namespace: its router, its registries, the declarations of decorators, `Router()` | |
| `Loopback` | `LoopbackTransport`, the router that activates on it, and calls of references through both | extends `Namespaces`; implements `RpcContract` as well |
| `LoopbackProofs` | theorems about `Loopback` | extends it |
| `CallChain` | a call from reference to handler and back, with its trace | references, router, loopback and AMQP in one module |
| `CallChainProofs` | theorems about `CallChain` | extends it |
| `Service` | the `atasks service` process | |
| `ServiceProofs` | theorems about `Service` | extends it |
| `SelfWatchdog` | the `--self-watchdog` thread, the loop it probes and `stop()` | |
| `SelfWatchdogProofs` | theorems about `SelfWatchdog` | extends it |
| `MC*` | constants for TLC | extend the module they are named after |

In every module an action runs from one `await` to the next. asyncio is single threaded, so
this is the granularity at which things interleave inside a process; between processes
only the broker's steps are shared. `SelfWatchdog` is the exception: its two threads can be
preempted between any two statements that touch what they share. History variables (named so in their comments) record
what properties are about and never appear in the guard of an action of the code.

### AmqpClient

`pc` gives each task its place in the code: `lock` (waiting at `async with self._lock`),
`publish` (inside it), `wait` (awaiting the future), `timingout` and `cancelling` (the
future is cancelled and the coroutine has not resumed yet), and the outcomes. `fut` and
`awaiting` are the futures and the keys of `_awaiting_requests`. `attrs` says how far
`connect()` got in assigning attributes, which is what a second `connect()`, `disconnect()`
and the publishing code look at. `link` and `closedCb` are the robust connection: a loss
schedules `_on_connection_closed`, and reconnection comes after it. `wire` is what the broker
did with a publication, `inbox` a response on its way through the response queue,
including the `await message.ack()` before it is correlated.

The manager is whoever calls `connect()` and `disconnect()`. Either may be cancelled while it waits
for the lock (`CancelManager`), and either may leave its critical section by an exception or a
cancellation: `ConnectRaises` with as many attributes as were assigned by then, `CloseRaises`
(`await self._connection.close()`) with all of them, over a link that is closed or not. A publish
that finds the attributes and a closed link raises.

The broker is external and may confirm, return, or lose a publication, and answer late or
more than once. The worker side of the instance is present as `serving`: `_on_message`
publishes its reply without the lock, and a failure of that publish fails every call in
flight. `TellsCancel` is whether `Task.cancelling()` exists (Python 3.11), on which
`_task_was_actually_cancelled` depends.

### AmqpDelivery

Queues are named by what they are bound to: `<<name, None, 0>>` for the shared durable queue of
an RPC or task-queue name, `<<name, instance, k>>` for the anonymous exclusive queue that a broadcast
registration declares, where `k` counts the earlier registrations of that name whose consumer the
instance left behind (`serial`). After an unregistration that raised, and another registration,
the instance has two queues, both bound to the name. A delivery is `unacked` until the broker has processed its acknowledgement;
`ackSent` is the acknowledgement in between, which a connection loss takes away. `tasks`
holds the running `_on_*message` coroutines by phase. `registering` splits a registration at
the await between declaring the queue and consuming from it. `consumers` is what the broker,
or the robust connection that will restore it, believes; `registered` is what the
transport's dictionaries say, and `forgotten` the consumers no dictionary knows any more:
those whose tag had been popped when `queue.cancel` raised. `ConsumersMatch` says that the
two agree but for these. When a message comes again while an earlier task for it still runs,
the new task carries as `redelivery` the losses so far, which tells the two apart; nothing else
reads it. `runs` is a history variable: how often
a handler of each message was started. A process that calls `disconnect()` while it serves looks to the broker like one
that crashed, so there is one action for both.

### RouterActivation

`frame` holds the local variables of each suspended `activate` or `deactivate`: the phase, the
rest of the current list, the server the call in flight was made on, and what follows a
deactivation. `Continue` is the code from one transport call to the next, and reads `server`
and `activated` afresh as the code does. Names are visited kind by kind, in any order within
one kind (the registries are dictionaries whose order depends on registration).

### CallChain

`stack` is the coroutines of user code a task is inside of. Over loopback a call pushes a
frame on the caller's own stack and shares its context, over AMQP a task with an empty
context receives the message, any number of times. A hop is named by the index of the call
it was pushed for. An exception is the place it was raised at and its `__atask_trace__`;
pickling keeps both. `Path` is the reference definition of a chain, computed from
who called whom and not from the context variables.

`LiveStack` is what a task's stack of frames consists of at a call site: user code, and between
it the machinery - event loop, transport, router - whose innermost frame is
`Router._call_coro`, the boundary `ENTRY_FRAME` refers to. `AwaitFrames` is the walk of
`_walk_frames_until` over it, recorded with each hop. With a timeout and a Python older than
3.12, `asyncio.wait_for` runs a loopback's callback in a task of its own with a copy of the
context; the model has the later behaviour, one task, where more is shared.

### Namespaces and Loopback

`router` and `registry` are one item of the global `NamespaceManager`; routers are numbered as
they are made, and `NewRouter` replaces router and registries together, as `Router.__init__`
does, while the callbacks of an older router stay in the transport's tables. `Declare` is a
decorated function being imported. In `Loopback`, connecting and subscribing never wait, so
`Activate` and `Deactivate` are one step each. A call is a record that goes from `sending`
(arguments being encoded), over `decoding` and `running`, once for every callback a broadcast
found, to `encoding` and an outcome; `cause` is the exception that is unwinding it, which an
`except Exception` does not stop and a handler may swallow. A codec that fails returns `None`,
whose unpacking raises `TypeError`: `DecodeFails` on the handler's side, `Respond` on the caller's,
with the outcome `garbled`, which ends a publisher's loop too. `wiped` is history: a router was
deactivated while another was active, which empties the tables of both. A call keeps what `wiped`
was when it looked at the table, so that what happens during its handlers is not excused. The properties about tables and
functions hold while no second `Router()` replaced the first (`OneRouter`).

### Service

`mode` and `options` are the command line, chosen freely in `Init`. `pc` and `next` are a
position in `aiomain` and in the loop it is in; `At(stage, k)` says that the loop of that stage
has come to position `k`. Every step that may raise has a `...Fails` or
`...Raises` counterpart that jumps where the code's `except` or `finally` does; what it
leaves behind stays. The two `finally` clauses are stages of their own. The inner one cancels the heartbeat
first (`CancelHeartbeat`, stage `cancelling`), then deactivates the routers; the outer one
(`Stop`) stops the watchdog and the endpoint, and knows nothing of the heartbeat. What follows an
await that raises in either is skipped.

### SelfWatchdog

Time is counted in ticks; `timer` and `join` are what is left of the waits of the two threads.
A `Tick` passes only when both threads may let it: the loop's thread takes no time for code
that does not block, and the probing thread may be held up, after `stop()` for `MaxLag` ticks
at most. `ack` is the `threading.Event` of the current probe and `posted` its `set` among the
loop's callbacks; an older probe's event is of no use to anybody. `longest` is the longest
time the loop was silent, which is what an abort has to be justified by; `slept` is the time
the thread itself has waited since the loop hung, which `KilledInTime` bounds by `Deadline`.

## The runs

All runs use the definitions of the modules as they are. TLC explores them completely.

| Run | Instance | States | Shows |
|---|---|---|---|
| `client_shared` | 1 call with a timeout, 1 event or broadcast, 1 served request, manager; 3 connection generations | 269 057 | `TypeOK`; `LockDiscipline`, `ExchangePresent`: connect, disconnect and publishes exclude each other on every way out, a close that raises or is cancelled included; `LossReported`: no call is left pending on a connection that is gone; `NoPhantomCancellation`; `FutureSettledOnce`; `ImplementsContract` |
| `client_live` | 2 calls, one of them with a timeout, manager; 2 generations; `FairSpec` | 532 430 | `NoOrphan`, `NoLeak`: table entries and pending futures match; `TimedCallsEnd`; `LostConnectionEndsCalls` |
| `delivery_events` | 2 workers for an event; 1 drop, 1 crash, 2 unregistrations that may raise; `FairSpec` | 64 030 | `AtLeastOnce`, with the one exception the README of atasks documents; `ImplementsEvents`: an event runs at most once more per failure, and only a crash makes one disappear; `EventsHandled`: it is handled in the end, whichever worker comes and goes; `ConsumersMatch` |
| `delivery_mixed` | a worker with prefetch 1 and two nested requests for one name, another with a broadcast; 1 drop, 1 unregistration that may raise; `FairSpec` | 126 257 | `RequestsReplied`: no deadlock on the own prefetch slot; `BroadcastAtMostOnce`, over the two queues of an instance whose first unregistration raised; `NoJobNotFound` |
| `activation_lifecycle` | 2 tasks, 2 transports, 3 names of 2 kinds, 1 call that raises; `FairSpec` | 389 543 | `QuiescentMatches`: subscriptions equal the registry when nothing overlapped or raised; `OperationsEnd`: overlap and failures never make an operation run forever |
| `in_process` | 2 calls to choose from, one with a timeout, 1 of them made; 2 functions that declare one name, a queue of the same name, a broadcast; 2 routers; `FairSpec` | 278 760 | `TypeOK`; `ServesTheDeclared`, `RunsTheDeclared`, `FailuresAreOwn`; `BroadcastReachesAll`; `ImplementsContract`; `TimedCallsEnd` |
| `chain_paths` | 2 tasks, a loopback and an AMQP namespace with depth limits 2 and 3, 3 calls; task symmetry | 3 067 321 | `ChainIsCallPath`, `DepthBounded`, `TraceIsWhereItRaised`, `OneRootPerTrace`, `FramesOfOneHop` |
| `service_lifecycle` | 3 namespaces, 2 of them AMQP, 2 scenarios, all 27 modes and 8 sets of options; `FairSpec` | 81 844 | `ReleasesAll`, `ActiveIsConnected`, `NoLeftoverTasks`, `SignalEnds` |
| `watchdog_probe` | a period of 2 ticks, a timeout of 3, a kill delay of 1, a thread held up for at most 8; `FairSpec` | 2 412 | `NoFalseAbort`; `StopJoins`; `KilledInTime`: a loop that hangs is killed within `Period + Timeout + KillAfter` of the thread's waiting; `StuckIsKilled` |

### Why these bounds

* Three generations of a connection allow up, down and up again, which is what a stale
  publication or acknowledgement needs; a fourth repeats the third with other numbers.
  The proofs below have no bound.
* Two calls are what one call's failure needs to affect another; the event adds a holder of
  the lock without a future, the served request a failure without the lock.
* One loss and one crash in either order, with two workers, reach every combination of
  "acknowledged at the worker" and "acknowledged at the broker". Two unregistrations are one that
  raises and one of what was registered after it. Messages do not interact except through the
  prefetch slot, for which `delivery_mixed` has two on one worker; one unregistration, raised, is
  what a second queue of a broadcast subscriber needs. It has no crash: to a broadcast queue a crash
  is a loss, and `RequestsReplied` promises nothing after one.
* In `chain_paths` three calls give a call inside a call inside a call, over every mix of
  transports, and a limit that is met exactly, exceeded by a chain from a namespace with a
  larger limit, and not met. Two tasks are a caller and a callee, or a handler and a task it
  spawned. The tasks are interchangeable in the specification and in every invariant, and the
  run has no temporal property, so symmetry is sound.
* In `in_process` one call is enough, because calls share nothing they write but the router that
  `get_router` makes; what a call meets is declarations, activations and deactivations, of which
  any number may happen. Two routers are one that is replaced and one that replaces it, and
  two subscribers of a broadcast, each of which may leave or return while the other's handler runs.
* In `watchdog_probe` the timeout is longer than the period, so that `stop()` can come in every
  phase of a probe; `MaxLag` exceeds `Period + Timeout + 1`, so that a thread can be held up for
  longer than `join` waits. The proofs are for all durations.
* In `activation_lifecycle` two kinds, one with two names, exercise both loops; the third
  kind is a third round of the same loop.

Deadlock is checked where the system always has a next step (`AmqpClient`,
`RouterActivation`, `CallChain`). A service process ends, a watchdog kills it, a set of
delivered messages needs nothing more, and the calls of `Loopback` are bounded, so those
configurations turn it off.

### Fairness

* `AmqpClient`: asyncio runs every task and timer that is ready (`WF`), and its lock is first
  come first served, so a task that waits gets it (`SF`, because others take it in between).
  The broker confirms or returns what was published while the link is up, and
  `connect_robust` retries until it is back. Nobody is obliged to respond to a call, to
  connect, or to keep the link up. A publish that hangs forever on a live connection is thereby
  excluded; the lock is held during a publish and no timeout covers it, so one would block all
  callers.
* `AmqpDelivery`: an instance as a whole makes progress with its tasks, registrations and
  deliveries; which one comes first is open. A supervisor restarts a crashed process. If a name can
  be registered again and again, somebody does, whichever instance can: one that unregistered may
  leave it to the others for good.
* `RouterActivation`: transport calls return (or raise).
* `Loopback`: codecs return, timers fire, exceptions propagate. A handler need never end, nobody is
  obliged to activate or deactivate, and one that catches its cancellation for ever outlives
  its timeout (`TimedCallsEnd` says so).
* `SelfWatchdog`: both threads run and time passes. What blocks the loop need not end.
* `Service`: only `aiomain`'s own steps. Scenarios may run forever, and a signal may never come.

## Where the code and its documents disagree

Three runs expect a violation. Each checks one sentence of a docstring.

* `client_spurious_loss` (`LostOnlyWithConnection`). *Any* exception of a publish calls
  `_fail_awaiting_requests` (amqp.py:333, 393): a reply whose caller has gone away, or a
  response the codec turned into `None`, fails every unrelated call of the process with
  `ConnectionLostError` on a healthy connection. base.py:59-60 says the exception is raised
  "when the underlying transport connection to the broker is lost".
* `client_half_connected` (`ConnectMakesReady`). A `connect()` that fails after it assigned
  `_connection` leaves the next one returning at once, without exchanges or response consumer.
* `activation_reactivate` (`ActivateSubscribesAll`). `self.server` is assigned before the
  subscriptions are made and taken as proof of them by the next `activate()`.

Known limits that the passing properties state as exceptions rather than as findings:

* A process that crashes between acknowledging an event and starting its handler loses it
  (`AtLeastOnce`, variable `lost`). The delivery-semantics section of the README of atasks
  says so, tasks.py:67-69 only hints at it.
* A lost acknowledgement makes a second instance handle an event (`ImplementsEvents`), where
  base.py:212-214 says "never to more than one".
* After an `activate()` that raised, `deactivate()` does not know what had been subscribed,
  since `_activated` is recorded last (`QuiescentMatches` is about operations that did not
  raise).
* Code below a handler that was called by `router.send_request` directly starts a chain at
  seq 0 whose hop is not `is_root` (`OneRootPerTrace` excludes it).
* When disconnecting one transport raises, the ones after it stay connected (`ReleasesAll`).
* Nothing bounds a publish on a live connection. One that is never confirmed keeps the lock, and every
  caller with it, timeouts included (`TimedCallsEnd` assumes that it ends, see Fairness).
* A registration whose `consume` raises leaves its queue bound and unread. The next declaration of a broadcast
  takes its place in the model; in the code the old one stays beside the new one, read by nobody.
* Unregistration pops the consumer tag before it awaits the cancel (amqp.py:346). When that raises
  the consumer stays, unregistering again does nothing, and the instance keeps receiving, where
  base.py:199-200 says "Stop receiving RPC requests" (`ConsumersMatch`, variable `forgotten`).
* If that instance registers the broadcast again it declares a second anonymous queue (amqp.py:524,
  545-549) and handles every broadcast twice: `BroadcastAtMostOnce` allows one more copy for each
  unregistration that raised.
* Content that the codec turns into `None` (codecs.py:72-84) makes `router.py` raise `TypeError` where
  it unpacks it, and over a loopback that comes out of the call, or of the publish, whose remaining
  subscribers get nothing: base.py:271's "like a real fan-out" is about broadcasts that end without an
  exception (`FailuresAreOwn`, `BroadcastReachesAll`, outcome `garbled`).
* When activating or deactivating a router raises, or waiting for the cancelled heartbeat does,
  transports are disconnected under routers that are still active (`ActiveIsConnected` names these failures).
* `asyncio.gather` raises with the first scenario that fails and leaves the others running while
  routers and transports are taken down under them, where test_009_run_shutdown.py:115 says "with
  no leftover tasks" (`NoLeftoverTasks` is about runs in which nothing raised).
* A task that a handler spawns inherits an entry frame that is not on its own stack, so its hops
  record the event loop's frames too, and nothing else (`FramesOfOneHop`, field `spawned`).
* A second `Router()` of a namespace replaces its registries under the first, which then raises
  `JobNotFound` for names it still serves; deactivating one of two routers on a loopback takes
  the other's callbacks along. `OneRouter` excludes the first, `wiped` the second where it came before
  a broadcast was dispatched; the library itself makes a
  router only when there is none.

## What is proved

### AmqpClientProofs

For every finite or infinite set of calls, publishers and served requests,
every choice of timeouts and both kinds of runtime. The assumptions are those of `AmqpClient`:
the kinds of tasks are disjoint (`TasksAssumption`), `Timed` is a set of calls
(`TimedAssumption`), `MaxGen` is a number (`MaxGenAssumption`); nothing depends on its value.

| Theorem | Statement |
|---|---|
| `TypeCorrect` | `Spec => []TypeOK` |
| `MutualExclusion` | `Spec => []LockDiscipline` |
| `ExchangeThere` | `Spec => []ExchangePresent` |
| `NothingOrphaned` | `Spec => []NoOrphan` |
| `NothingLeaks` | `Spec => []NoLeak` |
| `LossIsReported` | `Spec => []LossReported` |
| `CancellationIsReal` | `Spec => []NoPhantomCancellation` |
| `SettledOnce` | `Spec => FutureSettledOnce` |
| `Refinement` | `Spec => ImplementsContract` |

The argument. None of the invariants is inductive alone. `LossReported` needs to know that a
connection is opened only when there is none (`LinkMatchesAttrs`) and that a task that has not
published has nothing on the wire (`WireFresh`); that the attributes are there during a publish
needs that only the lock's holder changes them (`LockDiscipline`); a call that unwinds as
cancelled has to have been cancelled (`CancelRecorded`). `IInv` is the conjunction of all of them
with `TypeOK`. `InitEstablishes` proves it of the initial states; preservation is split by what
is preserved: `TypePreserved`, `LockPreserved` (which needs the types only), `TablePreserved`
(the rest, given the lock), joined by `StepPreserves`. Each has one step per action.
`MutualExclusion` covers every exit of the three critical sections, `CloseRaises` and `ConnectRaises`
among them.

`SettledOnce` adds `FutureFresh`, that a call that has not got the lock has no future yet:
otherwise registering a future could overwrite a completed one. `Refinement` adds `Provenance`,
that a result, a response in the inbox, and an entry to an outcome have the cause the contract
asks for; it shows that `Init` implies the contract's, and that every step is one of the
contract's or leaves `status`, `answered` and the cancelled calls alone. The mapping sends every
`pc` that is neither `idle` nor an outcome to `inflight`.

### AmqpDeliveryProofs

| Theorem | Statement |
|---|---|
| `TypeCorrect` | `Spec => []TypeOK` |
| `ConsumersTracked` | `Spec => []ConsumersMatch` |
| `ServedWhereRegistered` | `Spec => []NoJobNotFound` |
| `BroadcastOnce` | `Spec => []BroadcastAtMostOnce` |
| `NothingForgotten` | `Spec => []AtLeastOnce` |
| `SlotsNeverWait` | `Spec => []SlotsFreed` |
| `RequestsAccounted` | `Spec => []Accounted` |

For any processes, names and messages, any tree of nested requests (`NamesAssumption`) and any
number of losses, crashes and unregistrations (`BoundsAssumption` says that the bounds are numbers,
not which). The runs have one event and two workers; the theorems have no such limit.

The inductive invariant follows the copies of a message and has four parts. `Placed` says where
things are: messages in queues of their own name, consumers at queues of their own instance, so
that a delivery is always to an instance that serves the name. `Single` adds to
`BroadcastAtMostOnce` that the one copy of a broadcast in an exclusive queue waits there, is taken by
a task or handled, and is in one of these only (`OneCopy`); a lost acknowledgement does not bring it back
because the queue is exclusive (`LoseCopies`). `Tracked` is what `AtLeastOnce` rests on when a
connection or a process goes: a task that has not acknowledged has a delivery that the broker will
requeue (`AckingUnacked`), into a queue that still exists (`SharedDeclared`), an acknowledgement on
its way belongs to a task about to run the handler or to an event already handled (`AckedTaken`),
and a task past that point has handled its message (`RunningHandled`). `PlacedPreserved`,
`SinglePreserved` and `TrackedPreserved` have one step per action; what several actions share is in
the lemmas before each (`FewerCopies`, `Untouched`, `LoseTracks`). A registration's number is new
because nothing anywhere refers to a queue with a higher number than `serial` (`Numbered`), which
never exceeds the unregistrations so far (`Counted`); that what an instance consumes from is registered or
left behind, by number, is `ConsumersHeld`, from which `ConsumersMatch` follows. `AtLeastOnce` is about events
and requests alike.

`Served` is what keeps nested requests from blocking each other. `SlotsFreed` says that a delivery
occupies its prefetch slot only while its acknowledgement is on its way or its task is about to
send it, and neither waits for a handler. `Answered` says that, while nothing was lost, what was
handled is replied to or about to be. With `AtLeastOnce` that gives `Accounted`: a request never
ends up where nobody will take it further. What remains to `RequestsReplied` is that somebody does,
which is fairness.

### EventContractProofs

| Theorem | Statement |
|---|---|
| `EventRefinement` | `Spec => ImplementsEvents` |
| `RunsArePaid` | `Spec => [](\A m \in Messages : Shared(m) => runs[m] <= 1 + drops + crashes)` |
| `DeliveriesApart` | `Spec => DeliveredApart` |

From the assumptions of `AmqpDelivery` alone. The contract lets an event run once, and once more
for every failure, and disappear only by a crash. The first is a matter of counting: `Paid` adds to
the runs so far everything that may still become one - the copy that waits in the queue or for its
acknowledgement (`Waiting`), and the acknowledged tasks whose handler has not started (`Acked`) -
and says that together they are at most one more than the failures. A step moves a copy from one
of these to the next, and one that brings back an acknowledged copy is a loss that pays for it. For
this a message must not be both queued and delivered, nor delivered twice (`OneDelivery`), and
one that was not routed must be nowhere (`Unsent`). That an event disappears only by a crash
follows from `Tracked`: `HeldIsPresent` equates `Held` with being anywhere, and `Kept` says of each
step but a crash that it stays somewhere until it has been handled. The lemmas prove for every
action what it does to `Present`, `Waiting` and `Acked`; `StepImplements` makes one step of the
contract, or none, of each.

`DeliveriesApart` says what the `redelivery` of a task is for: a delivery does not join the task of
an earlier delivery of the same message, so that no run goes uncounted. It rests on `Older`: a
message in a queue has been taken back by a loss since every task of it began.

### RouterActivationProofs

| Theorem | Statement |
|---|---|
| `TypeCorrect` | `Spec => []TypeOK` |
| `SubscriptionsMatch` | `Spec => []QuiescentMatches` |
| `OperationsTerminate` | `Spec => OperationsAdvance` |

For any sets of transports, names, kinds and tasks. `QuiescentMatches` says nothing while an
operation is under way, so the invariant has to say what is subscribed in the middle of one.
`FramesSuspended` says that a suspended operation has a transport call in flight. `OneOperation`
says that, while nothing overlapped and nothing raised, there is one operation at most, and the
subscriptions are what its loops have gone through (`Subscribing`), or still have to go through
(`Unsubscribing`), with the call in flight, or, at rest, all or nothing (`Quiet`). The lemmas
named `...Reaches` show that `Continue`, the code from one await to the next, leads from one of
these cases to another.

`OperationsTerminate` holds with overlap and failures too. Every transport call that returns brings
its operation closer to its end (`Closer`): it is over, or goes from deactivating to activating, or
to the list of a later kind, or on in the same list. It needs that the list a loop is in holds names
of one kind (`ListsOfOneKind`), although `_activated`, from which the next list is taken, may have
been replaced in between. The order is well-founded when the lists are finite, so an operation is
never kept going by others.

### LoopbackProofs

| Theorem | Statement |
|---|---|
| `TypeCorrect` | `Spec => []TypeOK` |
| `TablesMatch` | `Spec => []ServesTheDeclared` |
| `FirstDeclarationRuns` | `Spec => []RunsTheDeclared` |
| `CallsFailOnTheirOwn` | `Spec => []FailuresAreOwn` |
| `Refinement` | `Spec => ImplementsContract` |
| `EverySubscriberOnce` | `Spec => []BroadcastReachesAll` |

For any functions and names (`KeyAssumption`), calls, timeouts and bounds. The invariant adds
that the registries are empty before the first router and only a router that was made has a
server (`RoutersMade`), that what the only router recorded is what it subscribed (`Recorded`, so
that deactivation empties exactly the tables it filled), and that a call that found a callback
has a registered name (`KeysRegistered`), which declarations never take out again.

`Refinement` adds `Evidence`: a call that is encoding has an answer and one that is not has none, an
exception on its way up was raised by the call's own timer or by a cancellation on record; a call
that ended `garbled` had an answer or had none, and is a result or a missing route accordingly.
`CallImplements` goes through the steps of a call and shows that each is a move of the contract at
that call, `MoveImplements` that such a move is a step of the contract. `EverySubscriberOnce` adds
that the table for a broadcast is an enumeration of the routers that subscribed it
(`TableIsActive`), and that what a publisher's loop has run and what it has left make up what was
due at its dispatch (`Copied`, for each call that was not already wiped then: `CopiesMatch`), whatever
becomes of the table afterwards; this is an invariant over sequences that only grow at the end and shrink at
the head, and needs no induction over them.

### CallChainProofs

| Theorem | Statement |
|---|---|
| `TypeCorrect` | `Spec => []TypeOK` |
| `ChainsAreCallPaths` | `Spec => []ChainIsCallPath` |
| `DepthIsBounded` | `Spec => []DepthBounded` |
| `TracesAreLocated` | `Spec => []TraceIsWhereItRaised` |
| `OneRoot` | `Spec => []OneRootPerTrace` |
| `FramesAreOwn` | `Spec => []FramesOfOneHop` |

For any tasks, namespaces, depth limits and number of calls; `None` is not a sequence
(`NamespacesAssumption`). `ChainIsCallPath` relates context variables, which steps change, to a
recursive function. The proof puts `ChainOf` between them, the chain a call was sent with. Its
first half is an inductive invariant: the context variables equal the `ChainOf` of the code that
runs, the tokens on a stack are the context of the coroutine below (`Tokens`), so that leaving a
handler, or several at once by a timeout, restores what was there, and an exception has the
`ChainOf` of its origin, or no trace yet and its origin is the code that runs (`TaskOK`). Since
calls are only added (`Grown`) and one task moves at a time (`OneTask`), a step is looked at in the
task that moves: it enters a handler (`Entered`), goes back (`WentBack`), starts (`Started`) or only
begins or ceases to wait or raise (`Marked`). The second half is about one state: `ChainOf`
satisfies the equation that defines `Path`, hence there is a function that does (`PathUnfolds`), and
no call is the least at which two such functions differ (`PathIsChain`, by `Least`). `OneRoot`
treats `BelowRaw` the same way, and `OwnFrames` shows that above its entry frame a handler has only
its own code on the stack.

### SelfWatchdogProofs

| Theorem | Statement |
|---|---|
| `TypeCorrect` | `Spec => []TypeOK` |
| `AbortsOnlyTheSilent` | `Spec => []NoFalseAbort` |
| `StopOutlastsThread` | `Spec => []StopJoins` |
| `HangsAreKilledInTime` | `Spec => []KilledInTime` |

For all durations (`DurationsAssumption`). The inductive invariant is arithmetic. While a probe
waits at a busy loop, the time that was silent and what is left of the wait add up to `Timeout`
at least (`SilentSincePost`); so a wait that expired was silent for `Timeout`, unless `stop()`
was called, which `Decide` looks at (`ExpiredIsSilent`). What is left of `join` and what the
thread was held up add up to `Period + 1` and the ticks the thread can still sleep (`JoinCovers`).
For the deadline, `Owed` is what the thread may still wait before it kills a process whose loop
stays busy, from each of its positions; `KillDue` says that this and what it has waited since the
loop hung never exceed `Period + Timeout + KillAfter`. An acknowledgement that was set before the
loop hung costs a whole round, which is why `Owed` is then the `Deadline` again and `slept` zero.

### ServiceProofs

| Theorem | Statement |
|---|---|
| `TypeCorrect` | `Spec => []TypeOK` |
| `EverythingReleased` | `Spec => []ReleasesAll` |
| `ServesConnected` | `Spec => []ActiveIsConnected` |
| `LeavesNoTasks` | `Spec => []NoLeftoverTasks` |
| `AiomainTerminates` | `Spec => AiomainAdvances` |
| `SignalsAreHeard` | `Spec => [](exitRun => pc \in {"listening", ..., "ended"})` |

For any namespaces in any order, even named twice (`OrderAssumption`), and any scenarios. The
inductive invariant says for each stage of `aiomain` what holds by then: which transports a loop
has already connected or disconnected (`Connected`), that nothing is active or running before the
last is connected (`NothingYet`), that what is still active is a server the loop has not come to
(`Activations`), that the heartbeat is
cancelled by the inner `finally` and the other options are down before the first transport (`OptionsStopped`), and that
a shutdown with no failure follows the last scenario (`ScenariosDone`). The loops are over sets of
positions, `Servers` and `DOMAIN Order`; "the next one" is the least that is left (`At`).

`AiomainTerminates` orders the stages (`Stage`) and shows that every step of `aiomain` goes
`Forward`, whatever raises, and that what happens beside it leaves it where it is or ends it
(`Aside`). `SignalsAreHeard` shows that an `exit_run` that is set is read: the loop that polls it is
running or already behind.

### Only model-checked

The eight liveness properties, since liveness under fairness needs `ENABLED`, which is out of the
prover's reach. The safety that each of them rests on is proved where it could be stated:

| Property | What is proved of it |
|---|---|
| `AmqpClient!LostConnectionEndsCalls` | `LossReported`, `NoOrphan`: the callback that fails a pending call is scheduled, and finds it |
| `AmqpClient!TimedCallsEnd`, `Loopback!TimedCallsEnd` | only that a call ends once and for a cause the contract allows (`Refinement`) |
| `AmqpDelivery!EventsHandled` | `AtLeastOnce`: an event that was not handled is where somebody will take it |
| `AmqpDelivery!RequestsReplied` | `Accounted`, `SlotsFreed` |
| `RouterActivation!OperationsEnd` | `OperationsAdvance` |
| `Service!SignalEnds` | `AiomainAdvances` and `SignalsAreHeard` |
| `SelfWatchdog!StuckIsKilled` | `KilledInTime`, for a process nobody stops |

The three runs that expect a violation check properties that are false, and have no theorem.

## What is not modelled

* **The reference generator** (`commands/refs.py`). It parses modules and prints source text,
  sequentially and apart from the running system; nothing interleaves with it and it keeps no
  state.
* **Registry details.** `Manager.unregister`, which nothing calls, and item options, which the
  properties do not depend on. That the global manager unites what is registered for a namespace
  is `NewRouter`: the item keeps its transport and codec and gets a new router and registries.
* **What codecs make of contents.** That they return `None` when they fail is in `AmqpClient`, as one
  reason a publish raises, and in `Loopback`; the bytes are left out.
* **What the health endpoint and the heartbeat serve**, and the command line: I/O and pure
  functions. Stopping the watchdog and the endpoint is assumed to return and not to raise.
* **A `KeyboardInterrupt` raised inside `aiomain` itself.** One that interrupts the idle loop leaves it
  without unwinding anything, and is a signal that kills the process in `Service`.
* **Trace contents**: file names and lines, filtering, formatting, and the frames `attach` takes
  from a traceback. A hop is an identity and the owners of its await frames.
* **Packaging, CI and tests**: no behaviour of the library.

## Plan

1. The frames `attach` takes from a traceback, next to those `push_hop` takes from the stack.
2. The safety half of `TimedCallsEnd`: a call with a timeout that is in flight is waiting for the
   lock, for a confirmation, or has its timer running.
