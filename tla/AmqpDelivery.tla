---------------------------- MODULE AmqpDelivery ----------------------------
(***************************************************************************)
(* How messages travel between AMQPTransport instances: queues per name,   *)
(* competing and exclusive consumers, prefetch, acknowledgement before the *)
(* handler, nested RPC, connection drops and process crashes.              *)
(* Each instance is one process with one transport and one router.         *)
(***************************************************************************)
EXTENDS Naturals

CONSTANTS Instances,    \* worker processes
          Names,        \* registered atask names
          KindOf,       \* the kind of each name: "rpc", "queue" or "broadcast"
          Serves,       \* the names each instance's router has registered
          Messages,     \* requests, events and broadcasts that may be published
          NameOf,       \* the name each of them is addressed to
          Child,        \* the request the handler of a request awaits, or None
          None,         \* no child; also marks a queue instances share
          MaxDrops,     \* bound on connection losses
          MaxCrashes,   \* bound on process crashes
          MaxUnregisters \* bound on unregistrations

ASSUME NamesAssumption == /\ KindOf \in [Names -> {"rpc", "queue", "broadcast"}]
                          /\ Serves \in [Instances -> SUBSET Names]
                          /\ NameOf \in [Messages -> Names]
                          /\ Child \in [Messages -> Messages \cup {None}]
                          /\ None \notin Messages \cup Instances
ASSUME BoundsAssumption == MaxDrops \in Nat /\ MaxCrashes \in Nat /\ MaxUnregisters \in Nat

Kind(m) == KindOf[NameOf[m]]
Roots == {m \in Messages : \A p \in Messages : Child[p] # m}

\* RPC and task-queue names have one durable queue that instances share.  Every broadcast
\* registration declares an anonymous, exclusive, auto-delete queue: k tells those of one
\* instance and name apart.
QueueOf(i, n, k) == IF KindOf[n] = "broadcast" THEN <<n, i, k>> ELSE <<n, None, 0>>
Queues == {QueueOf(i, n, k) : i \in Instances, n \in Names, k \in 0..MaxUnregisters}
IsExclusive(q) == q[2] # None

\* A queue is bound to the exact routing key of its name, never to a mask.
MaskBinds(q, n) == TRUE
Binds(q, n) == q[1] = n

VARIABLES
    link,        \* of each instance: "off" (no process), "up", or "down" (retrying)
    declared,    \* queues that exist at the broker
    ready,       \* messages waiting in each queue
    consumers,   \* consumers the broker, or a retrying connection, has for each queue
    registered,  \* names in the instance's _*_consumers dictionaries
    registering, \* the name whose queue is declared but not consumed yet, or None
    unacked,     \* deliveries <<i, q, m>> the broker waits to have acknowledged
    ackSent,     \* those whose acknowledgement is on its way
    tasks,       \* message handlers that have not ended, see Task
    handled,     \* history: how often each message's handler ran, by the queue it came from
    runs,        \* history: how often it ran anywhere
    sent,        \* "new", "routed" or "dropped"
    forgotten,   \* <<instance, name>> of consumers that are in no dictionary any more
    serial,      \* history: how many consumers each instance has ever left so, by name
    lost,        \* history: messages a crashed process had acknowledged but not handled
    replied,     \* requests whose reply has been published
    drops, crashes, unregisters   \* what happened so far, bounded

runVars == <<handled, runs>>
faultVars == <<lost, drops, crashes, unregisters>>
leftVars == <<forgotten, serial>>
brokerVars == <<declared, ready, consumers, unacked, ackSent>>
vars == <<link, declared, ready, consumers, registered, registering, unacked,
          ackSent, tasks, handled, runs, sent, forgotten, serial, lost, replied, drops, crashes,
          unregisters>>

\* The queue that a registration of n by i declares next, or declared last: a clean
\* unregistration leaves nothing of it, one that raised leaves it behind.
Queue(i, n) == QueueOf(i, n, serial[i][n])

\* A message redelivered while a task of its earlier delivery has not ended starts a task of
\* its own: the losses so far tell them apart.
Task(i, q, m, r, phase) ==
    [inst |-> i, queue |-> q, msg |-> m, redelivery |-> r, phase |-> phase]
Redelivery(i, q, m) ==
    IF \E t \in tasks : t.inst = i /\ t.queue = q /\ t.msg = m THEN drops ELSE 0
Phases == {"acking", "acked", "running", "calling", "called"}
AllTasks == [inst : Instances, queue : Queues, msg : Messages, redelivery : 0..MaxDrops,
             phase : Phases]

Init == /\ link = [i \in Instances |-> "off"]
        /\ declared = {}
        /\ ready = [q \in Queues |-> {}]
        /\ consumers = [q \in Queues |-> {}]
        /\ registered = [i \in Instances |-> {}]
        /\ registering = [i \in Instances |-> None]
        /\ unacked = {} /\ ackSent = {}
        /\ tasks = {}
        /\ handled = [m \in Messages |-> [q \in Queues |-> 0]]
        /\ runs = [m \in Messages |-> 0]
        /\ sent = [m \in Messages |-> "new"]
        /\ forgotten = {} /\ serial = [i \in Instances |-> [n \in Names |-> 0]]
        /\ lost = {}
        /\ replied = {}
        /\ drops = 0 /\ crashes = 0 /\ unregisters = 0

Step(t, phase) == tasks' = (tasks \ {t}) \cup {[t EXCEPT !.phase = phase]}
End(t) == tasks' = tasks \ {t}
-----------------------------------------------------------------------------
(* Publishing. *)

\* The broker puts a copy into every queue bound to the name, or returns the message.
\* publish_event and publish_broadcast swallow the return.
Route(m) ==
    LET targets == {q \in declared : Binds(q, NameOf[m])}
    IN  /\ ready' = [q \in Queues |-> IF q \in targets THEN ready[q] \cup {m} ELSE ready[q]]
        /\ sent' = [sent EXCEPT ![m] = IF targets = {} THEN "dropped" ELSE "routed"]

Publish(m) ==
    /\ m \in Roots /\ sent[m] = "new"
    /\ Route(m)
    /\ UNCHANGED <<link, leftVars, declared, consumers, registered, registering, unacked, ackSent,
                   tasks, runVars, replied, faultVars>>
-----------------------------------------------------------------------------
(* Registration, one name at a time under the transport's lock. *)

\* An exclusive queue goes away, with what it holds, when its consumer is cancelled or
\* its connection is lost.
WithoutExclusive(i) == {q \in declared : q[2] # i}
Cleared(gone) == [q \in Queues |-> IF q \in gone THEN {} ELSE ready[q]]
Exclusive(q) == IF IsExclusive(q) THEN {q} ELSE {}

\* declare_queue and bind: a shared queue may be there already, an anonymous one is fresh.
\* It takes the place of one whose consume raised: nobody will read that.
DeclareQueue(i, n) ==
    /\ link[i] = "up" /\ registering[i] = None
    /\ n \in Serves[i] \ registered[i]
    /\ declared' = declared \cup {Queue(i, n)}
    /\ ready' = Cleared(Exclusive(Queue(i, n)))
    /\ registering' = [registering EXCEPT ![i] = n]
    /\ UNCHANGED <<link, leftVars, consumers, registered, unacked, ackSent, tasks, runVars,
                   sent, replied, faultVars>>

\* consume, and the two assignments that follow it without an await.
Consume(i) ==
    /\ link[i] = "up" /\ registering[i] # None
    /\ LET n == registering[i]
       IN  /\ consumers' = [consumers EXCEPT ![Queue(i, n)] = @ \cup {i}]
           /\ registered' = [registered EXCEPT ![i] = @ \cup {n}]
    /\ registering' = [registering EXCEPT ![i] = None]
    /\ UNCHANGED <<link, leftVars, declared, ready, unacked, ackSent, tasks, runVars, sent, replied,
                   faultVars>>

\* consume raises: the queue stays declared and bound, without a consumer of ours.
RegisterRaises(i) ==
    /\ registering[i] # None
    /\ registering' = [registering EXCEPT ![i] = None]
    /\ UNCHANGED <<link, leftVars, brokerVars, registered, tasks, runVars, sent, replied, faultVars>>

UnregisterRequeues(i, n) ==
    LET q == Queue(i, n)
    IN  /\ link[i] = "up" /\ registering[i] = None
        /\ n \in registered[i] /\ unregisters < MaxUnregisters
        /\ registered' = [registered EXCEPT ![i] = @ \ {n}]
        /\ consumers' = [consumers EXCEPT ![q] = @ \ {i}]
        /\ ready' = [ready EXCEPT ![q] = @ \cup {m \in Messages : <<i, q, m>> \in unacked}]
        /\ unacked' = {d \in unacked : ~(d[1] = i /\ d[2] = q)}
        /\ ackSent' = ackSent \cap unacked'
        /\ unregisters' = unregisters + 1
        /\ UNCHANGED <<link, leftVars, declared, registering, tasks, runVars, sent, replied,
                       lost, drops, crashes>>
\* The dictionary entry is popped, then its consumer cancelled at the broker - that of this
\* registration: at a shared queue the instance may keep one it left behind.  Unregistering a
\* name that has no entry does nothing.
UnregisterKeepsConsumer(i, n) ==
    /\ link[i] = "up" /\ registering[i] = None
    /\ n \in registered[i] /\ unregisters < MaxUnregisters
    /\ registered' = [registered EXCEPT ![i] = @ \ {n}]
    /\ unregisters' = unregisters + 1
    /\ UNCHANGED <<link, leftVars, brokerVars, registering, tasks, runVars, sent, replied, lost,
                   drops, crashes>>
Unregister(i, n) ==
    LET q == Queue(i, n)
        last == IsExclusive(q) \/ <<i, n>> \notin forgotten
    IN  /\ link[i] = "up" /\ registering[i] = None
        /\ n \in registered[i] /\ unregisters < MaxUnregisters
        /\ registered' = [registered EXCEPT ![i] = @ \ {n}]
        /\ consumers' = IF last THEN [consumers EXCEPT ![q] = @ \ {i}] ELSE consumers
        /\ declared' = declared \ Exclusive(q)
        /\ ready' = Cleared(Exclusive(q))
        /\ unregisters' = unregisters + 1
        /\ UNCHANGED <<link, leftVars, registering, unacked, ackSent, tasks, runVars, sent, replied,
                       lost, drops, crashes>>

\* The cancel raises, as it may while the connection is being retried, or its await is
\* cancelled: the entry is gone, but the connection keeps the consumer and its queue, and
\* restores them after a loss.
UnregisterRaises(i, n) ==
    /\ link[i] # "off" /\ registering[i] = None
    /\ n \in registered[i] /\ unregisters < MaxUnregisters
    /\ registered' = [registered EXCEPT ![i] = @ \ {n}]
    /\ forgotten' = forgotten \cup {<<i, n>>}
    /\ serial' = [serial EXCEPT ![i][n] = @ + 1]
    /\ unregisters' = unregisters + 1
    /\ UNCHANGED <<link, brokerVars, registering, tasks, runVars, sent, replied, lost,
                   drops, crashes>>
-----------------------------------------------------------------------------
(* Delivery. *)

\* prefetch_count = 1: a consumer gets a message when it has none unacknowledged.
SlotFree(i, q) == \A d \in unacked : ~(d[1] = i /\ d[2] = q)

DeliverAutoAck(i, q, m) ==
    /\ link[i] = "up" /\ i \in consumers[q] /\ m \in ready[q]
    /\ ready' = [ready EXCEPT ![q] = @ \ {m}]
    /\ tasks' = tasks \cup {Task(i, q, m, Redelivery(i, q, m), "acking")}
    /\ UNCHANGED <<link, leftVars, declared, consumers, registered, registering, unacked, ackSent,
                   runVars, sent, replied, faultVars>>
Deliver(i, q, m) ==
    /\ link[i] = "up" /\ i \in consumers[q] /\ m \in ready[q]
    /\ SlotFree(i, q)
    /\ ready' = [ready EXCEPT ![q] = @ \ {m}]
    /\ unacked' = unacked \cup {<<i, q, m>>}
    /\ tasks' = tasks \cup {Task(i, q, m, Redelivery(i, q, m), "acking")}
    /\ UNCHANGED <<link, leftVars, declared, consumers, registered, registering, ackSent, runVars,
                   sent, replied, faultVars>>

\* "async with message.process()" ends before the callback is called: the ack goes out
\* first, and the broker sees it later.
Ack(t) ==
    /\ t \in tasks /\ t.phase = "acking" /\ link[t.inst] = "up"
    /\ ackSent' = ackSent \cup {d \in unacked : d = <<t.inst, t.queue, t.msg>>}
    /\ Step(t, "acked")
    /\ UNCHANGED <<link, leftVars, declared, ready, consumers, registered, registering, unacked,
                   runVars, sent, replied, faultVars>>

BrokerAckAfterHandler(d) ==
    /\ d \in ackSent /\ \A t \in tasks : <<t.inst, t.queue, t.msg>> # d
    /\ unacked' = unacked \ {d}
    /\ ackSent' = ackSent \ {d}
    /\ UNCHANGED <<link, leftVars, declared, ready, consumers, registered, registering, tasks,
                   runVars, sent, replied, faultVars>>
BrokerAck(d) ==
    /\ d \in ackSent
    /\ unacked' = unacked \ {d}
    /\ ackSent' = ackSent \ {d}
    /\ UNCHANGED <<link, leftVars, declared, ready, consumers, registered, registering, tasks,
                   runVars, sent, replied, faultVars>>

\* The callback is the router's: it finds the name in its registry and runs the coroutine.
RunHandler(t) ==
    /\ t \in tasks /\ t.phase = "acked"
    /\ handled' = [handled EXCEPT ![t.msg][t.queue] = @ + 1]
    /\ runs' = [runs EXCEPT ![t.msg] = @ + 1]
    /\ Step(t, "running")
    /\ UNCHANGED <<link, leftVars, brokerVars, registered, registering, sent, replied, faultVars>>

\* A handler that awaits another atask publishes a request of its own, and continues
\* with the reply, or with an exception: no route, or a lost connection.
CallChild(t) ==
    /\ t \in tasks /\ t.phase = "running" /\ Child[t.msg] # None
    /\ link[t.inst] = "up"
    /\ sent[Child[t.msg]] = "new"
    /\ Route(Child[t.msg])
    /\ Step(t, "calling")
    /\ UNCHANGED <<link, leftVars, declared, consumers, registered, registering, unacked, ackSent,
                   runVars, replied, faultVars>>

ChildDone(t) ==
    /\ t \in tasks /\ t.phase = "calling"
    /\ Child[t.msg] \in replied \/ sent[Child[t.msg]] = "dropped"
    /\ Step(t, "called")
    /\ UNCHANGED <<link, leftVars, brokerVars, registered, registering, runVars, sent, replied,
                   faultVars>>

\* The handler returns or raises.  The router turns both into a reply of a request; for
\* an event or a broadcast it logs what was raised.
Finish(t) ==
    /\ t \in tasks
    /\ IF Child[t.msg] = None THEN t.phase = "running" ELSE t.phase = "called"
    /\ End(t)
    /\ replied' = IF Kind(t.msg) = "rpc" /\ link[t.inst] = "up"
                  THEN replied \cup {t.msg} ELSE replied
    /\ UNCHANGED <<link, leftVars, brokerVars, registered, registering, runVars, sent, faultVars>>
-----------------------------------------------------------------------------
(* Faults. *)

DeliveriesOf(i) == {d \in unacked : d[1] = i}

RequeuedEverywhere(i) == [q \in Queues |->
    ready[q] \cup {m \in Messages : <<i, q, m>> \in DeliveriesOf(i)}]
\* The broker requeues what an instance had not acknowledged, and deletes its exclusive
\* queues.
Requeued(i) == [q \in Queues |->
    IF q[2] = i THEN {}
    ELSE ready[q] \cup {m \in Messages : <<i, q, m>> \in DeliveriesOf(i)}]

LoseConnection(i) ==
    /\ ready' = Requeued(i)
    /\ declared' = WithoutExclusive(i)
    /\ unacked' = unacked \ DeliveriesOf(i)
    /\ ackSent' = ackSent \ DeliveriesOf(i)
    /\ registering' = [registering EXCEPT ![i] = None]

\* A handler whose ack has not gone out yet fails in it and ends; one that awaits a
\* reply gets ConnectionLostError.
SurvivesDrop(i) ==
    {t \in tasks : t.inst # i \/ t.phase \notin {"acking", "calling"}}
    \cup {[t EXCEPT !.phase = "called"] : t \in {u \in tasks : u.inst = i /\ u.phase = "calling"}}

Drop(i) ==
    /\ link[i] = "up" /\ drops < MaxDrops
    /\ drops' = drops + 1
    /\ link' = [link EXCEPT ![i] = "down"]
    /\ LoseConnection(i)
    /\ tasks' = SurvivesDrop(i)
    /\ UNCHANGED <<leftVars, consumers, registered, runVars, sent, replied, lost, crashes, unregisters>>

\* The robust connection declares its queues and starts its consumers again.
Reconnect(i) ==
    /\ link[i] = "down"
    /\ link' = [link EXCEPT ![i] = "up"]
    /\ declared' = declared \cup {q \in Queues : i \in consumers[q]}
    /\ UNCHANGED <<leftVars, ready, consumers, registered, registering, unacked, ackSent, tasks,
                   runVars, sent, replied, faultVars>>

Crash(i) ==
    /\ link[i] # "off" /\ crashes < MaxCrashes
    /\ crashes' = crashes + 1
    /\ link' = [link EXCEPT ![i] = "off"]
    /\ LoseConnection(i)
    /\ tasks' = {t \in tasks : t.inst # i}
    /\ consumers' = [q \in Queues |-> consumers[q] \ {i}]
    /\ registered' = [registered EXCEPT ![i] = {}]
    /\ forgotten' = {e \in forgotten : e[1] # i}
    /\ lost' = lost \cup {t.msg : t \in {u \in tasks : u.inst = i /\ u.phase = "acked"}}
    /\ UNCHANGED <<serial, runVars, sent, replied, drops, unregisters>>

\* A process starts and connects.
Start(i) ==
    /\ link[i] = "off"
    /\ link' = [link EXCEPT ![i] = "up"]
    /\ UNCHANGED <<leftVars, brokerVars, registered, registering, tasks, runVars, sent, replied,
                   faultVars>>
-----------------------------------------------------------------------------
TaskStep(t) == Ack(t) \/ RunHandler(t) \/ CallChild(t) \/ ChildDone(t) \/ Finish(t)

InstanceStep(i) == \/ \E n \in Names : \/ DeclareQueue(i, n) \/ Unregister(i, n)
                                       \/ UnregisterRaises(i, n)
                   \/ Consume(i) \/ RegisterRaises(i)
                   \/ Drop(i) \/ Reconnect(i) \/ Crash(i) \/ Start(i)

Next == \/ \E m \in Messages : Publish(m)
        \/ \E i \in Instances : InstanceStep(i)
        \/ \E i \in Instances, q \in Queues, m \in Messages : Deliver(i, q, m)
        \/ \E t \in tasks : TaskStep(t)
        \/ \E d \in ackSent : BrokerAck(d)

Spec == Init /\ [][Next]_vars

\* Processes start, connections are retried, the broker delivers, and handlers run to their
\* next await.  What an instance does next is fair as a whole: which message, name or task
\* comes first is left open.  Somebody registers again: whichever instance can, not each of
\* them, so one that unregistered a name may leave it to the others for good.
Fairness ==
    /\ SF_vars(\E i \in Instances, n \in Names : DeclareQueue(i, n))
    /\ \A i \in Instances :
        /\ WF_vars(Start(i))
        /\ WF_vars(Reconnect(i))
        /\ SF_vars(Consume(i))
        /\ SF_vars(\E q \in Queues, m \in Messages : Deliver(i, q, m))
        /\ WF_vars(\E t \in tasks : t.inst = i /\ TaskStep(t))
        /\ WF_vars(\E d \in ackSent : d[1] = i /\ BrokerAck(d))

FairSpec == Spec /\ Fairness
-----------------------------------------------------------------------------
(* Properties. *)

\* Type invariant.
TypeOK ==
    /\ link \in [Instances -> {"off", "up", "down"}]
    /\ declared \subseteq Queues
    /\ ready \in [Queues -> SUBSET Messages]
    /\ consumers \in [Queues -> SUBSET Instances]
    /\ registered \in [Instances -> SUBSET Names]
    /\ registering \in [Instances -> Names \cup {None}]
    /\ unacked \subseteq Instances \X Queues \X Messages
    /\ ackSent \subseteq unacked
    /\ tasks \subseteq AllTasks
    /\ handled \in [Messages -> [Queues -> Nat]] /\ runs \in [Messages -> Nat]
    /\ sent \in [Messages -> {"new", "routed", "dropped"}]
    /\ forgotten \subseteq Instances \X Names
    /\ serial \in [Instances -> [Names -> 0..MaxUnregisters]]
    /\ replied \subseteq Messages /\ lost \subseteq Messages
    /\ drops \in 0..MaxDrops /\ crashes \in 0..MaxCrashes
    /\ unregisters \in 0..MaxUnregisters

HandledFrom(m) == {q \in Queues : handled[m][q] > 0}
Held(m) == \/ \E q \in declared : m \in ready[q]
           \/ \E d \in unacked : d[3] = m
           \/ \E t \in tasks : t.msg = m

\* Requests and events wait in queues that instances share.
Shared(m) == Kind(m) # "broadcast"

\* tasks.py:67-69: an event "must be handled exactly-once-per-publish (well,
\* at-least-once ...)": once routed it, and a request, is never forgotten by queue, consumer and
\* handler alike before some instance handled it - over connection losses, lost
\* acknowledgements, unregistrations and crashes, except for what a process that
\* crashed had acknowledged and not started to handle (README, "Handler processing").
AtLeastOnce == \A m \in Messages :
    Shared(m) /\ sent[m] = "routed" => Held(m) \/ HandledFrom(m) # {} \/ m \in lost

\* And it is eventually handled, whichever of its consumers come and go: over connection
\* losses, unregistrations, clean ones and such as raised, and crashes, as long as somebody
\* registers its name again.
EventsHandled == \A m \in Messages :
    (Kind(m) = "queue" /\ sent[m] = "routed") ~> (HandledFrom(m) # {} \/ m \in lost)

\* base.py:212-214: every event "is delivered to exactly one currently-registered
\* instance, never to more than one".  What the code provides is weaker: one event is
\* handled, there or elsewhere, once more for every connection or process lost, while no
\* order of registrations, unregistrations and late acknowledgements duplicates or drops
\* it; and only a crash makes one that was queued disappear unhandled.
Events == {m \in Messages : Kind(m) = "queue"}
Contract == INSTANCE EventContract WITH
    state <- [m \in Events |-> IF sent[m] # "routed" THEN sent[m]
                               ELSE IF HandledFrom(m) # {} THEN "done"
                               ELSE IF Held(m) THEN "pending" ELSE "lost"],
    runs <- [m \in Events |-> runs[m]],
    failures <- drops + crashes
ImplementsEvents == Contract!Spec

\* The broadcast counterpart: a registration never hears a broadcast twice, over any losses,
\* since what a lost acknowledgement would redeliver goes away with its exclusive queue.  A
\* second queue of the same instance only hears it if as many earlier registrations left
\* their consumers behind: an instance none of whose unregistrations raised handles a
\* broadcast at most once, one that did so k times at most k + 1 times.
BroadcastAtMostOnce == \A m \in Messages, q \in Queues : IsExclusive(q) =>
    /\ handled[m][q] <= 1
    /\ handled[m][q] > 0 => q[3] <= serial[q[2]][q[1]]

\* A handler only runs where its name is registered: no instance can take, acknowledge
\* and lose (JobNotFound) a message another instance was to serve
\* (dev/tests/test_006_amqp_rpc.py:323-340).
NoJobNotFound == \A t \in tasks : NameOf[t.msg] \in Serves[t.inst]

\* README, "Handler processing": acknowledging before the handler keeps nested and
\* self-referential calls from waiting for their own prefetch slot, so every routed
\* request is eventually replied to unless something fails: a loss, a crash or an
\* unregistration may take the reply, or the handlers, away.
RequestsReplied == \A m \in Messages :
    (Kind(m) = "rpc" /\ sent[m] = "routed")
        ~> (m \in replied \/ drops + crashes + unregisters > 0)

\* base.py:199-200: unregistering means to "Stop receiving RPC requests for a name".  The
\* broker's consumers are exactly the registered names, over losses, crashes and any order
\* of registering and unregistering - but for a consumer whose cancellation raised, which
\* stays when its name is unregistered, or registered and unregistered, once more.
Consumes(i, n) == \E q \in Queues : q[1] = n /\ i \in consumers[q]
ConsumersMatch == \A i \in Instances, n \in Names :
    Consumes(i, n) <=> n \in registered[i] \/ <<i, n>> \in forgotten
=============================================================================
