----------------------------- MODULE AmqpClient -----------------------------
(***************************************************************************)
(* One AMQPTransport instance: the RPC futures, the asyncio.Lock, the      *)
(* connection and everything that can give up on a request in flight.      *)
(* Every action runs from one await of a task or callback to the next one: *)
(* asyncio is single threaded, so nothing interleaves inside an action.    *)
(***************************************************************************)
EXTENDS Naturals, FiniteSets

CONSTANTS Calls,        \* invocations of send_request, one fresh correlation_id each
          Pubs,         \* invocations of publish_event / publish_broadcast
          Served,       \* requests this instance serves (it may be a worker too)
          Manager,      \* the task that calls connect() and disconnect()
          NoTask,       \* the lock is free
          Timed,        \* the calls that pass a timeout
          TellsCancel,  \* Task.cancelling() exists (Python 3.11+)
          MaxGen        \* bound on connection generations

ASSUME TasksAssumption ==
    /\ Calls \cap Pubs = {}
    /\ Manager \notin Calls \cup Pubs
    /\ NoTask \notin Calls \cup Pubs \cup {Manager}
ASSUME TimedAssumption == Timed \subseteq Calls /\ TellsCancel \in BOOLEAN
ASSUME MaxGenAssumption == MaxGen \in Nat

Publishers == Calls \cup Pubs
Tasks == Publishers \cup {Manager}

VARIABLES
    attrs,      \* how far connect() got in assigning the instance attributes
    link,       \* the AMQP connection: "closed", "up", or "down" (being retried)
    closedCb,   \* a close callback is scheduled and has not run yet
    lock,       \* holder of self._lock
    pc,         \* where each task is
    fut,        \* the future of each call
    awaiting,   \* keys of self._awaiting_requests
    wire,       \* what the broker did with each publication
    inbox,      \* the response to each call: queued, or acked by the handler
    serving,    \* requests whose _on_message task runs
    gen,        \* history: connection generation, stepped at every up and down
    pubGen,     \* history: generation in which the broker took a publication
    answered,   \* history: calls a worker has answered
    cancelReq   \* history: tasks somebody has cancelled

history == <<gen, pubGen, answered, cancelReq>>
netVars == <<attrs, link, closedCb>>
rpcVars == <<fut, awaiting>>
vars == <<attrs, link, closedCb, lock, pc, fut, awaiting, wire, inbox,
          serving, gen, pubGen, answered, cancelReq>>

\* The order in which connect() assigns its attributes.
Stages == {"none", "connection", "exchanges", "response_queue", "ready"}
Outcomes == {"result", "noroute", "lost", "timeout", "cancelled"}
CallLabels == {"idle", "lock", "publish", "wait", "timingout", "cancelling"} \cup Outcomes
PubLabels == {"idle", "lock", "publish", "sent", "dropped", "lost", "cancelled"}
ManagerLabels == {"idle", "connect", "disconnect", "opening", "declaring",
                  "closing", "deleting"}

Init == /\ attrs = "none"
        /\ link = "closed"
        /\ closedCb = FALSE
        /\ lock = NoTask
        /\ pc = [t \in Tasks |-> "idle"]
        /\ fut = [c \in Calls |-> "none"]
        /\ awaiting = {}
        /\ wire = [t \in Publishers |-> "unsent"]
        /\ inbox = [c \in Calls |-> "none"]
        /\ serving = {}
        /\ gen = 0
        /\ pubGen = [t \in Publishers |-> 0]
        /\ answered = {}
        /\ cancelReq = {}

Goto(t, label) == pc' = [pc EXCEPT ![t] = label]

-----------------------------------------------------------------------------
(* Futures. *)

\* The value of c's future after an attempt to complete it with v: a future
\* that is already done is left alone ("if not future.done()").
CompletedUnguarded(c, v) == v
Completed(c, v) == IF fut[c] = "pending" THEN v ELSE fut[c]

\* _fail_awaiting_requests: the table is swapped for an empty one and every
\* future it held fails with ConnectionLostError.
FailKeepsTable == /\ fut' = fut
                  /\ awaiting' = {}
FailAwaiting == /\ fut' = [c \in Calls |-> IF c \in awaiting THEN Completed(c, "lost")
                                                             ELSE fut[c]]
                /\ awaiting' = {}

\* _task_was_actually_cancelled: without Task.cancelling() every
\* CancelledError counts as a real one.
EveryCancelIsReal(t, requests) == TRUE
TaskWasActuallyCancelled(t, requests) == ~TellsCancel \/ t \in requests
-----------------------------------------------------------------------------
(* send_request, publish_event and publish_broadcast. *)

Invoke(t) == /\ t \in Publishers
             /\ pc[t] = "idle"
             /\ Goto(t, "lock")
             /\ UNCHANGED <<netVars, lock, rpcVars, wire, inbox, serving, history>>

\* Whether the attributes a call's publish needs exist: the request exchange and
\* the name of the response queue.
CanPublishCall == attrs \in {"response_queue", "ready"}

\* The lock is granted to a call: it registers its future first and only then
\* publishes.
RegisterFuture(c) == /\ fut' = [fut EXCEPT ![c] = "pending"]
                     /\ awaiting' = awaiting \cup {c}

BeginCall(c) ==
    /\ pc[c] = "lock" /\ lock = NoTask
    /\ CanPublishCall
    /\ lock' = c
    /\ RegisterFuture(c)
    /\ Goto(c, "publish")
    /\ UNCHANGED <<netVars, wire, inbox, serving, history>>

\* Before connect() or after disconnect() the exchange attribute is missing: the
\* AttributeError is handled like any failed publish, with no await in between.
BeginCallUnconnected(c) ==
    /\ pc[c] = "lock" /\ lock = NoTask
    /\ ~CanPublishCall
    /\ fut' = [d \in Calls |-> IF d = c THEN "lost"
                               ELSE IF d \in awaiting THEN Completed(d, "lost")
                               ELSE fut[d]]
    /\ awaiting' = {}
    /\ Goto(c, "wait")
    /\ UNCHANGED <<netVars, lock, wire, inbox, serving, gen, pubGen, answered, cancelReq>>

\* In stage "connection" the exchange an event or a broadcast needs may or may
\* not have been assigned yet.
BeginPub(p) ==
    /\ pc[p] = "lock" /\ lock = NoTask
    /\ attrs # "none"
    /\ lock' = p
    /\ Goto(p, "publish")
    /\ UNCHANGED <<netVars, rpcVars, wire, inbox, serving, history>>

BeginPubUnconnected(p) ==
    /\ pc[p] = "lock" /\ lock = NoTask
    /\ attrs \in {"none", "connection"}
    /\ FailAwaiting
    /\ Goto(p, "lost")
    /\ UNCHANGED <<netVars, lock, wire, inbox, serving, history>>

\* The publish await returns: the call leaves the lock and waits for its future.
PublishConfirmed(t) ==
    /\ pc[t] = "publish" /\ wire[t] = "confirmed"
    /\ lock' = NoTask
    /\ Goto(t, IF t \in Calls THEN "wait" ELSE "sent")
    /\ UNCHANGED <<netVars, rpcVars, wire, inbox, serving, history>>

\* PublishError: the message came back unroutable.  A call gives up with
\* NoRouteError; an event or a broadcast is dropped.
PublishReturned(t) ==
    /\ pc[t] = "publish" /\ wire[t] = "returned"
    /\ lock' = NoTask
    /\ awaiting' = awaiting \ {t}
    /\ Goto(t, IF t \in Calls THEN "noroute" ELSE "dropped")
    /\ UNCHANGED <<netVars, fut, wire, inbox, serving, history>>

PublishFailedAsNoRoute(t) ==
    /\ lock' = NoTask
    /\ awaiting' = awaiting \ {t}
    /\ fut' = fut
    /\ Goto(t, IF t \in Calls THEN "noroute" ELSE "lost")
\* A publish that raised: every request in flight fails.  The call itself goes on
\* to await its own future, an event or a broadcast raises ConnectionLostError.
PublishFailed(t) ==
    /\ lock' = NoTask
    /\ FailAwaiting
    /\ Goto(t, IF t \in Calls THEN "wait" ELSE "lost")

PublishCancelledLocked(t) ==
    /\ lock' = lock
    /\ awaiting' = awaiting \ {t}
    /\ Goto(t, "cancelled")
    /\ UNCHANGED fut
\* A real cancellation propagates; a call takes its future out of the table.
PublishCancelledLeaks(t) ==
    /\ lock' = NoTask
    /\ Goto(t, "cancelled")
    /\ UNCHANGED rpcVars
PublishCancelled(t) ==
    /\ lock' = NoTask
    /\ awaiting' = awaiting \ {t}
    /\ Goto(t, "cancelled")
    /\ UNCHANGED fut

\* Any Exception out of publish: a dead connection, a nack, or a message that cannot
\* be built because the codec returned None - the last two with the link up.  A
\* publication the broker took only fails if its confirmation got lost.
PublishRaises(t) ==
    /\ pc[t] = "publish"
    /\ wire[t] = "unsent" \/ (wire[t] = "accepted" /\ pubGen[t] # gen)
    /\ PublishFailed(t)
    /\ UNCHANGED <<netVars, wire, inbox, serving, history>>

\* aiormq unblocks a write on a dead connection with a bare CancelledError.
LibraryCancels(t) ==
    /\ pc[t] = "publish" /\ wire[t] \in {"unsent", "accepted"}
    /\ link # "up"
    /\ IF TaskWasActuallyCancelled(t, cancelReq) THEN PublishCancelled(t)
                                                 ELSE PublishFailed(t)
    /\ UNCHANGED <<netVars, wire, inbox, serving, history>>

\* Somebody cancels the task while it waits for the lock, publishes, or awaits
\* its future.  Cancelling the await cancels the future at once; the coroutine
\* resumes in a later step.
CancelLock(t) ==
    /\ pc[t] = "lock"
    /\ cancelReq' = cancelReq \cup {t}
    /\ Goto(t, "cancelled")
    /\ UNCHANGED <<netVars, lock, rpcVars, wire, inbox, serving,
                   gen, pubGen, answered>>

CancelPublish(t) ==
    /\ pc[t] = "publish"
    /\ cancelReq' = cancelReq \cup {t}
    /\ IF TaskWasActuallyCancelled(t, cancelReq') THEN PublishCancelled(t)
                                                  ELSE PublishFailed(t)
    /\ UNCHANGED <<netVars, wire, inbox, serving, gen, pubGen, answered>>

CancelWait(c) ==
    /\ pc[c] \in {"wait", "timingout"}
    /\ cancelReq' = cancelReq \cup {c}
    /\ fut' = [fut EXCEPT ![c] = Completed(c, "cancelled")]
    /\ Goto(c, "cancelling")
    /\ UNCHANGED <<netVars, lock, awaiting, wire, inbox, serving,
                   gen, pubGen, answered>>

\* asyncio.wait_for's timer.  It may also fire after the future was completed and
\* before the task resumed; the timeout wins then.
TimerFires(c) ==
    /\ c \in Timed
    /\ pc[c] = "wait"
    /\ fut' = [fut EXCEPT ![c] = Completed(c, "cancelled")]
    /\ Goto(c, "timingout")
    /\ UNCHANGED <<netVars, lock, awaiting, wire, inbox, serving, history>>

\* The task resumes with a completed future; its finally clause drops the entry.
Forget(c) == awaiting' = awaiting \ {c}

WakeUpEarly(c) ==
    /\ pc[c] = "wait"
    /\ Forget(c)
    /\ Goto(c, fut[c])
    /\ UNCHANGED <<netVars, lock, fut, wire, inbox, serving, history>>
WakeUp(c) ==
    /\ pc[c] = "wait" /\ fut[c] \in {"result", "lost"}
    /\ Forget(c)
    /\ Goto(c, fut[c])
    /\ UNCHANGED <<netVars, lock, fut, wire, inbox, serving, history>>

Unwind(c) ==
    /\ pc[c] \in {"timingout", "cancelling"}
    /\ Forget(c)
    /\ Goto(c, IF pc[c] = "timingout" THEN "timeout" ELSE "cancelled")
    /\ UNCHANGED <<netVars, lock, fut, wire, inbox, serving, history>>
-----------------------------------------------------------------------------
(* _on_response_message: the message is acked, which is an await, and only *)
(* then correlated.                                                        *)

AckResponse(c) ==
    /\ inbox[c] = "queued"
    /\ link = "up" /\ attrs = "ready"
    /\ inbox' = [inbox EXCEPT ![c] = "acked"]
    /\ UNCHANGED <<netVars, lock, pc, rpcVars, wire, serving, history>>

OnResponse(c) ==
    /\ inbox[c] = "acked"
    /\ inbox' = [inbox EXCEPT ![c] = "none"]
    /\ awaiting' = awaiting \ {c}
    /\ fut' = IF c \in awaiting THEN [fut EXCEPT ![c] = Completed(c, "result")] ELSE fut
    /\ UNCHANGED <<netVars, lock, pc, wire, serving, history>>
-----------------------------------------------------------------------------
(* The worker side of the same instance: _on_message publishes its reply   *)
(* without taking the lock.                                                *)

ServeRequest(r) ==
    /\ r \in Served \ serving
    /\ link = "up" /\ attrs = "ready"
    /\ serving' = serving \cup {r}
    /\ UNCHANGED <<netVars, lock, pc, rpcVars, wire, inbox, history>>

\* The reply went out, the handler raised (logged, no reply), or aiormq cancelled
\* the write (not an Exception, so not handled).
ServedDone(r) ==
    /\ r \in serving
    /\ serving' = serving \ {r}
    /\ UNCHANGED <<netVars, lock, pc, rpcVars, wire, inbox, history>>

\* The reply could not be published: no exchange attribute, a dead channel, a
\* caller whose response queue is gone, or a response the codec turned into None.
ReplyFails(r) ==
    /\ r \in serving
    /\ serving' = serving \ {r}
    /\ FailAwaiting
    /\ UNCHANGED <<netVars, lock, pc, wire, inbox, history>>
-----------------------------------------------------------------------------
(* connect and disconnect. *)

CallConnect == /\ pc[Manager] = "idle" /\ gen < MaxGen
               /\ Goto(Manager, "connect")
               /\ UNCHANGED <<netVars, lock, rpcVars, wire, inbox, serving, history>>

CallDisconnect == /\ pc[Manager] = "idle"
                  /\ Goto(Manager, "disconnect")
                  /\ UNCHANGED <<netVars, lock, rpcVars, wire, inbox, serving, history>>

\* connect() or disconnect() is cancelled while it waits for the lock.
CancelManager == /\ pc[Manager] \in {"connect", "disconnect"}
                 /\ Goto(Manager, "idle")
                 /\ UNCHANGED <<netVars, lock, rpcVars, wire, inbox, serving, history>>

\* With a _connection attribute connect() returns at once - also when an earlier
\* connect() failed after assigning it.  disconnect() returns at once without one.
BeginConnect ==
    /\ pc[Manager] = "connect" /\ lock = NoTask
    /\ IF attrs = "none" THEN lock' = Manager /\ Goto(Manager, "opening")
                         ELSE lock' = lock /\ Goto(Manager, "idle")
    /\ UNCHANGED <<netVars, rpcVars, wire, inbox, serving, history>>

BeginDisconnectUnlocked ==
    /\ pc[Manager] = "disconnect"
    /\ IF attrs # "none" THEN lock' = lock /\ Goto(Manager, "closing")
                         ELSE lock' = lock /\ Goto(Manager, "idle")
    /\ UNCHANGED <<netVars, rpcVars, wire, inbox, serving, history>>
BeginDisconnect ==
    /\ pc[Manager] = "disconnect" /\ lock = NoTask
    /\ IF attrs # "none" THEN lock' = Manager /\ Goto(Manager, "closing")
                         ELSE lock' = lock /\ Goto(Manager, "idle")
    /\ UNCHANGED <<netVars, rpcVars, wire, inbox, serving, history>>

\* connect_robust returns.  The handshake takes several network round trips, so a
\* close callback of the previous connection has run by then.
Opened ==
    /\ pc[Manager] = "opening" /\ ~closedCb
    /\ link' = "up"
    /\ attrs' = "connection"
    /\ gen' = gen + 1
    /\ Goto(Manager, "declaring")
    /\ UNCHANGED <<closedCb, lock, rpcVars, wire, inbox, serving,
                   pubGen, answered, cancelReq>>

NextStage == CASE attrs = "connection"     -> "exchanges"
               [] attrs = "exchanges"      -> "response_queue"
               [] attrs = "response_queue" -> "ready"
               [] OTHER                    -> attrs

\* The channel and the exchanges, the response queue, then its consumer.
Declare ==
    /\ pc[Manager] = "declaring" /\ link = "up"
    /\ attrs' = NextStage
    /\ IF NextStage = "ready" THEN lock' = NoTask /\ Goto(Manager, "idle")
                              ELSE UNCHANGED <<lock, pc>>
    /\ UNCHANGED <<link, closedCb, rpcVars, wire, inbox, serving, history>>

\* connect() raises or is cancelled at any await; what it assigned stays.
ConnectRaises ==
    /\ pc[Manager] \in {"opening", "declaring"}
    /\ lock' = NoTask
    /\ Goto(Manager, "idle")
    /\ UNCHANGED <<netVars, rpcVars, wire, inbox, serving, history>>

\* Every response still queued for this instance is lost with its exclusive queue.
QueueLost == inbox' = [c \in Calls |-> IF inbox[c] = "queued" THEN "none" ELSE inbox[c]]

\* connection.close(): the close callback is scheduled like after any other loss.
CloseConnection ==
    /\ pc[Manager] = "closing"
    /\ link' = "closed"
    /\ closedCb' = (closedCb \/ link = "up")
    /\ gen' = IF link = "up" THEN gen + 1 ELSE gen
    /\ QueueLost
    /\ Goto(Manager, "deleting")
    /\ UNCHANGED <<attrs, lock, rpcVars, wire, serving,
                   pubGen, answered, cancelReq>>

\* disconnect() raises or is cancelled while it awaits connection.close(), or is
\* cancelled before it resumes: every attribute stays, with a connection that is
\* closed by then or left as it was.
CloseRaisesLocked ==
    /\ pc[Manager] \in {"closing", "deleting"}
    /\ lock' = lock
    /\ Goto(Manager, "idle")
    /\ UNCHANGED <<netVars, rpcVars, wire, inbox, serving, history>>
CloseRaises ==
    /\ pc[Manager] \in {"closing", "deleting"}
    /\ link' \in {"closed", link}
    /\ LET lost == link = "up" /\ link' = "closed"
       IN  /\ closedCb' = (closedCb \/ lost)
           /\ gen' = IF lost THEN gen + 1 ELSE gen
           /\ IF lost THEN QueueLost ELSE UNCHANGED inbox
    /\ lock' = NoTask
    /\ Goto(Manager, "idle")
    /\ UNCHANGED <<attrs, rpcVars, wire, serving, pubGen, answered, cancelReq>>

DeleteAttributes ==
    /\ pc[Manager] = "deleting"
    /\ attrs' = "none"
    /\ lock' = NoTask
    /\ Goto(Manager, "idle")
    /\ UNCHANGED <<link, closedCb, rpcVars, wire, inbox, serving, history>>
-----------------------------------------------------------------------------
(* The connection and the broker. *)

Drop ==
    /\ link = "up" /\ gen < MaxGen
    /\ link' = "down"
    /\ closedCb' = TRUE
    /\ gen' = gen + 1
    /\ QueueLost
    /\ UNCHANGED <<attrs, lock, pc, rpcVars, wire, serving,
                   pubGen, answered, cancelReq>>

\* _on_connection_closed
OnConnectionClosedIgnores ==
    /\ closedCb
    /\ closedCb' = FALSE
    /\ UNCHANGED <<attrs, link, lock, pc, rpcVars, wire, inbox, serving, history>>
OnConnectionClosed ==
    /\ closedCb
    /\ closedCb' = FALSE
    /\ FailAwaiting
    /\ UNCHANGED <<attrs, link, lock, pc, wire, inbox, serving, history>>

\* The robust connection reconnects after its close callbacks, and _on_reconnected
\* only logs.
Reconnect ==
    /\ link = "down" /\ ~closedCb
    /\ link' = "up"
    /\ gen' = gen + 1
    /\ UNCHANGED <<attrs, closedCb, lock, pc, rpcVars, wire, inbox, serving,
                   pubGen, answered, cancelReq>>

\* The broker routes a publication to a queue, and confirms it, or returns it.
Accept(t) ==
    /\ pc[t] = "publish" /\ wire[t] = "unsent" /\ link = "up"
    /\ wire' = [wire EXCEPT ![t] = "accepted"]
    /\ pubGen' = [pubGen EXCEPT ![t] = gen]
    /\ UNCHANGED <<netVars, lock, pc, rpcVars, inbox, serving,
                   gen, answered, cancelReq>>

Confirm(t) ==
    /\ pc[t] = "publish" /\ wire[t] = "accepted" /\ link = "up"
    /\ pubGen[t] = gen
    /\ wire' = [wire EXCEPT ![t] = "confirmed"]
    /\ UNCHANGED <<netVars, lock, pc, rpcVars, inbox, serving, history>>

Return(t) ==
    /\ pc[t] = "publish" /\ wire[t] = "unsent" /\ link = "up"
    /\ wire' = [wire EXCEPT ![t] = "returned"]
    /\ UNCHANGED <<netVars, lock, pc, rpcVars, inbox, serving, history>>

\* Some worker answers a request the broker took - in time, late, or once more after
\* a redelivery.  Its response reaches the response queue while that exists.
Respond(c) ==
    /\ wire[c] \in {"accepted", "confirmed"}
    /\ answered' = answered \cup {c}
    /\ inbox' = IF link = "up" /\ inbox[c] = "none"
                THEN [inbox EXCEPT ![c] = "queued"] ELSE inbox
    /\ UNCHANGED <<netVars, lock, pc, rpcVars, wire, serving,
                   gen, pubGen, cancelReq>>
-----------------------------------------------------------------------------
CallStep(c) == \/ BeginCall(c) \/ BeginCallUnconnected(c)
               \/ CancelWait(c) \/ TimerFires(c) \/ WakeUp(c) \/ Unwind(c)
               \/ AckResponse(c) \/ OnResponse(c) \/ Respond(c)

PubStep(p) == BeginPub(p) \/ BeginPubUnconnected(p)

PublishStep(t) == \/ Invoke(t)
                  \/ PublishConfirmed(t) \/ PublishReturned(t) \/ PublishRaises(t)
                  \/ LibraryCancels(t) \/ CancelLock(t) \/ CancelPublish(t)
                  \/ Accept(t) \/ Confirm(t) \/ Return(t)

ManagerStep == \/ CallConnect \/ CallDisconnect \/ BeginConnect \/ BeginDisconnect
               \/ Opened \/ Declare \/ ConnectRaises \/ CloseConnection
               \/ CloseRaises \/ DeleteAttributes \/ CancelManager

Next == \/ \E c \in Calls : CallStep(c)
        \/ \E p \in Pubs : PubStep(p)
        \/ \E t \in Publishers : PublishStep(t)
        \/ \E r \in Served : ServeRequest(r) \/ ServedDone(r) \/ ReplyFails(r)
        \/ ManagerStep
        \/ Drop \/ OnConnectionClosed \/ Reconnect

Spec == Init /\ [][Next]_vars

\* asyncio runs every ready task and timer, and its Lock is first come first
\* served.  The broker answers while the link is up, and the robust connection
\* retries until the broker is back; on a closed one a publish raises
\* ChannelInvalidStateError (amqp.py:218-221).  Nobody is obliged to call, cancel,
\* connect, serve, respond, drop or fail.
Fairness ==
    /\ \A c \in Calls : /\ SF_vars(BeginCall(c) \/ BeginCallUnconnected(c))
                        /\ WF_vars(WakeUp(c))
                        /\ WF_vars(Unwind(c))
                        /\ WF_vars(TimerFires(c))
    /\ \A p \in Pubs : SF_vars(PubStep(p))
    /\ \A t \in Publishers :
          /\ WF_vars(Accept(t) \/ Return(t))
          /\ WF_vars(Confirm(t))
          /\ WF_vars(PublishConfirmed(t) \/ PublishReturned(t))
          /\ WF_vars((wire[t] = "accepted" \/ link = "closed") /\ PublishRaises(t))
    /\ SF_vars(BeginConnect \/ BeginDisconnect)
    /\ WF_vars(Opened \/ Declare \/ CloseConnection \/ DeleteAttributes)
    /\ WF_vars(OnConnectionClosed)
    /\ WF_vars(Reconnect)

FairSpec == Spec /\ Fairness
-----------------------------------------------------------------------------
(* Properties. *)

\* Type invariant: every variable of the transport instance keeps its type.
TypeOK ==
    /\ attrs \in Stages
    /\ link \in {"closed", "up", "down"}
    /\ closedCb \in BOOLEAN
    /\ lock \in Tasks \cup {NoTask}
    /\ pc \in [Tasks -> CallLabels \cup PubLabels \cup ManagerLabels]
    /\ \A c \in Calls : pc[c] \in CallLabels
    /\ \A p \in Pubs : pc[p] \in PubLabels
    /\ pc[Manager] \in ManagerLabels
    /\ fut \in [Calls -> {"none", "pending", "result", "lost", "cancelled"}]
    /\ awaiting \subseteq Calls
    /\ wire \in [Publishers -> {"unsent", "accepted", "confirmed", "returned"}]
    /\ inbox \in [Calls -> {"none", "queued", "acked"}]
    /\ serving \subseteq Served
    /\ gen \in Nat
    /\ pubGen \in [Publishers -> Nat]
    /\ answered \subseteq Calls
    /\ cancelReq \subseteq Publishers

\* self._lock protects the publish of every pattern, connect and disconnect: a
\* task is inside one of them exactly while it holds the lock, whatever way it
\* leaves - return, exception or cancellation, also of the close that disconnect()
\* awaits (the "finally: release()" clauses at amqp.py:142-143 and 207-208).
InCritical(t) == pc[t] \in {"publish", "opening", "declaring", "closing", "deleting"}
LockDiscipline == \A t \in Tasks : lock = t <=> InCritical(t)

\* A publish never loses the attributes it works with: connect and disconnect,
\* which assign and delete them over several awaits, cannot overlap it.
ExchangePresent ==
    /\ \A t \in Publishers : pc[t] = "publish" => attrs # "none"
    /\ \A c \in Calls : pc[c] = "publish" => CanPublishCall

\* A caller whose future is not done yet is in _awaiting_requests, so that the
\* response handler and _fail_awaiting_requests can still reach it - whoever
\* swapped the table, popped an entry or completed a future meanwhile.
NoOrphan == \A c \in Calls :
    pc[c] \in {"publish", "wait"} /\ fut[c] = "pending" => c \in awaiting

\* No entry outlives its call: whichever way send_request ends, its correlation_id
\* is gone from _awaiting_requests (the comment at amqp.py:381-385 names the one
\* path where nothing else would remove it).
NoLeak == \A c \in awaiting : pc[c] \in {"publish", "wait", "timingout", "cancelling"}

\* "Failed immediately ... instead of hanging until (or past) reconnection": a call
\* whose request went out on a connection that is gone is not left pending, except
\* while the close callback that will fail it is still scheduled.
Outstanding(c) == /\ fut[c] = "pending"
                  /\ \/ pc[c] = "wait"
                     \/ pc[c] = "publish" /\ wire[c] \in {"accepted", "confirmed"}
LossReported == \A c \in Calls :
    Outstanding(c) => closedCb \/ (link = "up" /\ pubGen[c] = gen)

\* A call only ends as cancelled if somebody cancelled it: aiormq's internal
\* CancelledError never reaches a caller (on a Python that can tell).
NoPhantomCancellation == \A t \in Publishers :
    TellsCancel /\ pc[t] = "cancelled" => t \in cancelReq

\* A future is completed at most once: the response handler, the three ways to fail
\* the table, the timer and a cancellation race for it, and a second completion
\* would raise InvalidStateError in whichever came last.
FutureSettledOnce ==
    [][\A c \in Calls : fut[c] \in {"result", "lost", "cancelled"} => fut'[c] = fut[c]]_vars

\* send_request honours the Transport contract: one outcome per call, a result only
\* from a handler, no handler after NoRouteError, no timeout without a timeout.
status == [c \in Calls |-> IF pc[c] \in {"idle"} \cup Outcomes THEN pc[c] ELSE "inflight"]
Contract == INSTANCE RpcContract WITH cancelReq <- cancelReq \cap Calls
ImplementsContract == Contract!Spec

\* With a timeout every call ends, whatever the other tasks do to the lock, the
\* connection and the table.
TimedCallsEnd == \A c \in Timed : pc[c] = "lock" ~> pc[c] \in Outcomes

\* Without one, a call still ends once the connection that carried it is gone.
LostConnectionEndsCalls == \A c \in Calls :
    (pc[c] = "wait" /\ pubGen[c] # gen) ~> pc[c] \in Outcomes

\* base.py:59-60: ConnectionLostError is "Raised for every RPC (@atask) request
\* currently in flight when the underlying transport connection to the broker is
\* lost" - so a request the broker took is not failed with it while the connection
\* that carried it is still the same and still up.
LostOnlyWithConnection ==
    [][\A c \in Calls : fut[c] = "pending" /\ fut'[c] = "lost"
                           => ~(link = "up" /\ Outstanding(c) /\ pubGen[c] = gen)]_vars

\* base.py:96-97: "After await this coroutine the transport should be ready to send
\* messages and register a callback" - so a connect() that returns instead of raising
\* leaves every attribute assigned.
ConnectMakesReady == [][BeginConnect /\ pc'[Manager] = "idle" => attrs = "ready"]_vars
=============================================================================
