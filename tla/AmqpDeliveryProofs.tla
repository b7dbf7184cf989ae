------------------------- MODULE AmqpDeliveryProofs -------------------------
(***************************************************************************)
(* Theorems about AmqpDelivery, for any processes, names and messages, and *)
(* any number of losses, crashes and unregistrations.  The inductive       *)
(* invariant follows the copies of a message: in a queue, on their way to  *)
(* a handler, and acknowledged.                                            *)
(***************************************************************************)
EXTENDS AmqpDelivery, TLAPS

\* Messages are in queues of their own name, and consumers at queues of their own.
Owned(i, q) == IsExclusive(q) => q[2] = i
InOwnQueues == /\ \A q \in Queues : \A m \in ready[q] : q[1] = NameOf[m]
               /\ \A d \in unacked : d[2][1] = NameOf[d[3]] /\ Owned(d[1], d[2])
ConsumersOwn == \A q \in Queues : \A i \in consumers[q] : Owned(i, q) /\ q[1] \in Serves[i]
ServedOnly == \A i \in Instances : /\ registered[i] \subseteq Serves[i]
                                   /\ registering[i] \in Serves[i] \cup {None}

\* A consumer belongs to the registration of its name, or is one left behind: an earlier
\* anonymous queue's, or the one of a shared queue that was not cancelled.
Left(i, q) == <<i, q[1]>> \in forgotten /\ (IsExclusive(q) => q[3] < serial[i][q[1]])
ConsumersHeld ==
    /\ \A i \in Instances : \A n \in registered[i] : i \in consumers[Queue(i, n)]
    /\ \A i \in Instances, n \in Names : <<i, n>> \in forgotten =>
           \E q \in Queues : q[1] = n /\ i \in consumers[q] /\ Left(i, q)
    /\ \A q \in Queues : \A i \in consumers[q] :
           (q = Queue(i, q[1]) /\ q[1] \in registered[i]) \/ Left(i, q)

\* A copy of m taken from the queue q and not handled yet.
Taken(m, q) == {t \in tasks : t.queue = q /\ t.msg = m /\ t.phase \in {"acking", "acked"}}

\* Of a broadcast, each exclusive queue gives one copy: waiting, taken, or handled.
OneCopy == \A m \in Messages, q \in Queues : IsExclusive(q) =>
    /\ sent[m] = "new" => m \notin ready[q] /\ Taken(m, q) = {} /\ handled[m][q] = 0
    /\ m \in ready[q] => Taken(m, q) = {} /\ handled[m][q] = 0
    /\ \A t, u \in Taken(m, q) : t = u
    /\ Taken(m, q) # {} => handled[m][q] = 0
AtMostOnce == \A m \in Messages, q \in Queues : IsExclusive(q) => handled[m][q] <= 1

\* Nothing is in, or came from, an anonymous queue that is yet to be declared.
Unused(q) == /\ q \notin declared /\ ready[q] = {} /\ consumers[q] = {}
             /\ \A t \in tasks : t.queue # q
             /\ \A m \in Messages : handled[m][q] = 0
Future(q) == IsExclusive(q) /\ q[3] > serial[q[2]][q[1]]
Numbered == \A q \in Queues : Future(q) => Unused(q)
\* Only an unregistration that raised leaves a queue behind.
Counted == \A i \in Instances, n \in Names : serial[i][n] <= unregisters

DeliveryOf(t) == <<t.inst, t.queue, t.msg>>

\* A task that has not acknowledged has a delivery the broker waits for; an acknowledgement
\* on its way comes from a task that is about to run the handler, or did.
AckingUnacked == \A t \in tasks : t.phase = "acking" =>
    DeliveryOf(t) \in unacked \ ackSent
Acknowledged(d) == \E t \in tasks : DeliveryOf(t) = d /\ t.phase = "acked"
AckedTaken == \A d \in ackSent : Acknowledged(d) \/ HandledFrom(d[3]) # {}
\* And no two tasks wait to acknowledge the same delivery.
OneAcking == \A t, u \in tasks :
    t.phase = "acking" /\ u.phase = "acking" /\ DeliveryOf(t) = DeliveryOf(u) => t = u
RunningHandled == \A t \in tasks :
    t.phase \in {"running", "calling", "called"} => HandledFrom(t.msg) # {}
\* A shared queue that holds a message, or waits for an acknowledgement, exists.
SharedDeclared ==
    /\ \A d \in unacked : ~IsExclusive(d[2]) => d[2] \in declared
    /\ \A q \in Queues : ready[q] # {} /\ ~IsExclusive(q) => q \in declared

\* A delivery holds its prefetch slot only until its acknowledgement, which waits for nothing.
SlotsFreed == \A d \in unacked :
    /\ link[d[1]] = "up"
    /\ d \in ackSent \/ \E t \in tasks : DeliveryOf(t) = d /\ t.phase = "acking"
\* While nothing failed, handlers can reply, and what was handled is replied to or about to be.
Answered == drops + crashes = 0 =>
    /\ lost = {} /\ \A t \in tasks : link[t.inst] = "up"
    /\ \A m \in Messages : Kind(m) = "rpc" /\ HandledFrom(m) # {} =>
           m \in replied \/ \E t \in tasks : t.msg = m
Served == SlotsFreed /\ Answered

Placed == InOwnQueues /\ ConsumersOwn /\ ServedOnly /\ ConsumersHeld /\ NoJobNotFound
Single == OneCopy /\ AtMostOnce
Tracked == AckingUnacked /\ OneAcking /\ AckedTaken /\ RunningHandled /\ SharedDeclared /\ AtLeastOnce
IInv == TypeOK /\ Counted /\ Numbered /\ Placed /\ Single /\ Tracked /\ Served
-----------------------------------------------------------------------------
(* Queues and steps. *)

\* A queue is bound to one name, and one registration owns it or all instances share it.
LEMMA QueueForm == \A i \in Instances, n \in Names, k \in 0..MaxUnregisters :
    /\ QueueOf(i, n, k) \in Queues
    /\ QueueOf(i, n, k)[1] = n
    /\ IsExclusive(QueueOf(i, n, k)) <=> KindOf[n] = "broadcast"
    /\ Owned(i, QueueOf(i, n, k))
    /\ IsExclusive(QueueOf(i, n, k)) => QueueOf(i, n, k)[3] = k
<1>1. None \notin Instances
  BY NamesAssumption
<1>2. QED
  BY <1>1 DEF QueueOf, Queues, IsExclusive, Owned

LEMMA QueuesAreNamed == \A q \in Queues :
    /\ q[1] \in Names /\ q = <<q[1], q[2], q[3]>> /\ q[3] \in 0..MaxUnregisters
    /\ IsExclusive(q) => q[2] \in Instances /\ KindOf[q[1]] = "broadcast"
                         /\ q = QueueOf(q[2], q[1], q[3])
    /\ ~IsExclusive(q) => KindOf[q[1]] # "broadcast" /\ \A i, k : q = QueueOf(i, q[1], k)
<1>1. None \notin Instances /\ 0 \in 0..MaxUnregisters
  BY NamesAssumption, BoundsAssumption
<1>2. QED
  BY <1>1 DEF QueueOf, Queues, IsExclusive

\* The queue of the next registration, or of the last one.
LEMMA CurrentQueue == ASSUME TypeOK, NEW i \in Instances, NEW n \in Names
    PROVE /\ Queue(i, n) \in Queues /\ Queue(i, n)[1] = n /\ Owned(i, Queue(i, n))
          /\ IsExclusive(Queue(i, n)) <=> KindOf[n] = "broadcast"
          /\ IsExclusive(Queue(i, n)) => Queue(i, n)[3] = serial[i][n]
<1>1. serial[i][n] \in 0..MaxUnregisters
  BY DEF TypeOK
<1>2. QED BY <1>1, QueueForm DEF Queue

LEMMA TaskFields == \A t \in AllTasks, phase \in Phases :
    /\ t.inst \in Instances /\ t.queue \in Queues /\ t.msg \in Messages /\ t.phase \in Phases
    /\ [t EXCEPT !.phase = phase] \in AllTasks
    /\ [t EXCEPT !.phase = phase] = Task(t.inst, t.queue, t.msg, t.redelivery, phase)
BY DEF AllTasks, Task

\* What each action does to the tasks.
LEMMA StepTyped == ASSUME TypeOK, NEW t \in tasks, NEW phase \in Phases, Step(t, phase)
                   PROVE tasks' \subseteq AllTasks
BY TaskFields DEF Step, TypeOK

LEMMA RouteTyped == ASSUME TypeOK, NEW m \in Messages, Route(m)
                    PROVE ready' \in [Queues -> SUBSET Messages]
                          /\ sent' \in [Messages -> {"new", "routed", "dropped"}]
BY DEF Route, TypeOK

LEMMA LoseTyped == ASSUME TypeOK, NEW i \in Instances, LoseConnection(i)
                   PROVE /\ declared' \subseteq Queues /\ ready' \in [Queues -> SUBSET Messages]
                         /\ unacked' \subseteq Instances \X Queues \X Messages
                         /\ ackSent' \subseteq unacked'
                         /\ registering' \in [Instances -> Names \cup {None}]
<1>1. /\ declared' \subseteq Queues /\ registering' \in [Instances -> Names \cup {None}]
  BY DEF LoseConnection, TypeOK, WithoutExclusive
<1>2. ready' \in [Queues -> SUBSET Messages]
  BY DEF LoseConnection, TypeOK, Requeued
<1>3. unacked' \subseteq Instances \X Queues \X Messages /\ ackSent' \subseteq unacked'
  BY DEF LoseConnection, TypeOK, DeliveriesOf
<1>4. QED BY <1>1, <1>2, <1>3

\* Every step keeps the types.
LEMMA TypePreserved == TypeOK /\ Counted /\ [Next]_vars => TypeOK'
<1>1. SUFFICES ASSUME TypeOK, Counted, [Next]_vars PROVE TypeOK'
  OBVIOUS
<1> USE DEF faultVars, leftVars, brokerVars, runVars
<1>2. ASSUME NEW m \in Messages, Publish(m) PROVE TypeOK'
  BY <1>1, <1>2, RouteTyped DEF Publish, TypeOK
<1>3. ASSUME NEW i \in Instances, NEW n \in Names, DeclareQueue(i, n) PROVE TypeOK'
  <2>1. ready' \in [Queues -> SUBSET Messages]
    BY <1>1, <1>3 DEF DeclareQueue, Cleared, TypeOK
  <2>2. QED BY <1>1, <1>3, <2>1, CurrentQueue DEF DeclareQueue, TypeOK
<1>4. ASSUME NEW i \in Instances, Consume(i) PROVE TypeOK'
  BY <1>1, <1>4 DEF Consume, TypeOK
<1>5. ASSUME NEW i \in Instances, RegisterRaises(i) PROVE TypeOK'
  BY <1>1, <1>5 DEF RegisterRaises, TypeOK
<1>6. ASSUME NEW i \in Instances, NEW n \in Names, Unregister(i, n) PROVE TypeOK'
  <2>1. ready' \in [Queues -> SUBSET Messages]
    BY <1>1, <1>6 DEF Unregister, Cleared, TypeOK
  <2>2. consumers' \in [Queues -> SUBSET Instances] /\ declared' \subseteq Queues
    BY <1>1, <1>6 DEF Unregister, TypeOK
  <2>3. registered' \in [Instances -> SUBSET Names] /\ unregisters' \in 0..MaxUnregisters
    BY <1>1, <1>6, BoundsAssumption DEF Unregister, TypeOK
  <2>4. QED BY <1>1, <1>6, <2>1, <2>2, <2>3 DEF Unregister, TypeOK
<1>7. ASSUME NEW i \in Instances, NEW n \in Names, UnregisterRaises(i, n) PROVE TypeOK'
  <2>1. serial[i][n] \in 0..MaxUnregisters /\ serial[i][n] <= unregisters /\ unregisters < MaxUnregisters
    BY <1>1, <1>7 DEF UnregisterRaises, TypeOK, Counted
  <2>2. serial[i][n] + 1 \in 0..MaxUnregisters /\ unregisters' \in 0..MaxUnregisters
    BY <1>1, <1>7, <2>1, BoundsAssumption DEF UnregisterRaises, TypeOK
  <2>3. serial' \in [Instances -> [Names -> 0..MaxUnregisters]]
    BY <1>1, <1>7, <2>2 DEF UnregisterRaises, TypeOK
  <2>4. QED BY <1>1, <1>7, <2>2, <2>3 DEF UnregisterRaises, TypeOK
<1>8. ASSUME NEW i \in Instances, NEW q \in Queues, NEW m \in Messages, Deliver(i, q, m) PROVE TypeOK'
  <2>1. Task(i, q, m, Redelivery(i, q, m), "acking") \in AllTasks
    BY <1>1, BoundsAssumption DEF Task, Redelivery, AllTasks, Phases, TypeOK
  <2>2. QED BY <1>1, <1>8, <2>1 DEF Deliver, TypeOK
<1>9. ASSUME NEW t \in tasks, Ack(t) PROVE TypeOK'
  BY <1>1, <1>9, StepTyped, "acked" \in Phases DEF Ack, TypeOK, Phases
<1>10. ASSUME NEW d \in ackSent, BrokerAck(d) PROVE TypeOK'
  BY <1>1, <1>10 DEF BrokerAck, TypeOK
<1>11. ASSUME NEW t \in tasks, RunHandler(t) PROVE TypeOK'
  <2>1. tasks' \subseteq AllTasks
    BY <1>1, <1>11, StepTyped DEF RunHandler, Phases
  <2>2. t.msg \in Messages /\ t.queue \in Queues
    BY <1>1 DEF TypeOK, AllTasks
  <2>3. handled' \in [Messages -> [Queues -> Nat]]
    BY <1>1, <1>11, <2>2 DEF RunHandler, TypeOK
  <2>4. QED BY <1>1, <1>11, <2>1, <2>3 DEF RunHandler, TypeOK
<1>12. ASSUME NEW t \in tasks, CallChild(t) PROVE TypeOK'
  <2>1. tasks' \subseteq AllTasks
    BY <1>1, <1>12, StepTyped DEF CallChild, Phases
  <2>2. Child[t.msg] \in Messages
    BY <1>1, <1>12, NamesAssumption DEF CallChild, TypeOK, AllTasks
  <2>3. QED BY <1>1, <1>12, <2>1, <2>2, RouteTyped DEF CallChild, TypeOK
<1>13. ASSUME NEW t \in tasks, ChildDone(t) PROVE TypeOK'
  BY <1>1, <1>13, StepTyped DEF ChildDone, TypeOK, Phases
<1>14. ASSUME NEW t \in tasks, Finish(t) PROVE TypeOK'
  <2>1. t.msg \in Messages
    BY <1>1 DEF TypeOK, AllTasks
  <2>2. QED BY <1>1, <1>14, <2>1 DEF Finish, End, TypeOK
<1>15. ASSUME NEW i \in Instances, Drop(i) PROVE TypeOK'
  <2>1. tasks' \subseteq AllTasks
    <3>1. \A t \in tasks : [t EXCEPT !.phase = "called"] \in AllTasks
      BY <1>1, TaskFields DEF TypeOK, Phases
    <3>2. QED BY <1>1, <1>15, <3>1 DEF Drop, SurvivesDrop, TypeOK
  <2>2. QED BY <1>1, <1>15, <2>1, LoseTyped, BoundsAssumption DEF Drop, TypeOK
<1>16. ASSUME NEW i \in Instances, Reconnect(i) PROVE TypeOK'
  BY <1>1, <1>16 DEF Reconnect, TypeOK
<1>17. ASSUME NEW i \in Instances, Crash(i) PROVE TypeOK'
  <2>1. lost' \subseteq Messages
    <3>1. \A t \in tasks : t.msg \in Messages
      BY <1>1 DEF TypeOK, AllTasks
    <3>2. QED BY <1>1, <1>17, <3>1 DEF Crash, TypeOK
  <2>2. QED BY <1>1, <1>17, <2>1, LoseTyped, BoundsAssumption DEF Crash, TypeOK
<1>18. ASSUME NEW i \in Instances, Start(i) PROVE TypeOK'
  BY <1>1, <1>18 DEF Start, TypeOK
<1>19. CASE UNCHANGED vars
  BY <1>1, <1>19 DEF vars, TypeOK
<1>20. QED
  BY <1>1, <1>2, <1>3, <1>4, <1>5, <1>6, <1>7, <1>8, <1>9, <1>10, <1>11, <1>12, <1>13, <1>14,
     <1>15, <1>16, <1>17, <1>18, <1>19 DEF Next, InstanceStep, TaskStep
-----------------------------------------------------------------------------
(* Where messages and consumers are. *)

\* A consumer at the queue of a message serves the message's name.
LEMMA ConsumerServes ==
    ASSUME TypeOK, Placed, NEW i \in Instances, NEW q \in Queues, NEW m \in Messages,
           i \in consumers[q], m \in ready[q]
    PROVE q[1] = NameOf[m] /\ Owned(i, q) /\ NameOf[m] \in Serves[i]
BY DEF Placed, InOwnQueues, ConsumersOwn

\* Tasks come and go, or take another phase: their instances and messages stay.
LEMMA StepSame == ASSUME TypeOK, NoJobNotFound, NEW t \in tasks, NEW phase \in Phases, Step(t, phase)
                  PROVE NoJobNotFound'
<1>1. [t EXCEPT !.phase = phase].msg = t.msg /\ [t EXCEPT !.phase = phase].inst = t.inst
  BY DEF TypeOK, AllTasks
<1>2. QED BY <1>1 DEF Step, NoJobNotFound

\* A message is put into queues of its name only.
LEMMA RouteBinds == ASSUME TypeOK, InOwnQueues, NEW m \in Messages, Route(m), UNCHANGED unacked
                    PROVE InOwnQueues'
BY DEF Route, Binds, InOwnQueues, TypeOK

\* The broker requeues where the message came from.
LEMMA LosePlaces == ASSUME TypeOK, InOwnQueues, NEW i \in Instances, LoseConnection(i)
                    PROVE InOwnQueues'
<1>1. ASSUME NEW q \in Queues, NEW m \in ready'[q] PROVE q[1] = NameOf[m]
  <2>1. m \in ready[q] \/ (m \in Messages /\ <<i, q, m>> \in unacked)
    BY <1>1 DEF LoseConnection, Requeued, DeliveriesOf
  <2>2. CASE m \in ready[q]
    BY <2>2 DEF InOwnQueues
  <2>3. CASE m \in Messages /\ <<i, q, m>> \in unacked
    <3>1. <<i, q, m>>[2] = q /\ <<i, q, m>>[3] = m
      OBVIOUS
    <3>2. QED BY <2>3, <3>1 DEF InOwnQueues
  <2>4. QED BY <2>1, <2>2, <2>3
<1>2. unacked' \subseteq unacked
  BY DEF LoseConnection
<1>3. QED BY <1>1, <1>2 DEF InOwnQueues

\* Registering and unregistering keep dictionaries and consumers in step.
LEMMA ConsumePlaces == ASSUME TypeOK, Placed, NEW i \in Instances, Consume(i)
                       PROVE ConsumersOwn' /\ ServedOnly' /\ ConsumersHeld'
<1> DEFINE n == registering[i]
<1> DEFINE p == Queue(i, n)
<1>1. n \in Names /\ n \in Serves[i] /\ p \in Queues /\ p[1] = n /\ Owned(i, p)
  <2>1. n \in Serves[i]
    BY DEF Consume, Placed, ServedOnly
  <2>2. QED BY <2>1, CurrentQueue, NamesAssumption
<1>2. /\ consumers' = [consumers EXCEPT ![p] = @ \cup {i}]
      /\ registered' = [registered EXCEPT ![i] = @ \cup {n}]
      /\ registering' = [registering EXCEPT ![i] = None] /\ forgotten' = forgotten
      /\ serial' = serial
  BY DEF Consume, leftVars
<1>3. /\ \A j \in Instances, k \in Names : Queue(j, k)' = Queue(j, k)
      /\ \A j \in Instances, q \in Queues : Left(j, q)' <=> Left(j, q)
      /\ p = Queue(i, n)
  BY <1>2 DEF Queue, Left
<1> HIDE DEF p
<1>4. \A q \in Queues, j \in Instances :
          j \in consumers'[q] <=> j \in consumers[q] \/ (q = p /\ j = i)
  BY <1>1, <1>2 DEF TypeOK
<1>5. \A j \in Instances, k \in Names :
          k \in registered'[j] <=> k \in registered[j] \/ (k = n /\ j = i)
  BY <1>1, <1>2 DEF TypeOK
<1>6. /\ \A q \in Queues : consumers'[q] \subseteq Instances /\ consumers[q] \subseteq Instances
      /\ \A j \in Instances : registered'[j] \subseteq Names /\ registered[j] \subseteq Names
  BY <1>1, <1>2 DEF TypeOK
<1>7. ConsumersOwn'
  BY <1>1, <1>4, <1>6 DEF Placed, ConsumersOwn, Owned
<1>8. ServedOnly'
  BY <1>1, <1>2 DEF Placed, ServedOnly, TypeOK
<1>9. ConsumersHeld'
  <2>1. ASSUME NEW j \in Instances, NEW k \in registered'[j] PROVE j \in consumers'[Queue(j, k)]
    <3>1. k \in Names /\ Queue(j, k) \in Queues
      BY <1>6, <2>1, CurrentQueue
    <3>2. k \in registered[j] => j \in consumers[Queue(j, k)]
      BY DEF Placed, ConsumersHeld
    <3>3. QED BY <1>3, <1>4, <1>5, <2>1, <3>1, <3>2
  <2>2. ASSUME NEW j \in Instances, NEW k \in Names, <<j, k>> \in forgotten
        PROVE \E q \in Queues : q[1] = k /\ j \in consumers'[q] /\ Left(j, q)
    BY <1>4, <2>2 DEF Placed, ConsumersHeld
  <2>3. ASSUME NEW q \in Queues, NEW j \in consumers'[q]
        PROVE (q = Queue(j, q[1]) /\ q[1] \in registered'[j]) \/ Left(j, q)
    <3>1. j \in Instances /\ q[1] \in Names
      BY <1>6, <2>3, QueuesAreNamed
    <3>2. CASE j \in consumers[q]
      BY <1>5, <3>1, <3>2 DEF Placed, ConsumersHeld
    <3>3. CASE q = p /\ j = i
      BY <1>1, <1>3, <1>5, <3>1, <3>3
    <3>4. QED BY <1>4, <2>3, <3>1, <3>2, <3>3
  <2>4. QED BY <1>2, <1>3, <1>6, <2>1, <2>2, <2>3, QueuesAreNamed DEF ConsumersHeld
<1>10. QED BY <1>7, <1>8, <1>9

\* A clean one cancels its own consumer; one left at the same shared queue stays.
LEMMA UnregisterPlaces == ASSUME TypeOK, Placed, NEW i \in Instances, NEW n \in Names, Unregister(i, n)
                          PROVE ConsumersOwn' /\ ServedOnly' /\ ConsumersHeld'
<1> DEFINE p == Queue(i, n)
<1> DEFINE last == IsExclusive(p) \/ <<i, n>> \notin forgotten
<1>1. p \in Queues /\ p[1] = n /\ Owned(i, p) /\ (IsExclusive(p) => p[3] = serial[i][n])
  BY CurrentQueue
<1>2. /\ consumers' = IF last THEN [consumers EXCEPT ![p] = @ \ {i}] ELSE consumers
      /\ registered' = [registered EXCEPT ![i] = @ \ {n}]
      /\ registering' = registering /\ forgotten' = forgotten /\ serial' = serial
  BY DEF Unregister, leftVars
<1>3. /\ \A j \in Instances, k \in Names : Queue(j, k)' = Queue(j, k)
      /\ \A j \in Instances, q \in Queues : Left(j, q)' <=> Left(j, q)
      /\ p = Queue(i, n) /\ (last <=> IsExclusive(p) \/ <<i, n>> \notin forgotten)
  BY <1>2 DEF Queue, Left
<1> HIDE DEF p, last
<1>4. \A q \in Queues, j \in Instances :
          j \in consumers'[q] <=> j \in consumers[q] /\ ~(last /\ q = p /\ j = i)
  BY <1>1, <1>2 DEF TypeOK
<1>5. \A j \in Instances, k \in Names :
          k \in registered'[j] <=> k \in registered[j] /\ ~(k = n /\ j = i)
  BY <1>1, <1>2 DEF TypeOK
<1>6. /\ \A q \in Queues : consumers'[q] \subseteq Instances /\ consumers[q] \subseteq Instances
      /\ \A j \in Instances : registered'[j] \subseteq Names /\ registered[j] \subseteq Names
  BY <1>1, <1>2 DEF TypeOK
<1>7. ConsumersOwn'
  BY <1>4, <1>6 DEF Placed, ConsumersOwn, Owned
<1>8. ServedOnly'
  BY <1>2 DEF Placed, ServedOnly, TypeOK
<1>9. ConsumersHeld'
  <2>1. ASSUME NEW j \in Instances, NEW k \in registered'[j] PROVE j \in consumers'[Queue(j, k)]
    <3>1. k \in Names /\ Queue(j, k) \in Queues /\ Queue(j, k)[1] = k
      BY <1>6, <2>1, CurrentQueue
    <3>2. k \in registered[j] /\ ~(k = n /\ j = i)
      BY <1>5, <2>1, <3>1
    <3>3. j \in consumers[Queue(j, k)]
      BY <3>2 DEF Placed, ConsumersHeld
    <3>4. ~(j = i /\ Queue(j, k) = p)
      BY <1>1, <3>1, <3>2
    <3>5. QED BY <1>4, <3>1, <3>3, <3>4
  <2>2. ASSUME NEW j \in Instances, NEW k \in Names, <<j, k>> \in forgotten
        PROVE \E q \in Queues : q[1] = k /\ j \in consumers'[q] /\ Left(j, q)
    <3>1. PICK q \in Queues : q[1] = k /\ j \in consumers[q] /\ Left(j, q)
      BY <2>2 DEF Placed, ConsumersHeld
    <3>2. ~(last /\ q = p /\ j = i)
      <4>1. serial[i][n] \in Nat
        BY DEF TypeOK
      <4>2. QED BY <1>1, <1>3, <3>1, <4>1 DEF Left
    <3>3. QED BY <1>4, <3>1, <3>2
  <2>3. ASSUME NEW q \in Queues, NEW j \in consumers'[q]
        PROVE (q = Queue(j, q[1]) /\ q[1] \in registered'[j]) \/ Left(j, q)
    <3>1. j \in Instances /\ q[1] \in Names /\ j \in consumers[q] /\ ~(last /\ q = p /\ j = i)
      BY <1>4, <1>6, <2>3, QueuesAreNamed
    <3>2. CASE q[1] = n /\ j = i /\ q = p
      BY <1>1, <1>3, <3>1, <3>2 DEF Left
    <3>3. CASE ~(q[1] = n /\ j = i /\ q = p)
      BY <1>3, <1>5, <3>1, <3>3 DEF Placed, ConsumersHeld
    <3>4. QED BY <3>2, <3>3
  <2>4. QED BY <1>2, <1>3, <1>6, <2>1, <2>2, <2>3, QueuesAreNamed DEF ConsumersHeld
<1>10. QED BY <1>7, <1>8, <1>9

\* One that raised leaves its consumer where it is, and the next queue is another.
LEMMA RaisedPlaces == ASSUME TypeOK, Placed, NEW i \in Instances, NEW n \in Names,
                             UnregisterRaises(i, n)
                      PROVE ConsumersHeld'
<1>1. /\ consumers' = consumers /\ registered' = [registered EXCEPT ![i] = @ \ {n}]
      /\ forgotten' = forgotten \cup {<<i, n>>} /\ n \in registered[i]
      /\ serial' = [serial EXCEPT ![i][n] = @ + 1]
  BY DEF UnregisterRaises, brokerVars
<1>2. /\ \A j \in Instances, k \in Names : serial[j][k] \in Nat
      /\ \A j \in Instances, k \in Names : ~(j = i /\ k = n) => serial'[j][k] = serial[j][k]
      /\ serial'[i][n] = serial[i][n] + 1
  BY <1>1 DEF TypeOK
<1>3. /\ \A q \in Queues : consumers[q] \subseteq Instances
      /\ \A j \in Instances : registered[j] \subseteq Names
      /\ \A j \in Instances, k \in Names :
             k \in registered'[j] <=> k \in registered[j] /\ ~(j = i /\ k = n)
  BY <1>1 DEF TypeOK
<1>4. /\ Queue(i, n) \in Queues /\ Queue(i, n)[1] = n /\ i \in consumers[Queue(i, n)]
      /\ IsExclusive(Queue(i, n)) => Queue(i, n)[3] = serial[i][n]
  BY <1>1, CurrentQueue DEF Placed, ConsumersHeld, TypeOK
<1>5. ASSUME NEW q \in Queues, NEW j \in Instances, Left(j, q) \/ (j = i /\ q = Queue(i, n))
      PROVE Left(j, q)'
  <2>1. q[1] \in Names /\ q[3] \in Nat
    BY QueuesAreNamed, BoundsAssumption
  <2>2. /\ serial[j][q[1]] <= serial'[j][q[1]]
        /\ serial'[j][q[1]] \in Nat /\ serial[j][q[1]] \in Nat
    BY <1>2, <2>1
  <2>3. CASE Left(j, q)
    BY <1>1, <2>1, <2>2, <2>3 DEF Left
  <2>4. CASE j = i /\ q = Queue(i, n)
    BY <1>1, <1>2, <1>4, <2>1, <2>2, <2>4 DEF Left
  <2>5. QED BY <1>5, <2>3, <2>4
<1>6. \A j \in Instances, k \in Names : ~(j = i /\ k = n) => Queue(j, k)' = Queue(j, k)
  BY <1>2 DEF Queue
<1>7. ASSUME NEW j \in Instances, NEW k \in registered'[j] PROVE j \in consumers'[Queue(j, k)']
  <2>1. k \in registered[j] /\ ~(j = i /\ k = n) /\ k \in Names
    BY <1>1, <1>3, <1>7 DEF TypeOK
  <2>2. QED BY <1>1, <1>6, <2>1 DEF Placed, ConsumersHeld
<1>8. ASSUME NEW j \in Instances, NEW k \in Names, <<j, k>> \in forgotten'
      PROVE \E q \in Queues : q[1] = k /\ j \in consumers'[q] /\ Left(j, q)'
  <2>1. CASE <<j, k>> \in forgotten
    <3>1. PICK q \in Queues : q[1] = k /\ j \in consumers[q] /\ Left(j, q)
      BY <2>1 DEF Placed, ConsumersHeld
    <3>2. QED BY <1>1, <1>5, <3>1
  <2>2. CASE j = i /\ k = n
    <3>1. PICK q \in Queues : q = Queue(i, n)
      BY <1>4
    <3>2. QED BY <1>1, <1>4, <1>5, <2>2, <3>1
  <2>3. QED BY <1>1, <1>8, <2>1, <2>2
<1>9. ASSUME NEW q \in Queues, NEW j \in consumers'[q]
      PROVE (q = Queue(j, q[1])' /\ q[1] \in registered'[j]) \/ Left(j, q)'
  <2>1. j \in Instances /\ q[1] \in Names /\ j \in consumers[q]
    BY <1>1, <1>3, <1>9, QueuesAreNamed
  <2>2. CASE Left(j, q) \/ (j = i /\ q = Queue(i, n))
    BY <1>5, <2>1, <2>2
  <2>3. CASE ~(Left(j, q) \/ (j = i /\ q = Queue(i, n)))
    <3>1. q = Queue(j, q[1]) /\ q[1] \in registered[j]
      BY <2>1, <2>3 DEF Placed, ConsumersHeld
    <3>2. ~(j = i /\ q[1] = n)
      BY <2>3, <3>1
    <3>3. QED BY <1>3, <1>6, <2>1, <3>1, <3>2
  <2>4. QED BY <2>2, <2>3
<1>10. QED BY <1>7, <1>8, <1>9 DEF ConsumersHeld

LEMMA HeldKept == ASSUME ConsumersHeld, UNCHANGED <<consumers, registered, forgotten, serial>>
                  PROVE ConsumersHeld'
<1>1. \A j \in Instances : \A k : Queue(j, k)' = Queue(j, k)
  BY DEF Queue
<1>2. \A q \in Queues : \A j : Left(j, q)' <=> Left(j, q)
  BY DEF Left
<1>3. QED BY <1>1, <1>2 DEF ConsumersHeld, Queue, Left

LEMMA PlacedPreserved == TypeOK /\ Placed /\ [Next]_vars => Placed'
<1>1. SUFFICES ASSUME TypeOK, Placed, [Next]_vars PROVE Placed'
  OBVIOUS
<1> USE DEF faultVars, leftVars, brokerVars, runVars
<1>2. ASSUME NEW m \in Messages, Publish(m) PROVE Placed'
  <2>1. InOwnQueues'
    BY <1>1, <1>2, RouteBinds DEF Publish, Placed
  <2>2. QED BY <1>1, <1>2, <2>1
           DEF Publish, Placed, ConsumersOwn, ServedOnly, ConsumersHeld, Left, Queue, NoJobNotFound
<1>3. ASSUME NEW i \in Instances, NEW n \in Names, DeclareQueue(i, n) PROVE Placed'
  <2>1. \A q \in Queues : ready'[q] \subseteq ready[q]
    BY <1>3 DEF DeclareQueue, Cleared
  <2>2. InOwnQueues'
    BY <1>1, <1>3, <2>1 DEF DeclareQueue, Placed, InOwnQueues
  <2>3. QED BY <1>1, <1>3, <2>2 DEF DeclareQueue, Placed, ConsumersOwn, ServedOnly, ConsumersHeld, Left,
                                    Queue, NoJobNotFound, TypeOK
<1>4. ASSUME NEW i \in Instances, Consume(i) PROVE Placed'
  BY <1>1, <1>4, ConsumePlaces DEF Consume, Placed, InOwnQueues, NoJobNotFound
<1>5. ASSUME NEW i \in Instances, RegisterRaises(i) PROVE Placed'
  <2>1. ConsumersHeld'
    BY <1>1, <1>5, HeldKept DEF RegisterRaises, Placed
  <2>2. QED BY <1>1, <1>5, <2>1 DEF RegisterRaises, Placed, InOwnQueues, ConsumersOwn, ServedOnly,
                                    NoJobNotFound, TypeOK
<1>6. ASSUME NEW i \in Instances, NEW n \in Names, Unregister(i, n) PROVE Placed'
  <2>1. \A q \in Queues : ready'[q] \subseteq ready[q]
    BY <1>6 DEF Unregister, Cleared
  <2>2. InOwnQueues'
    BY <1>1, <1>6, <2>1 DEF Unregister, Placed, InOwnQueues
  <2>3. NoJobNotFound'
    BY <1>1, <1>6 DEF Unregister, Placed, NoJobNotFound
  <2>4. QED BY <1>1, <1>6, <2>2, <2>3, UnregisterPlaces DEF Placed
<1>7. ASSUME NEW i \in Instances, NEW n \in Names, UnregisterRaises(i, n) PROVE Placed'
  <2>1. ConsumersHeld'
    BY <1>1, <1>7, RaisedPlaces
  <2>2. QED BY <1>1, <1>7, <2>1
           DEF UnregisterRaises, Placed, InOwnQueues, ConsumersOwn, ServedOnly, NoJobNotFound, TypeOK
<1>8. ASSUME NEW i \in Instances, NEW q \in Queues, NEW m \in Messages, Deliver(i, q, m) PROVE Placed'
  <2>1. q[1] = NameOf[m] /\ Owned(i, q) /\ NameOf[m] \in Serves[i]
    BY <1>1, <1>8, ConsumerServes DEF Deliver
  <2>2. InOwnQueues'
    BY <1>1, <1>8, <2>1 DEF Deliver, Placed, InOwnQueues, TypeOK
  <2>3. NoJobNotFound'
    BY <1>1, <1>8, <2>1 DEF Deliver, Placed, NoJobNotFound, Task
  <2>4. QED BY <1>1, <1>8, <2>2, <2>3 DEF Deliver, Placed, ConsumersOwn, ServedOnly, ConsumersHeld, Left, Queue
<1>9. ASSUME NEW t \in tasks, Ack(t) PROVE Placed'
  <2>1. NoJobNotFound'
    BY <1>1, <1>9, StepSame DEF Ack, Placed, Phases
  <2>2. QED BY <1>1, <1>9, <2>1 DEF Ack, Placed, InOwnQueues, ConsumersOwn, ServedOnly, ConsumersHeld, Left, Queue
<1>10. ASSUME NEW d \in ackSent, BrokerAck(d) PROVE Placed'
  BY <1>1, <1>10 DEF BrokerAck, Placed, InOwnQueues, ConsumersOwn, ServedOnly, ConsumersHeld, Left, Queue,
                     NoJobNotFound
<1>11. ASSUME NEW t \in tasks, RunHandler(t) PROVE Placed'
  <2>1. NoJobNotFound'
    BY <1>1, <1>11, StepSame DEF RunHandler, Placed, Phases
  <2>2. QED BY <1>1, <1>11, <2>1
           DEF RunHandler, Placed, InOwnQueues, ConsumersOwn, ServedOnly, ConsumersHeld, Left, Queue
<1>12. ASSUME NEW t \in tasks, CallChild(t) PROVE Placed'
  <2>1. NoJobNotFound'
    BY <1>1, <1>12, StepSame DEF CallChild, Placed, Phases
  <2>2. Child[t.msg] \in Messages
    BY <1>1, <1>12, NamesAssumption DEF CallChild, TypeOK, AllTasks
  <2>3. InOwnQueues'
    BY <1>1, <1>12, <2>2, RouteBinds DEF CallChild, Placed
  <2>4. QED BY <1>1, <1>12, <2>1, <2>3
           DEF CallChild, Placed, ConsumersOwn, ServedOnly, ConsumersHeld, Left, Queue
<1>13. ASSUME NEW t \in tasks, ChildDone(t) PROVE Placed'
  <2>1. NoJobNotFound'
    BY <1>1, <1>13, StepSame DEF ChildDone, Placed, Phases
  <2>2. QED BY <1>1, <1>13, <2>1
           DEF ChildDone, Placed, InOwnQueues, ConsumersOwn, ServedOnly, ConsumersHeld, Left, Queue
<1>14. ASSUME NEW t \in tasks, Finish(t) PROVE Placed'
  BY <1>1, <1>14 DEF Finish, End, Placed, InOwnQueues, ConsumersOwn, ServedOnly, ConsumersHeld, Left, Queue,
                     NoJobNotFound
<1>15. ASSUME NEW i \in Instances, Drop(i) PROVE Placed'
  <2>1. NoJobNotFound'
    <3>1. \A t \in tasks : /\ [t EXCEPT !.phase = "called"].msg = t.msg
                           /\ [t EXCEPT !.phase = "called"].inst = t.inst
      BY <1>1 DEF TypeOK, AllTasks
    <3>2. \A t \in tasks : NameOf[t.msg] \in Serves[t.inst]
      BY <1>1 DEF Placed, NoJobNotFound
    <3>3. \A t \in SurvivesDrop(i) : \E u \in tasks : t.msg = u.msg /\ t.inst = u.inst
      BY <3>1 DEF SurvivesDrop
    <3>4. \A t \in SurvivesDrop(i) : NameOf[t.msg] \in Serves[t.inst]
      BY <3>2, <3>3
    <3>5. tasks' = SurvivesDrop(i)
      BY <1>15 DEF Drop
    <3>6. QED BY <3>4, <3>5 DEF NoJobNotFound
  <2>2. InOwnQueues'
    BY <1>1, <1>15, LosePlaces DEF Drop, Placed
  <2>3. ConsumersHeld'
    BY <1>1, <1>15, HeldKept DEF Drop, Placed
  <2>4. QED BY <1>1, <1>15, <2>1, <2>2, <2>3
           DEF Drop, LoseConnection, Placed, ConsumersOwn, ServedOnly, TypeOK
<1>16. ASSUME NEW i \in Instances, Reconnect(i) PROVE Placed'
  BY <1>1, <1>16 DEF Reconnect, Placed, InOwnQueues, ConsumersOwn, ServedOnly, ConsumersHeld, Left, Queue,
                     NoJobNotFound
<1>17. ASSUME NEW i \in Instances, Crash(i) PROVE Placed'
  <2>1. InOwnQueues'
    BY <1>1, <1>17, LosePlaces DEF Crash, Placed
  <2>2. NoJobNotFound'
    BY <1>1, <1>17 DEF Crash, Placed, NoJobNotFound
  <2>3. ConsumersOwn' /\ ServedOnly'
    BY <1>1, <1>17 DEF Crash, LoseConnection, Placed, ConsumersOwn, ServedOnly, TypeOK
  <2>4. ConsumersHeld'
    <3>1. \A j \in Instances, k \in Names : /\ j # i => registered'[j] = registered[j]
                                            /\ registered'[i] = {} /\ Queue(j, k)' = Queue(j, k)
                                            /\ <<j, k>> \in forgotten' <=> j # i /\ <<j, k>> \in forgotten
      BY <1>1, <1>17 DEF Crash, TypeOK, Queue
    <3>2. \A q \in Queues : consumers'[q] = consumers[q] \ {i} /\ consumers[q] \subseteq Instances
      BY <1>1, <1>17 DEF Crash, TypeOK
    <3>3. \A q \in Queues, j \in Instances : j # i => (Left(j, q)' <=> Left(j, q))
      <4>1. \A q \in Queues : q[1] \in Names
        BY QueuesAreNamed
      <4>2. serial' = serial
        BY <1>17 DEF Crash
      <4>3. QED BY <3>1, <4>1, <4>2 DEF Left
    <3>4. \A j \in Instances : \A k \in registered[j] : k \in Names /\ Queue(j, k) \in Queues
      BY <1>1, CurrentQueue DEF TypeOK
    <3>5. \A j \in Instances : \A k \in registered'[j] : j \in consumers'[Queue(j, k)']
      <4>1. SUFFICES ASSUME NEW j \in Instances, NEW k \in registered'[j]
                     PROVE j \in consumers'[Queue(j, k)']
        OBVIOUS
      <4>2. \A x \in Instances : (x # i => registered'[x] = registered[x]) /\ registered'[i] = {}
        BY <1>1, <1>17 DEF Crash, TypeOK
      <4>3. j # i /\ k \in registered[j]
        BY <4>1, <4>2
      <4>4. k \in Names /\ Queue(j, k) \in Queues /\ Queue(j, k)' = Queue(j, k)
        BY <3>1, <3>4, <4>3
      <4>5. j \in consumers[Queue(j, k)]
        BY <1>1, <4>3 DEF Placed, ConsumersHeld
      <4>6. QED BY <3>2, <4>3, <4>4, <4>5
    <3>6. \A j \in Instances, k \in Names : <<j, k>> \in forgotten' =>
              \E q \in Queues : q[1] = k /\ j \in consumers'[q] /\ Left(j, q)'
      BY <1>1, <3>1, <3>2, <3>3 DEF Placed, ConsumersHeld
    <3>7. \A q \in Queues : \A j \in consumers'[q] :
              (q = Queue(j, q[1])' /\ q[1] \in registered'[j]) \/ Left(j, q)'
      <4>1. SUFFICES ASSUME NEW q \in Queues, NEW j \in consumers'[q]
                     PROVE (q = Queue(j, q[1])' /\ q[1] \in registered'[j]) \/ Left(j, q)'
        OBVIOUS
      <4>2. j # i /\ j \in consumers[q] /\ j \in Instances /\ q[1] \in Names
        BY <3>2, <4>1, QueuesAreNamed
      <4>3. (q = Queue(j, q[1]) /\ q[1] \in registered[j]) \/ Left(j, q)
        BY <1>1, <4>2 DEF Placed, ConsumersHeld
      <4>4. registered'[j] = registered[j] /\ Queue(j, q[1])' = Queue(j, q[1])
        BY <3>1, <4>2
      <4>5. QED BY <3>3, <4>2, <4>3, <4>4
    <3>8. QED BY <3>5, <3>6, <3>7 DEF ConsumersHeld
  <2>5. QED BY <2>1, <2>2, <2>3, <2>4 DEF Placed
<1>18. ASSUME NEW i \in Instances, Start(i) PROVE Placed'
  BY <1>1, <1>18 DEF Start, Placed, InOwnQueues, ConsumersOwn, ServedOnly, ConsumersHeld, Left, Queue,
                     NoJobNotFound
<1>19. CASE UNCHANGED vars
  BY <1>1, <1>19 DEF vars, Placed, InOwnQueues, ConsumersOwn, ServedOnly, ConsumersHeld, Left, Queue,
                     NoJobNotFound
<1>20. QED
  BY <1>1, <1>2, <1>3, <1>4, <1>5, <1>6, <1>7, <1>8, <1>9, <1>10, <1>11, <1>12, <1>13, <1>14,
     <1>15, <1>16, <1>17, <1>18, <1>19 DEF Next, InstanceStep, TaskStep
-----------------------------------------------------------------------------
(* One copy of a broadcast for each subscriber. *)

\* Copies that are not published, delivered, acknowledged or handled can only go away.
LEMMA FewerCopies ==
    ASSUME Single, sent' = sent, handled' = handled,
           \A m \in Messages, q \in Queues : IsExclusive(q) /\ m \in ready'[q] => m \in ready[q],
           \A m \in Messages, q \in Queues : Taken(m, q)' \subseteq Taken(m, q)
    PROVE Single'
<1>1. AtMostOnce'
  BY DEF Single, AtMostOnce
<1>2. OneCopy'
  BY DEF Single, OneCopy
<1>3. QED BY <1>1, <1>2 DEF Single

\* Publishing puts one copy into each queue.
LEMMA RouteCopies ==
    ASSUME TypeOK, Single, NEW n \in Messages, sent[n] = "new", Route(n), handled' = handled,
           \A m \in Messages, q \in Queues : Taken(m, q)' \subseteq Taken(m, q)
    PROVE Single'
<1>1. AtMostOnce'
  BY DEF Single, AtMostOnce
<1>2. OneCopy'
  <2>1. SUFFICES ASSUME NEW m \in Messages, NEW q \in Queues, IsExclusive(q)
                 PROVE /\ sent'[m] = "new" => /\ m \notin ready'[q]
                                              /\ Taken(m, q)' = {} /\ handled'[m][q] = 0
                       /\ m \in ready'[q] => Taken(m, q)' = {} /\ handled'[m][q] = 0
                       /\ \A t, u \in Taken(m, q)' : t = u
                       /\ Taken(m, q)' # {} => handled'[m][q] = 0
    BY DEF OneCopy
  <2>2. CASE m = n
    <3>1. sent'[m] # "new"
      BY <2>2 DEF Route, TypeOK
    <3>2. Taken(m, q)' = {} /\ handled'[m][q] = 0
      BY <2>1, <2>2 DEF Single, OneCopy
    <3>3. QED BY <3>1, <3>2
  <2>3. CASE m # n
    <3>1. sent'[m] = sent[m] /\ (m \in ready'[q] => m \in ready[q])
      BY <2>3 DEF Route, TypeOK
    <3>2. QED BY <2>1, <3>1 DEF Single, OneCopy
  <2>4. QED BY <2>2, <2>3
<1>3. QED BY <1>1, <1>2 DEF Single

\* What a lost connection requeues is never a broadcast: its queue goes away.
LEMMA LoseCopies == ASSUME TypeOK, Placed, NEW i \in Instances, LoseConnection(i),
                           NEW q \in Queues, IsExclusive(q), NEW m \in ready'[q]
                    PROVE m \in ready[q]
<1>1. q[2] # i /\ (m \in ready[q] \/ <<i, q, m>> \in unacked)
  BY DEF LoseConnection, Requeued, DeliveriesOf
<1>2. CASE <<i, q, m>> \in unacked
  <2>1. <<i, q, m>>[1] = i /\ <<i, q, m>>[2] = q
    OBVIOUS
  <2>2. Owned(i, q)
    BY <1>2, <2>1 DEF Placed, InOwnQueues
  <2>3. QED BY <1>1, <2>2 DEF Owned
<1>3. QED BY <1>1, <1>2

\* A step of a task that does not acknowledge or start its handler takes no copy.
LEMMA StepTakesNone == ASSUME TypeOK, NEW t \in tasks, NEW phase \in {"running", "calling", "called"},
                              Step(t, phase)
                       PROVE \A m \in Messages, q \in Queues : Taken(m, q)' = Taken(m, q) \ {t}
<1>1. phase \in Phases /\ t \in AllTasks
  BY DEF Phases, TypeOK
<1>2. [t EXCEPT !.phase = phase].phase = phase
  BY <1>1 DEF AllTasks
<1>3. QED BY <1>2 DEF Step, Taken

LEMMA SinglePreserved == TypeOK /\ Placed /\ Single /\ [Next]_vars => Single'
<1>1. SUFFICES ASSUME TypeOK, Placed, Single, [Next]_vars PROVE Single'
  OBVIOUS
<1> USE DEF faultVars, leftVars, brokerVars, runVars
<1>2. ASSUME NEW m \in Messages, Publish(m) PROVE Single'
  <2>1. \A k \in Messages, q \in Queues : Taken(k, q)' \subseteq Taken(k, q)
    BY <1>2 DEF Publish, Taken
  <2>2. QED BY <1>1, <1>2, <2>1, RouteCopies DEF Publish
<1>3. ASSUME NEW i \in Instances, NEW n \in Names, DeclareQueue(i, n) PROVE Single'
  BY <1>1, <1>3, FewerCopies DEF DeclareQueue, Cleared, Taken
<1>4. ASSUME NEW i \in Instances, Consume(i) PROVE Single'
  BY <1>1, <1>4, FewerCopies DEF Consume, Taken
<1>5. ASSUME NEW i \in Instances, RegisterRaises(i) PROVE Single'
  BY <1>1, <1>5, FewerCopies DEF RegisterRaises, Taken
<1>6. ASSUME NEW i \in Instances, NEW n \in Names, Unregister(i, n) PROVE Single'
  BY <1>1, <1>6, FewerCopies DEF Unregister, Cleared, Taken
<1>7. ASSUME NEW i \in Instances, NEW n \in Names, UnregisterRaises(i, n) PROVE Single'
  BY <1>1, <1>7, FewerCopies DEF UnregisterRaises, Taken
<1>8. ASSUME NEW i \in Instances, NEW q \in Queues, NEW m \in Messages, Deliver(i, q, m) PROVE Single'
  <2>1. /\ sent' = sent /\ handled' = handled
        /\ \A p \in Queues : ready'[p] \subseteq ready[p]
        /\ m \in ready[q] /\ m \notin ready'[q]
    BY <1>1, <1>8 DEF Deliver, TypeOK
  <2>2. \A k \in Messages, p \in Queues : ~(k = m /\ p = q) => Taken(k, p)' = Taken(k, p)
    BY <1>8 DEF Deliver, Taken, Task
  <2>3. Taken(m, q)' \subseteq Taken(m, q) \cup {Task(i, q, m, Redelivery(i, q, m), "acking")}
    BY <1>8 DEF Deliver, Taken
  <2>4. OneCopy'
    <3>1. SUFFICES ASSUME NEW k \in Messages, NEW p \in Queues, IsExclusive(p)
                   PROVE /\ sent'[k] = "new" => /\ k \notin ready'[p]
                                                /\ Taken(k, p)' = {} /\ handled'[k][p] = 0
                         /\ k \in ready'[p] => Taken(k, p)' = {} /\ handled'[k][p] = 0
                         /\ \A t, u \in Taken(k, p)' : t = u
                         /\ Taken(k, p)' # {} => handled'[k][p] = 0
      BY DEF OneCopy
    <3>2. CASE k = m /\ p = q
      <4>1. sent[k] # "new" /\ Taken(k, p) = {} /\ handled[k][p] = 0
        BY <1>1, <2>1, <3>1, <3>2 DEF Single, OneCopy
      <4>2. QED BY <2>1, <2>3, <3>2, <4>1
    <3>3. CASE ~(k = m /\ p = q)
      <4>1. Taken(k, p)' = Taken(k, p)
        BY <2>2, <3>3
      <4>2. QED BY <1>1, <2>1, <3>1, <4>1 DEF Single, OneCopy
    <3>4. QED BY <3>2, <3>3
  <2>5. QED BY <1>1, <2>1, <2>4 DEF Single, AtMostOnce
<1>9. ASSUME NEW t \in tasks, Ack(t) PROVE Single'
  <2>1. ready' = ready /\ sent' = sent /\ handled' = handled
    BY <1>9 DEF Ack
  <2>2. ASSUME NEW m \in Messages, NEW q \in Queues, IsExclusive(q)
        PROVE Taken(m, q)' = Taken(m, q)
              \/ (Taken(m, q) # {} /\ \A x, y \in Taken(m, q)' : x = y)
    <3>1. /\ [t EXCEPT !.phase = "acked"] = Task(t.inst, t.queue, t.msg, t.redelivery, "acked")
          /\ t.phase = "acking"
      BY <1>1, <1>9, TaskFields DEF Ack, TypeOK, Phases
    <3>2. CASE t.queue = q /\ t.msg = m
      <4>1. Taken(m, q) = {t}
        BY <1>1, <2>2, <3>1, <3>2 DEF Taken, Single, OneCopy
      <4>2. Taken(m, q)' \subseteq (Taken(m, q) \ {t}) \cup {Task(t.inst, t.queue, t.msg, t.redelivery, "acked")}
        BY <1>9, <3>1 DEF Ack, Step, Taken
      <4>3. QED BY <4>1, <4>2
    <3>3. CASE ~(t.queue = q /\ t.msg = m)
      <4>1. PICK w : /\ tasks' = (tasks \ {t}) \cup {w} /\ w.queue = t.queue /\ w.msg = t.msg
        BY <1>9, <3>1 DEF Ack, Step, Task
      <4>2. QED BY <3>3, <4>1 DEF Taken
    <3>4. QED BY <3>2, <3>3
  <2>3. QED BY <1>1, <2>1, <2>2 DEF Single, OneCopy, AtMostOnce
<1>10. ASSUME NEW d \in ackSent, BrokerAck(d) PROVE Single'
  BY <1>1, <1>10, FewerCopies DEF BrokerAck, Taken
<1>11. ASSUME NEW t \in tasks, RunHandler(t) PROVE Single'
  <2>1. ready' = ready /\ sent' = sent
    BY <1>11 DEF RunHandler
  <2>2. \A m \in Messages, q \in Queues : Taken(m, q)' = Taken(m, q) \ {t}
    BY <1>1, <1>11, StepTakesNone DEF RunHandler
  <2>3. ASSUME NEW m \in Messages, NEW q \in Queues, IsExclusive(q),
               t.queue = q, t.msg = m
        PROVE Taken(m, q) = {t} /\ handled[m][q] = 0 /\ handled'[m][q] = 1
    <3>1. t \in Taken(m, q)
      BY <1>11, <2>3 DEF RunHandler, Taken
    <3>2. Taken(m, q) = {t} /\ handled[m][q] = 0
      BY <1>1, <2>3, <3>1 DEF Single, OneCopy
    <3>3. handled'[m][q] = handled[m][q] + 1
      BY <1>1, <1>11, <2>3 DEF RunHandler, TypeOK
    <3>4. QED BY <3>2, <3>3
  <2>4. \A m \in Messages, q \in Queues :
            ~(t.queue = q /\ t.msg = m) => handled'[m][q] = handled[m][q]
    BY <1>1, <1>11 DEF RunHandler, TypeOK
  <2>5. OneCopy'
    <3>1. SUFFICES ASSUME NEW m \in Messages, NEW q \in Queues, IsExclusive(q)
                   PROVE /\ sent[m] = "new" => /\ m \notin ready[q]
                                               /\ Taken(m, q)' = {} /\ handled'[m][q] = 0
                         /\ m \in ready[q] => Taken(m, q)' = {} /\ handled'[m][q] = 0
                         /\ \A x, y \in Taken(m, q)' : x = y
                         /\ Taken(m, q)' # {} => handled'[m][q] = 0
      BY <2>1 DEF OneCopy
    <3>2. CASE t.queue = q /\ t.msg = m
      BY <1>1, <2>2, <2>3, <3>1, <3>2 DEF Single, OneCopy
    <3>3. CASE ~(t.queue = q /\ t.msg = m)
      BY <1>1, <2>2, <2>4, <3>1, <3>3 DEF Single, OneCopy
    <3>4. QED BY <3>2, <3>3
  <2>6. AtMostOnce'
    BY <1>1, <2>3, <2>4 DEF Single, AtMostOnce
  <2>7. QED BY <2>5, <2>6 DEF Single
<1>12. ASSUME NEW t \in tasks, CallChild(t) PROVE Single'
  <2>1. Child[t.msg] \in Messages
    BY <1>1, <1>12, NamesAssumption DEF CallChild, TypeOK, AllTasks
  <2>2. \A m \in Messages, q \in Queues : Taken(m, q)' \subseteq Taken(m, q)
    BY <1>1, <1>12, StepTakesNone DEF CallChild
  <2>3. QED BY <1>1, <1>12, <2>1, <2>2, RouteCopies DEF CallChild
<1>13. ASSUME NEW t \in tasks, ChildDone(t) PROVE Single'
  <2>1. \A m \in Messages, q \in Queues : Taken(m, q)' \subseteq Taken(m, q)
    BY <1>1, <1>13, StepTakesNone DEF ChildDone
  <2>2. QED BY <1>1, <1>13, <2>1, FewerCopies DEF ChildDone
<1>14. ASSUME NEW t \in tasks, Finish(t) PROVE Single'
  BY <1>1, <1>14, FewerCopies DEF Finish, End, Taken
<1>15. ASSUME NEW i \in Instances, Drop(i) PROVE Single'
  <2>1. \A t \in tasks : [t EXCEPT !.phase = "called"].phase = "called"
    BY <1>1 DEF TypeOK, AllTasks
  <2>2. \A m \in Messages, q \in Queues : Taken(m, q)' \subseteq Taken(m, q)
    BY <1>15, <2>1 DEF Drop, SurvivesDrop, Taken
  <2>3. QED BY <1>1, <1>15, <2>2, FewerCopies, LoseCopies DEF Drop
<1>16. ASSUME NEW i \in Instances, Reconnect(i) PROVE Single'
  BY <1>1, <1>16, FewerCopies DEF Reconnect, Taken
<1>17. ASSUME NEW i \in Instances, Crash(i) PROVE Single'
  <2>1. \A m \in Messages, q \in Queues : Taken(m, q)' \subseteq Taken(m, q)
    BY <1>17 DEF Crash, Taken
  <2>2. QED BY <1>1, <1>17, <2>1, FewerCopies, LoseCopies DEF Crash
<1>18. ASSUME NEW i \in Instances, Start(i) PROVE Single'
  BY <1>1, <1>18, FewerCopies DEF Start, Taken
<1>19. CASE UNCHANGED vars
  BY <1>1, <1>19, FewerCopies DEF vars, Taken
<1>20. QED
  BY <1>1, <1>2, <1>3, <1>4, <1>5, <1>6, <1>7, <1>8, <1>9, <1>10, <1>11, <1>12, <1>13, <1>14,
     <1>15, <1>16, <1>17, <1>18, <1>19 DEF Next, InstanceStep, TaskStep
-----------------------------------------------------------------------------
(* Anonymous queues are numbered by the registrations that left one behind. *)

\* Nothing reaches a queue that is not declared or consumed.
LEMMA StillUnused ==
    ASSUME Numbered, handled' = handled,
           \A q \in Queues : Future(q)' => Future(q),
           \A q \in Queues : Future(q)' /\ Unused(q) =>
               q \notin declared' /\ ready'[q] = {} /\ consumers'[q] = {},
           \A t \in tasks' : \E u \in tasks : u.queue = t.queue
    PROVE Numbered'
<1>1. ASSUME NEW q \in Queues, Future(q)' PROVE Unused(q)'
  <2>1. Unused(q)
    BY <1>1 DEF Numbered
  <2>2. QED BY <1>1, <2>1 DEF Unused
<1>2. QED BY <1>1 DEF Numbered

\* The queue a registration declares and consumes carries the current number.
LEMMA CurrentIsNotFuture == ASSUME TypeOK, NEW i \in Instances, NEW n \in Names
                            PROVE ~Future(Queue(i, n))
<1>1. serial[i][n] \in Nat
  BY DEF TypeOK
<1>2. QED BY <1>1, CurrentQueue DEF Future, Owned

\* A step of a task keeps its queue.
LEMMA StepQueue == ASSUME TypeOK, NEW t \in tasks, NEW phase \in Phases, Step(t, phase)
                   PROVE \A u \in tasks' : \E w \in tasks : w.queue = u.queue
<1>1. [t EXCEPT !.phase = phase].queue = t.queue
  BY DEF TypeOK, AllTasks
<1>2. QED BY <1>1 DEF Step

LEMMA NumberedPreserved == TypeOK /\ Placed /\ Numbered /\ [Next]_vars => Numbered'
<1>1. SUFFICES ASSUME TypeOK, Placed, Numbered, [Next]_vars PROVE Numbered'
  OBVIOUS
<1> USE <1>1 DEF faultVars, leftVars, brokerVars, runVars
<1>2. ASSUME NEW m \in Messages, Publish(m) PROVE Numbered'
  BY <1>2, StillUnused DEF Publish, Route, Future, Unused
<1>3. ASSUME NEW i \in Instances, NEW n \in Names, DeclareQueue(i, n) PROVE Numbered'
  <2>1. \A q \in Queues : Future(q)' <=> Future(q)
    BY <1>3 DEF DeclareQueue, Future
  <2>2. QED BY <1>3, <2>1, StillUnused, CurrentIsNotFuture DEF DeclareQueue, Cleared, Unused
<1>4. ASSUME NEW i \in Instances, Consume(i) PROVE Numbered'
  <2>1. \A q \in Queues : Future(q)' <=> Future(q)
    BY <1>4 DEF Consume, Future
  <2>2. registering[i] \in Names
    BY <1>4 DEF Consume, TypeOK
  <2>3. ~Future(Queue(i, registering[i]))
    BY <2>2, CurrentIsNotFuture
  <2>4. \A q \in Queues : q # Queue(i, registering[i]) => consumers'[q] = consumers[q]
    BY <1>4 DEF Consume, TypeOK
  <2>5. QED BY <1>4, <2>1, <2>3, <2>4, StillUnused DEF Consume, Unused
<1>5. ASSUME NEW i \in Instances, RegisterRaises(i) PROVE Numbered'
  BY <1>5, StillUnused DEF RegisterRaises, Future, Unused
<1>6. ASSUME NEW i \in Instances, NEW n \in Names, Unregister(i, n) PROVE Numbered'
  <2>1. \A q \in Queues : Future(q)' <=> Future(q)
    BY <1>6 DEF Unregister, Future
  <2>2. \A q \in Queues : consumers'[q] \subseteq consumers[q]
    BY <1>6 DEF Unregister, TypeOK
  <2>3. QED BY <1>6, <2>1, <2>2, StillUnused DEF Unregister, Cleared, Unused
<1>7. ASSUME NEW i \in Instances, NEW n \in Names, UnregisterRaises(i, n) PROVE Numbered'
  <2>1. ASSUME NEW q \in Queues, Future(q)' PROVE Future(q)
    <3>1. q[1] \in Names /\ q[2] \in Instances /\ q[3] \in Nat
      BY <2>1, QueuesAreNamed, BoundsAssumption DEF Future
    <3>2. serial[q[2]][q[1]] \in Nat /\ serial'[q[2]][q[1]] \in {serial[q[2]][q[1]], serial[q[2]][q[1]] + 1}
      BY <1>7, <3>1 DEF UnregisterRaises, TypeOK
    <3>3. QED BY <2>1, <3>1, <3>2 DEF Future
  <2>2. QED BY <1>7, <2>1, StillUnused DEF UnregisterRaises, Unused
<1>8. ASSUME NEW i \in Instances, NEW q \in Queues, NEW m \in Messages, Deliver(i, q, m) PROVE Numbered'
  <2>1. \A p \in Queues : Future(p)' <=> Future(p)
    BY <1>8 DEF Deliver, Future
  <2>2. ~Future(q)
    BY <1>8 DEF Deliver, Numbered, Unused
  <2>3. \A p \in Queues : ready'[p] \subseteq ready[p]
    BY <1>8 DEF Deliver, TypeOK
  <2>4. \A t \in tasks' : t.queue = q \/ t \in tasks
    BY <1>8 DEF Deliver, Task
  <2>5. ASSUME NEW p \in Queues, Future(p)' PROVE Unused(p)'
    <3>1. Unused(p) /\ p # q
      BY <2>1, <2>2, <2>5 DEF Numbered
    <3>2. UNCHANGED <<declared, consumers, handled>>
      BY <1>8 DEF Deliver
    <3>3. QED BY <2>3, <2>4, <3>1, <3>2 DEF Unused
  <2>6. QED BY <2>5 DEF Numbered
<1>9. ASSUME NEW t \in tasks, Ack(t) PROVE Numbered'
  BY <1>9, StepQueue, StillUnused DEF Ack, Phases, Future, Unused
<1>10. ASSUME NEW d \in ackSent, BrokerAck(d) PROVE Numbered'
  BY <1>10, StillUnused DEF BrokerAck, Future, Unused
<1>11. ASSUME NEW t \in tasks, RunHandler(t) PROVE Numbered'
  <2>1. \A p \in Queues : Future(p)' <=> Future(p)
    BY <1>11 DEF RunHandler, Future
  <2>2. t.queue \in Queues /\ t.msg \in Messages
    BY DEF TypeOK, AllTasks
  <2>3. ~Future(t.queue)
    BY <2>2 DEF Numbered, Unused
  <2>4. \A p \in Queues, m \in Messages : p # t.queue => handled'[m][p] = handled[m][p]
    BY <1>11, <2>2 DEF RunHandler, TypeOK
  <2>5. \A u \in tasks' : \E w \in tasks : w.queue = u.queue
    BY <1>11, StepQueue DEF RunHandler, Phases
  <2>6. ASSUME NEW p \in Queues, Future(p)' PROVE Unused(p)'
    <3>1. Unused(p) /\ p # t.queue
      BY <2>1, <2>3, <2>6 DEF Numbered
    <3>2. UNCHANGED <<declared, ready, consumers>>
      BY <1>11 DEF RunHandler
    <3>3. QED BY <2>4, <2>5, <3>1, <3>2 DEF Unused
  <2>7. QED BY <2>6 DEF Numbered
<1>12. ASSUME NEW t \in tasks, CallChild(t) PROVE Numbered'
  <2>1. \A u \in tasks' : \E w \in tasks : w.queue = u.queue
    BY <1>12, StepQueue DEF CallChild, Phases
  <2>2. QED BY <1>12, <2>1, StillUnused DEF CallChild, Route, Future, Unused
<1>13. ASSUME NEW t \in tasks, ChildDone(t) PROVE Numbered'
  BY <1>13, StepQueue, StillUnused DEF ChildDone, Phases, Future, Unused
<1>14. ASSUME NEW t \in tasks, Finish(t) PROVE Numbered'
  BY <1>14, StillUnused DEF Finish, End, Future, Unused
<1>15. ASSUME NEW i \in Instances, Drop(i) PROVE Numbered'
  <2>1. \A t \in tasks : [t EXCEPT !.phase = "called"].queue = t.queue
    BY DEF TypeOK, AllTasks
  <2>2. \A u \in tasks' : \E w \in tasks : w.queue = u.queue
    BY <1>15, <2>1 DEF Drop, SurvivesDrop
  <2>3. \A q \in Queues : Future(q)' <=> Future(q)
    BY <1>15 DEF Drop, Future
  <2>4. LoseConnection(i) /\ consumers' = consumers /\ handled' = handled
    BY <1>15 DEF Drop
  <2>5. \A q \in Queues : Future(q) => ready'[q] \subseteq ready[q]
    BY <2>4, LoseCopies DEF Future
  <2>6. declared' \subseteq declared
    BY <2>4 DEF LoseConnection, WithoutExclusive
  <2>7. QED BY <2>2, <2>3, <2>4, <2>5, <2>6, StillUnused DEF Unused
<1>16. ASSUME NEW i \in Instances, Reconnect(i) PROVE Numbered'
  BY <1>16, StillUnused DEF Reconnect, Future, Unused
<1>17. ASSUME NEW i \in Instances, Crash(i) PROVE Numbered'
  <2>1. \A u \in tasks' : \E w \in tasks : w.queue = u.queue
    BY <1>17 DEF Crash
  <2>2. \A q \in Queues : Future(q)' <=> Future(q)
    BY <1>17 DEF Crash, Future
  <2>3. LoseConnection(i) /\ handled' = handled /\ \A q \in Queues : consumers'[q] \subseteq consumers[q]
    BY <1>17 DEF Crash
  <2>4. \A q \in Queues : Future(q) => ready'[q] \subseteq ready[q]
    BY <2>3, LoseCopies DEF Future
  <2>5. declared' \subseteq declared
    BY <2>3 DEF LoseConnection, WithoutExclusive
  <2>6. QED BY <2>1, <2>2, <2>3, <2>4, <2>5, StillUnused DEF Unused
<1>18. ASSUME NEW i \in Instances, Start(i) PROVE Numbered'
  BY <1>18, StillUnused DEF Start, Future, Unused
<1>19. CASE UNCHANGED vars
  BY <1>19, StillUnused DEF vars, Future, Unused
<1>20. QED
  BY <1>2, <1>3, <1>4, <1>5, <1>6, <1>7, <1>8, <1>9, <1>10, <1>11, <1>12, <1>13, <1>14,
     <1>15, <1>16, <1>17, <1>18, <1>19 DEF Next, InstanceStep, TaskStep
-----------------------------------------------------------------------------
(* No event or request is forgotten. *)

\* The queue of an event or a request is shared, and no fault of an instance removes it.
LEMMA EventQueue == ASSUME NEW m \in Messages, Shared(m)
                    PROVE \A q \in Queues : q[1] = NameOf[m] => ~IsExclusive(q)
BY QueuesAreNamed DEF Shared, Kind

LEMMA SharedIsNobodys == \A q \in Queues, i \in Instances : ~IsExclusive(q) => q[2] # i
BY NamesAssumption DEF IsExclusive

\* A step that leaves deliveries, tasks and shared queues alone forgets nothing.
LEMMA Untouched ==
    ASSUME TypeOK, Placed, Tracked, UNCHANGED <<unacked, ackSent, tasks, handled, lost, sent>>,
           \A q \in Queues : ~IsExclusive(q) => ready'[q] = ready[q],
           \A q \in declared : ~IsExclusive(q) => q \in declared'
    PROVE Tracked'
<1>1. AckingUnacked' /\ OneAcking' /\ AckedTaken' /\ RunningHandled'
  BY DEF Tracked, AckingUnacked, OneAcking, AckedTaken, Acknowledged, RunningHandled, HandledFrom
<1>2. SharedDeclared'
  BY DEF Tracked, SharedDeclared, TypeOK
<1>3. AtLeastOnce'
  <2>1. SUFFICES ASSUME NEW m \in Messages, Shared(m), sent[m] = "routed"
                 PROVE Held(m)' \/ HandledFrom(m) # {} \/ m \in lost
    BY DEF AtLeastOnce, HandledFrom, Shared
  <2>2. Held(m) \/ HandledFrom(m) # {} \/ m \in lost
    BY <2>1 DEF Tracked, AtLeastOnce
  <2>3. ASSUME NEW q \in declared, m \in ready[q] PROVE q \in declared' /\ m \in ready'[q]
    <3>1. q \in Queues /\ q[1] = NameOf[m]
      BY <2>3 DEF TypeOK, Placed, InOwnQueues
    <3>2. QED BY <2>1, <2>3, <3>1, EventQueue
  <2>4. QED BY <2>2, <2>3 DEF Held
<1>4. QED BY <1>1, <1>2, <1>3 DEF Tracked

\* Publishing puts a message into a queue, or drops it.
LEMMA RouteTracks ==
    ASSUME TypeOK, Placed, Tracked, NEW n \in Messages, Route(n),
           UNCHANGED <<declared, unacked, ackSent, handled, lost>>,
           AckingUnacked', OneAcking', AckedTaken', RunningHandled',
           \A t \in tasks : \E u \in tasks' : u.msg = t.msg
    PROVE Tracked'
<1>1. SharedDeclared'
  BY DEF Tracked, SharedDeclared, Route
<1>2. \A q \in Queues : ready[q] \subseteq ready'[q]
  BY DEF Route
<1>3. AtLeastOnce'
  <2>1. SUFFICES ASSUME NEW m \in Messages, Shared(m), sent'[m] = "routed"
                 PROVE Held(m)' \/ HandledFrom(m) # {} \/ m \in lost
    BY DEF AtLeastOnce, HandledFrom, Shared
  <2>2. CASE m = n
    <3>1. PICK q \in declared : Binds(q, NameOf[n])
      BY <2>1, <2>2 DEF Route, TypeOK
    <3>2. q \in declared' /\ m \in ready'[q]
      BY <2>2, <3>1 DEF Route, TypeOK
    <3>3. QED BY <3>2 DEF Held
  <2>3. CASE m # n
    <3>1. sent[m] = "routed"
      BY <2>1, <2>3 DEF Route, TypeOK
    <3>2. Held(m) \/ HandledFrom(m) # {} \/ m \in lost
      BY <2>1, <3>1 DEF Tracked, AtLeastOnce
    <3>3. QED BY <1>2, <3>2 DEF Held, TypeOK
  <2>4. QED BY <2>2, <2>3
<1>4. QED BY <1>1, <1>3 DEF Tracked

\* What a lost connection or process had not acknowledged goes back to its queue.
LEMMA LoseTracks ==
    ASSUME TypeOK, Placed, Tracked, NEW i \in Instances, LoseConnection(i)
    PROVE /\ SharedDeclared'
          /\ \A m \in Messages :
               Shared(m) /\ ((\E q \in declared : m \in ready[q]) \/ (\E d \in unacked : d[3] = m))
               => (\E q \in declared' : m \in ready'[q]) \/ (\E d \in unacked' : d[3] = m)
<1>1. \A q \in Queues : ~IsExclusive(q) /\ q \in declared => q \in declared'
  BY SharedIsNobodys DEF LoseConnection, WithoutExclusive
<1>2. \A q \in Queues : ~IsExclusive(q) =>
          ready'[q] = ready[q] \cup {m \in Messages : <<i, q, m>> \in unacked}
  BY SharedIsNobodys DEF LoseConnection, Requeued, DeliveriesOf
<1>3. SharedDeclared'
  <2>1. ASSUME NEW d \in unacked', ~IsExclusive(d[2]) PROVE d[2] \in declared'
    <3>1. d \in unacked /\ d[2] \in Queues
      BY <2>1 DEF LoseConnection, TypeOK
    <3>2. QED BY <1>1, <2>1, <3>1 DEF Tracked, SharedDeclared
  <2>2. ASSUME NEW q \in Queues, ready'[q] # {}, ~IsExclusive(q) PROVE q \in declared'
    <3>1. ready[q] # {} \/ \E m \in Messages : <<i, q, m>> \in unacked
      BY <1>2, <2>2
    <3>2. q \in declared
      BY <2>2, <3>1 DEF Tracked, SharedDeclared
    <3>3. QED BY <1>1, <2>2, <3>2
  <2>3. QED BY <2>1, <2>2 DEF SharedDeclared
<1>4. ASSUME NEW m \in Messages, Shared(m)
      PROVE (\E q \in declared : m \in ready[q]) \/ (\E d \in unacked : d[3] = m)
            => (\E q \in declared' : m \in ready'[q]) \/ (\E d \in unacked' : d[3] = m)
  <2>1. ASSUME NEW q \in declared, m \in ready[q] PROVE q \in declared' /\ m \in ready'[q]
    <3>1. q \in Queues /\ q[1] = NameOf[m]
      BY <2>1 DEF TypeOK, Placed, InOwnQueues
    <3>2. QED BY <1>1, <1>2, <1>4, <2>1, <3>1, EventQueue
  <2>2. ASSUME NEW d \in unacked, d[3] = m
        PROVE (\E q \in declared' : m \in ready'[q]) \/ (\E e \in unacked' : e[3] = m)
    <3>1. d \in Instances \X Queues \X Messages /\ d[2][1] = NameOf[m]
      BY <2>2 DEF TypeOK, Placed, InOwnQueues
    <3>2. d[2] \in Queues /\ ~IsExclusive(d[2]) /\ d = <<d[1], d[2], m>>
      BY <1>4, <2>2, <3>1, EventQueue
    <3>3. CASE d[1] = i
      <4>1. d[2] \in declared'
        BY <1>1, <3>2 DEF Tracked, SharedDeclared
      <4>2. m \in ready'[d[2]]
        BY <1>2, <3>2, <3>3
      <4>3. QED BY <4>1, <4>2
    <3>4. CASE d[1] # i
      <4>1. d \in unacked'
        BY <3>4 DEF LoseConnection, DeliveriesOf
      <4>2. QED BY <2>2, <4>1
    <3>5. QED BY <3>3, <3>4
  <2>3. QED BY <2>1, <2>2
<1>5. QED BY <1>3, <1>4

\* The deliveries of the other instances stay, and so do their acknowledgements.
LEMMA LoseKeepsOthers == ASSUME TypeOK, NEW i \in Instances, LoseConnection(i)
    PROVE /\ \A d \in unacked : d[1] # i => d \in unacked'
          /\ ackSent' = {d \in ackSent : d[1] # i}
BY DEF LoseConnection, DeliveriesOf, TypeOK

\* A step of a task that runs its handler, or does so now, changes its phase only.
LEMMA StepRuns ==
    ASSUME TypeOK, Tracked, NEW t \in tasks, NEW phase \in {"running", "calling", "called"},
           Step(t, phase), t.phase # "acking", UNCHANGED <<unacked, ackSent>>,
           \A m \in Messages : HandledFrom(m) \subseteq HandledFrom(m)', HandledFrom(t.msg)' # {}
    PROVE /\ AckingUnacked' /\ OneAcking' /\ AckedTaken' /\ RunningHandled'
          /\ \A u \in tasks : \E v \in tasks' : v.msg = u.msg
<1> DEFINE v == [t EXCEPT !.phase = phase]
<1>1. /\ v.phase = phase /\ v.msg = t.msg /\ DeliveryOf(v) = DeliveryOf(t)
      /\ t.msg \in Messages /\ \A u \in tasks : u.msg \in Messages
  BY DEF TypeOK, AllTasks, DeliveryOf
<1>2. tasks' = (tasks \ {t}) \cup {v}
  BY DEF Step
<1> HIDE DEF v
<1>3. AckingUnacked' /\ OneAcking'
  BY <1>1, <1>2 DEF Tracked, AckingUnacked, OneAcking
<1>4. AckedTaken'
  <2>1. SUFFICES ASSUME NEW d \in ackSent
                 PROVE Acknowledged(d)' \/ HandledFrom(d[3])' # {}
    BY DEF AckedTaken
  <2>2. d[3] \in Messages
    BY DEF TypeOK
  <2>3. CASE HandledFrom(d[3]) # {}
    BY <2>2, <2>3
  <2>4. CASE Acknowledged(d)
    <3>1. PICK u \in tasks : DeliveryOf(u) = d /\ u.phase = "acked"
      BY <2>4 DEF Acknowledged
    <3>2. CASE u = t
      BY <3>1, <3>2 DEF DeliveryOf
    <3>3. CASE u # t
      BY <1>2, <3>1, <3>3 DEF Acknowledged
    <3>4. QED BY <3>2, <3>3
  <2>5. QED BY <2>3, <2>4 DEF Tracked, AckedTaken
<1>5. RunningHandled'
  BY <1>1, <1>2 DEF Tracked, RunningHandled
<1>6. \A u \in tasks : \E w \in tasks' : w.msg = u.msg
  BY <1>1, <1>2
<1>7. QED BY <1>3, <1>4, <1>5, <1>6

LEMMA TrackedPreserved == TypeOK /\ Placed /\ Tracked /\ [Next]_vars => Tracked'
<1>1. SUFFICES ASSUME TypeOK, Placed, Tracked, [Next]_vars PROVE Tracked'
  OBVIOUS
<1> USE DEF faultVars, leftVars, brokerVars, runVars
<1>2. ASSUME NEW m \in Messages, Publish(m) PROVE Tracked'
  <2>1. AckingUnacked' /\ OneAcking' /\ AckedTaken' /\ RunningHandled'
    BY <1>1, <1>2 DEF Publish, Tracked, AckingUnacked, OneAcking, AckedTaken, Acknowledged,
                      RunningHandled, HandledFrom
  <2>2. QED BY <1>1, <1>2, <2>1, RouteTracks DEF Publish
<1>3. ASSUME NEW i \in Instances, NEW n \in Names, DeclareQueue(i, n) PROVE Tracked'
  <2>1. \A q \in Queues : ~IsExclusive(q) => ready'[q] = ready[q]
    BY <1>3 DEF DeclareQueue, Cleared, Exclusive
  <2>2. QED BY <1>1, <1>3, <2>1, Untouched DEF DeclareQueue
<1>4. ASSUME NEW i \in Instances, Consume(i) PROVE Tracked'
  BY <1>1, <1>4, Untouched DEF Consume
<1>5. ASSUME NEW i \in Instances, RegisterRaises(i) PROVE Tracked'
  BY <1>1, <1>5, Untouched DEF RegisterRaises
<1>6. ASSUME NEW i \in Instances, NEW n \in Names, Unregister(i, n) PROVE Tracked'
  BY <1>1, <1>6, Untouched DEF Unregister, Cleared, Exclusive
<1>7. ASSUME NEW i \in Instances, NEW n \in Names, UnregisterRaises(i, n) PROVE Tracked'
  BY <1>1, <1>7, Untouched DEF UnregisterRaises
<1>8. ASSUME NEW i \in Instances, NEW q \in Queues, NEW m \in Messages, Deliver(i, q, m) PROVE Tracked'
  <2> DEFINE v == Task(i, q, m, Redelivery(i, q, m), "acking")
  <2>1. v.phase = "acking" /\ v.msg = m /\ DeliveryOf(v) = <<i, q, m>>
    BY DEF Task, DeliveryOf
  <2>2. /\ <<i, q, m>> \notin unacked /\ m \in ready[q]
        /\ unacked' = unacked \cup {<<i, q, m>>} /\ ackSent' = ackSent
        /\ tasks' = tasks \cup {v}
        /\ declared' = declared /\ handled' = handled /\ lost' = lost /\ sent' = sent
        /\ ready' = [ready EXCEPT ![q] = @ \ {m}]
    BY <1>8 DEF Deliver, SlotFree
  <2> HIDE DEF v
  <2>3. AckingUnacked'
    <3>1. <<i, q, m>> \in unacked' \ ackSent'
      BY <1>1, <2>2 DEF TypeOK
    <3>2. QED BY <1>1, <2>1, <2>2, <3>1 DEF Tracked, AckingUnacked
  <2>4. AckedTaken' /\ RunningHandled' /\ OneAcking'
    <3>1. \A t \in tasks : ~(t.phase = "acking" /\ DeliveryOf(t) = <<i, q, m>>)
      BY <1>1, <2>1, <2>2 DEF Tracked, AckingUnacked
    <3>2. QED BY <1>1, <2>1, <2>2, <3>1 DEF Tracked, AckedTaken, Acknowledged, RunningHandled,
                                            OneAcking, HandledFrom
  <2>5. SharedDeclared'
    <3>1. \A p \in Queues : ready'[p] \subseteq ready[p]
      BY <1>1, <2>2 DEF TypeOK
    <3>2. QED BY <1>1, <2>2, <3>1 DEF Tracked, SharedDeclared
  <2>6. AtLeastOnce'
    <3>1. SUFFICES ASSUME NEW k \in Messages, Shared(k), sent[k] = "routed"
                   PROVE Held(k)' \/ HandledFrom(k) # {} \/ k \in lost
      BY <2>2 DEF AtLeastOnce, HandledFrom, Shared
    <3>2. Held(k) \/ HandledFrom(k) # {} \/ k \in lost
      BY <1>1, <3>1 DEF Tracked, AtLeastOnce
    <3>3. CASE k = m
      BY <2>1, <2>2, <3>3 DEF Held
    <3>4. CASE k # m
      <4>1. \A p \in declared : k \in ready[p] => k \in ready'[p]
        BY <1>1, <2>2, <3>4 DEF TypeOK
      <4>2. QED BY <2>2, <3>2, <4>1 DEF Held
    <3>5. QED BY <3>3, <3>4
  <2>7. QED BY <2>3, <2>4, <2>5, <2>6 DEF Tracked
<1>9. ASSUME NEW t \in tasks, Ack(t) PROVE Tracked'
  <2>1. /\ ackSent' = ackSent \cup {d \in unacked : d = DeliveryOf(t)}
        /\ t.phase = "acking"
        /\ UNCHANGED <<unacked, ready, declared, handled, lost, sent>>
    BY <1>9 DEF Ack, DeliveryOf
  <2> DEFINE v == Task(t.inst, t.queue, t.msg, t.redelivery, "acked")
  <2>2. tasks' = (tasks \ {t}) \cup {v} /\ DeliveryOf(v) = DeliveryOf(t) /\ v.msg = t.msg /\ v.phase = "acked"
    BY <1>1, <1>9, TaskFields DEF Ack, Step, TypeOK, Phases, Task, DeliveryOf
  <2> HIDE DEF v
  <2>3. AckingUnacked'
    <3>1. SUFFICES ASSUME NEW u \in tasks', u.phase = "acking"
                   PROVE DeliveryOf(u) \in unacked \ ackSent'
      BY <2>1 DEF AckingUnacked
    <3>2. u \in tasks /\ u # t
      BY <2>2, <3>1
    <3>3. DeliveryOf(u) # DeliveryOf(t)
      BY <1>1, <2>1, <3>1, <3>2 DEF Tracked, OneAcking
    <3>4. QED BY <1>1, <2>1, <3>1, <3>2, <3>3 DEF Tracked, AckingUnacked
  <2>4. AckedTaken' /\ OneAcking'
    <3>1. SUFFICES ASSUME NEW d \in ackSent' PROVE Acknowledged(d)' \/ HandledFrom(d[3])' # {}
      BY <1>1, <2>1, <2>2 DEF AckedTaken, Tracked, OneAcking
    <3>2. CASE d \in ackSent
      BY <1>1, <2>1, <2>2, <3>2 DEF Tracked, AckedTaken, Acknowledged, HandledFrom
    <3>3. CASE d = DeliveryOf(t)
      BY <2>2, <3>3 DEF Acknowledged
    <3>4. QED BY <2>1, <3>2, <3>3
  <2>5. RunningHandled'
    BY <1>1, <2>1, <2>2 DEF Tracked, RunningHandled, HandledFrom
  <2>6. SharedDeclared'
    BY <1>1, <2>1 DEF Tracked, SharedDeclared
  <2>7. AtLeastOnce'
    <3>1. \A u \in tasks : \E w \in tasks' : w.msg = u.msg
      BY <2>2
    <3>2. QED BY <1>1, <2>1, <3>1 DEF Tracked, AtLeastOnce, Held, HandledFrom
  <2>8. QED BY <2>3, <2>4, <2>5, <2>6, <2>7 DEF Tracked
<1>10. ASSUME NEW d \in ackSent, BrokerAck(d) PROVE Tracked'
  <2>1. /\ unacked' = unacked \ {d} /\ ackSent' = ackSent \ {d} /\ d \in ackSent
        /\ UNCHANGED <<ready, declared, tasks, handled, lost, sent>>
    BY <1>10 DEF BrokerAck
  <2>2. AckingUnacked' /\ OneAcking' /\ AckedTaken' /\ RunningHandled' /\ SharedDeclared'
    BY <1>1, <2>1 DEF Tracked, AckingUnacked, OneAcking, AckedTaken, Acknowledged, RunningHandled,
                      SharedDeclared, HandledFrom
  <2>3. AtLeastOnce'
    <3>1. (\E t \in tasks : t.msg = d[3]) \/ HandledFrom(d[3]) # {}
      BY <1>1, <2>1 DEF Tracked, AckedTaken, Acknowledged, DeliveryOf
    <3>2. QED BY <1>1, <2>1, <3>1 DEF Tracked, AtLeastOnce, Held, HandledFrom
  <2>4. QED BY <2>2, <2>3 DEF Tracked
<1>11. ASSUME NEW t \in tasks, RunHandler(t) PROVE Tracked'
  <2>1. t.msg \in Messages /\ t.queue \in Queues
    BY <1>1 DEF TypeOK, AllTasks
  <2>2. UNCHANGED <<unacked, ackSent, ready, declared, lost, sent>>
    BY <1>11 DEF RunHandler
  <2>3. HandledFrom(t.msg)' # {}
    BY <1>1, <1>11, <2>1 DEF RunHandler, HandledFrom, TypeOK
  <2>4. \A m \in Messages : HandledFrom(m) \subseteq HandledFrom(m)'
    BY <1>1, <1>11, <2>1 DEF RunHandler, HandledFrom, TypeOK
  <2>5. /\ AckingUnacked' /\ OneAcking' /\ AckedTaken' /\ RunningHandled'
        /\ \A u \in tasks : \E v \in tasks' : v.msg = u.msg
    BY <1>1, <1>11, <2>2, <2>3, <2>4, StepRuns DEF RunHandler
  <2>6. SharedDeclared'
    BY <1>1, <2>2 DEF Tracked, SharedDeclared
  <2>7. AtLeastOnce'
    BY <1>1, <2>2, <2>4, <2>5 DEF Tracked, AtLeastOnce, Held
  <2>8. QED BY <2>5, <2>6, <2>7 DEF Tracked
<1>12. ASSUME NEW t \in tasks, CallChild(t) PROVE Tracked'
  <2>1. Child[t.msg] \in Messages /\ t.phase = "running"
    BY <1>1, <1>12, NamesAssumption DEF CallChild, TypeOK, AllTasks
  <2>2. /\ HandledFrom(t.msg)' # {}
        /\ \A m \in Messages : HandledFrom(m) \subseteq HandledFrom(m)'
    BY <1>1, <1>12, <2>1 DEF CallChild, HandledFrom, Tracked, RunningHandled
  <2>3. /\ AckingUnacked' /\ OneAcking' /\ AckedTaken' /\ RunningHandled'
        /\ \A u \in tasks : \E v \in tasks' : v.msg = u.msg
    BY <1>1, <1>12, <2>1, <2>2, StepRuns DEF CallChild
  <2>4. QED BY <1>1, <1>12, <2>1, <2>3, RouteTracks DEF CallChild
<1>13. ASSUME NEW t \in tasks, ChildDone(t) PROVE Tracked'
  <2>1. /\ t.phase = "calling"
        /\ UNCHANGED <<unacked, ackSent, ready, declared, handled, lost, sent>>
    BY <1>13 DEF ChildDone
  <2>2. /\ HandledFrom(t.msg)' # {}
        /\ \A m \in Messages : HandledFrom(m)' = HandledFrom(m)
    BY <1>1, <2>1 DEF HandledFrom, Tracked, RunningHandled
  <2>3. /\ AckingUnacked' /\ OneAcking' /\ AckedTaken' /\ RunningHandled'
        /\ \A u \in tasks : \E v \in tasks' : v.msg = u.msg
    BY <1>1, <1>13, <2>1, <2>2, StepRuns DEF ChildDone
  <2>4. SharedDeclared' /\ AtLeastOnce'
    BY <1>1, <2>1, <2>2, <2>3 DEF Tracked, SharedDeclared, AtLeastOnce, Held
  <2>5. QED BY <2>3, <2>4 DEF Tracked
<1>14. ASSUME NEW t \in tasks, Finish(t) PROVE Tracked'
  <2>1. /\ t.phase \in {"running", "called"} /\ tasks' = tasks \ {t}
        /\ UNCHANGED <<unacked, ackSent, ready, declared, handled, lost, sent>>
    BY <1>14 DEF Finish, End
  <2>2. HandledFrom(t.msg) # {}
    BY <1>1, <2>1 DEF Tracked, RunningHandled
  <2>3. AckedTaken'
    BY <1>1, <2>1 DEF Tracked, AckedTaken, Acknowledged, HandledFrom
  <2>4. AckingUnacked' /\ OneAcking' /\ RunningHandled' /\ SharedDeclared'
    BY <1>1, <2>1 DEF Tracked, AckingUnacked, OneAcking, RunningHandled, SharedDeclared, HandledFrom
  <2>5. AtLeastOnce'
    BY <1>1, <2>1, <2>2 DEF Tracked, AtLeastOnce, Held, HandledFrom
  <2>6. QED BY <2>3, <2>4, <2>5 DEF Tracked
<1>15. ASSUME NEW i \in Instances, Drop(i) PROVE Tracked'
  <2> DEFINE called(t) == [t EXCEPT !.phase = "called"]
  <2>1. \A t \in tasks : /\ called(t).phase = "called" /\ called(t).msg = t.msg
                         /\ DeliveryOf(t)[1] = t.inst /\ DeliveryOf(t)[3] = t.msg
    BY <1>1 DEF TypeOK, AllTasks, DeliveryOf
  <2>2. tasks' = {t \in tasks : t.inst # i \/ t.phase \notin {"acking", "calling"}}
                 \cup {called(t) : t \in {u \in tasks : u.inst = i /\ u.phase = "calling"}}
    BY <1>15 DEF Drop, SurvivesDrop
  <2>3. LoseConnection(i) /\ handled' = handled /\ lost' = lost /\ sent' = sent
    BY <1>15 DEF Drop
  <2> HIDE DEF called
  <2>4. AckingUnacked' /\ OneAcking'
    <3>1. \A d \in unacked \ ackSent : d[1] # i => d \in unacked' \ ackSent'
      BY <1>1, <2>3, LoseKeepsOthers
    <3>2. QED BY <1>1, <2>1, <2>2, <3>1 DEF Tracked, AckingUnacked, OneAcking
  <2>5. AckedTaken'
    <3>1. \A d \in ackSent' : d \in ackSent /\ d[1] # i
      BY <1>1, <2>3, LoseKeepsOthers
    <3>2. \A d \in ackSent' : Acknowledged(d) => Acknowledged(d)'
      BY <2>1, <2>2, <3>1 DEF Acknowledged
    <3>3. QED BY <1>1, <2>3, <3>1, <3>2 DEF Tracked, AckedTaken, HandledFrom
  <2>6. RunningHandled'
    BY <1>1, <2>1, <2>2, <2>3 DEF Tracked, RunningHandled, HandledFrom
  <2>7. SharedDeclared'
    BY <1>1, <2>3, LoseTracks
  <2>8. AtLeastOnce'
    <3>1. SUFFICES ASSUME NEW m \in Messages, Shared(m), sent[m] = "routed"
                   PROVE Held(m)' \/ HandledFrom(m) # {} \/ m \in lost
      BY <2>3 DEF AtLeastOnce, HandledFrom, Shared
    <3>2. Held(m) \/ HandledFrom(m) # {} \/ m \in lost
      BY <1>1, <3>1 DEF Tracked, AtLeastOnce
    <3>3. CASE (\E q \in declared : m \in ready[q]) \/ (\E d \in unacked : d[3] = m)
      BY <1>1, <2>3, <3>1, <3>3, LoseTracks DEF Held
    <3>4. ASSUME NEW t \in tasks, t.msg = m, t.phase = "acking"
          PROVE \E d \in unacked : d[3] = m
      BY <1>1, <2>1, <3>4 DEF Tracked, AckingUnacked
    <3>5. ASSUME NEW t \in tasks, t.msg = m, t.phase # "acking" PROVE \E u \in tasks' : u.msg = m
      BY <2>1, <2>2, <3>5
    <3>6. QED BY <3>2, <3>3, <3>4, <3>5 DEF Held
  <2>9. QED BY <2>4, <2>5, <2>6, <2>7, <2>8 DEF Tracked
<1>16. ASSUME NEW i \in Instances, Reconnect(i) PROVE Tracked'
  BY <1>1, <1>16, Untouched DEF Reconnect
<1>17. ASSUME NEW i \in Instances, Crash(i) PROVE Tracked'
  <2>1. /\ LoseConnection(i) /\ handled' = handled /\ sent' = sent
        /\ tasks' = {t \in tasks : t.inst # i}
        /\ lost' = lost \cup {t.msg : t \in {u \in tasks : u.inst = i /\ u.phase = "acked"}}
    BY <1>17 DEF Crash
  <2>2. AckingUnacked' /\ OneAcking'
    <3>1. \A d \in unacked \ ackSent : d[1] # i => d \in unacked' \ ackSent'
      BY <1>1, <2>1, LoseKeepsOthers
    <3>2. \A t \in tasks : DeliveryOf(t)[1] = t.inst
      BY DEF DeliveryOf
    <3>3. QED BY <1>1, <2>1, <3>1, <3>2 DEF Tracked, AckingUnacked, OneAcking
  <2>3. AckedTaken'
    <3>1. \A d \in ackSent' : d \in ackSent /\ d[1] # i
      BY <1>1, <2>1, LoseKeepsOthers
    <3>2. \A t \in tasks : DeliveryOf(t)[1] = t.inst
      BY DEF DeliveryOf
    <3>3. QED BY <1>1, <2>1, <3>1, <3>2 DEF Tracked, AckedTaken, Acknowledged, HandledFrom
  <2>4. RunningHandled'
    BY <1>1, <2>1 DEF Tracked, RunningHandled, HandledFrom
  <2>5. SharedDeclared'
    BY <1>1, <2>1, LoseTracks
  <2>6. AtLeastOnce'
    <3>1. SUFFICES ASSUME NEW m \in Messages, Shared(m), sent[m] = "routed"
                   PROVE Held(m)' \/ HandledFrom(m) # {} \/ m \in lost'
      BY <2>1 DEF AtLeastOnce, HandledFrom, Shared
    <3>2. Held(m) \/ HandledFrom(m) # {} \/ m \in lost
      BY <1>1, <3>1 DEF Tracked, AtLeastOnce
    <3>3. CASE (\E q \in declared : m \in ready[q]) \/ (\E d \in unacked : d[3] = m)
      BY <1>1, <2>1, <3>1, <3>3, LoseTracks DEF Held
    <3>4. ASSUME NEW t \in tasks, t.msg = m
          PROVE \/ t \in tasks' \/ m \in lost' \/ HandledFrom(m) # {}
                \/ \E d \in unacked : d[3] = m
      <4>1. t.phase \in Phases
        BY <1>1 DEF TypeOK, AllTasks
      <4>2. CASE t.phase = "acking"
        BY <1>1, <3>4, <4>2 DEF Tracked, AckingUnacked, DeliveryOf
      <4>3. CASE t.phase = "acked"
        BY <2>1, <3>4, <4>3
      <4>4. CASE t.phase \in {"running", "calling", "called"}
        BY <1>1, <3>4, <4>4 DEF Tracked, RunningHandled
      <4>5. QED BY <4>1, <4>2, <4>3, <4>4 DEF Phases
    <3>5. QED BY <2>1, <3>2, <3>3, <3>4 DEF Held
  <2>7. QED BY <2>2, <2>3, <2>4, <2>5, <2>6 DEF Tracked
<1>18. ASSUME NEW i \in Instances, Start(i) PROVE Tracked'
  BY <1>1, <1>18, Untouched DEF Start
<1>19. CASE UNCHANGED vars
  BY <1>1, <1>19, Untouched DEF vars
<1>20. QED
  BY <1>1, <1>2, <1>3, <1>4, <1>5, <1>6, <1>7, <1>8, <1>9, <1>10, <1>11, <1>12, <1>13, <1>14,
     <1>15, <1>16, <1>17, <1>18, <1>19 DEF Next, InstanceStep, TaskStep
-----------------------------------------------------------------------------
(* Slots become free, and requests are replied to. *)

\* Steps that lose nothing, run no handler and end none.
LEMMA ServedKept ==
    ASSUME TypeOK, Served, UNCHANGED <<drops, crashes, lost, handled, replied>>,
           \A i \in Instances : link[i] = "up" => link'[i] = "up",
           unacked' \subseteq unacked, \A d \in unacked' : d \in ackSent => d \in ackSent',
           \A t \in tasks : t.phase = "acking" => t \in tasks',
           \A t \in tasks' : \E u \in tasks : u.inst = t.inst,
           \A t \in tasks : \E u \in tasks' : u.msg = t.msg
    PROVE Served'
<1>1. SlotsFreed'
  <2>1. \A d \in unacked : d[1] \in Instances
    BY DEF TypeOK
  <2>2. QED BY <2>1 DEF Served, SlotsFreed
<1>2. Answered'
  <2>1. \A t \in tasks : t.inst \in Instances
    BY DEF TypeOK, AllTasks
  <2>2. QED BY <2>1 DEF Served, Answered, HandledFrom
<1>3. QED BY <1>1, <1>2 DEF Served

\* The step of a task past its acknowledgement.
LEMMA StepServes ==
    ASSUME TypeOK, NEW t \in tasks, t.phase # "acking", NEW phase \in Phases, Step(t, phase)
    PROVE /\ \A u \in tasks : u.phase = "acking" => u \in tasks'
          /\ \A u \in tasks' : \E w \in tasks : w.inst = u.inst
          /\ \A u \in tasks : \E w \in tasks' : w.msg = u.msg
<1> DEFINE v == [t EXCEPT !.phase = phase]
<1>1. v.inst = t.inst /\ v.msg = t.msg /\ tasks' = (tasks \ {t}) \cup {v}
  BY DEF TypeOK, AllTasks, Step
<1> HIDE DEF v
<1>2. QED BY <1>1

\* A loss takes the deliveries of one instance back, and counts as a failure.
LEMMA LoseServes ==
    ASSUME TypeOK, Served, NEW i \in Instances, LoseConnection(i),
           drops' \in Nat, crashes' \in Nat, drops' + crashes' > 0,
           \A j \in Instances : j # i => link'[j] = link[j],
           \A t \in tasks : t.inst # i => t \in tasks'
    PROVE Served'
<1>1. SlotsFreed'
  <2>1. SUFFICES ASSUME NEW d \in unacked, d[1] # i
                 PROVE /\ link'[d[1]] = "up"
                       /\ \/ d \in ackSent'
                          \/ \E t \in tasks' : DeliveryOf(t) = d /\ t.phase = "acking"
    BY DEF LoseConnection, DeliveriesOf, SlotsFreed
  <2>2. d[1] \in Instances /\ link[d[1]] = "up"
    BY DEF TypeOK, Served, SlotsFreed
  <2>3. CASE d \in ackSent
    BY <2>1, <2>2, <2>3 DEF LoseConnection, DeliveriesOf
  <2>4. CASE \E t \in tasks : DeliveryOf(t) = d /\ t.phase = "acking"
    BY <2>1, <2>2, <2>4 DEF DeliveryOf
  <2>5. QED BY <2>3, <2>4 DEF Served, SlotsFreed
<1>2. Answered'
  <2>1. drops' + crashes' # 0
    OBVIOUS
  <2>2. QED BY <2>1 DEF Answered
<1>3. QED BY <1>1, <1>2 DEF Served

LEMMA ServedPreserved == TypeOK /\ Served /\ [Next]_vars => Served'
<1>1. SUFFICES ASSUME TypeOK, Served, [Next]_vars PROVE Served'
  OBVIOUS
<1> USE <1>1 DEF faultVars, leftVars, brokerVars, runVars
<1>2. ASSUME NEW m \in Messages, Publish(m) PROVE Served'
  BY <1>2, ServedKept DEF Publish
<1>3. ASSUME NEW i \in Instances, NEW n \in Names, DeclareQueue(i, n) PROVE Served'
  BY <1>3, ServedKept DEF DeclareQueue
<1>4. ASSUME NEW i \in Instances, Consume(i) PROVE Served'
  BY <1>4, ServedKept DEF Consume
<1>5. ASSUME NEW i \in Instances, RegisterRaises(i) PROVE Served'
  BY <1>5, ServedKept DEF RegisterRaises
<1>6. ASSUME NEW i \in Instances, NEW n \in Names, Unregister(i, n) PROVE Served'
  BY <1>6, ServedKept DEF Unregister
<1>7. ASSUME NEW i \in Instances, NEW n \in Names, UnregisterRaises(i, n) PROVE Served'
  BY <1>7, ServedKept DEF UnregisterRaises
<1>8. ASSUME NEW i \in Instances, NEW q \in Queues, NEW m \in Messages, Deliver(i, q, m) PROVE Served'
  <2>1. /\ link[i] = "up" /\ unacked' = unacked \cup {<<i, q, m>>}
        /\ UNCHANGED <<link, ackSent, drops, crashes, lost, handled, replied>>
    BY <1>8 DEF Deliver
  <2>2. PICK v : /\ tasks' = tasks \cup {v} /\ v.inst = i /\ v.phase = "acking"
                 /\ DeliveryOf(v) = <<i, q, m>>
    <3>1. LET v == Task(i, q, m, Redelivery(i, q, m), "acking")
          IN  tasks' = tasks \cup {v} /\ v.inst = i /\ v.phase = "acking" /\ DeliveryOf(v) = <<i, q, m>>
      BY <1>8 DEF Deliver, Task, DeliveryOf
    <3>2. QED BY <3>1
  <2>3. SlotsFreed'
    BY <2>1, <2>2 DEF Served, SlotsFreed
  <2>4. Answered'
    BY <2>1, <2>2 DEF Served, Answered, HandledFrom
  <2>5. QED BY <2>3, <2>4 DEF Served
<1>9. ASSUME NEW t \in tasks, Ack(t) PROVE Served'
  <2> DEFINE v == [t EXCEPT !.phase = "acked"]
  <2>1. /\ ackSent' = ackSent \cup {d \in unacked : d = DeliveryOf(t)}
        /\ UNCHANGED <<link, unacked, drops, crashes, lost, handled, replied>>
        /\ tasks' = (tasks \ {t}) \cup {v} /\ v.inst = t.inst /\ v.msg = t.msg
    BY <1>9 DEF Ack, Step, TypeOK, AllTasks, DeliveryOf
  <2> HIDE DEF v
  <2>2. SlotsFreed'
    BY <2>1 DEF Served, SlotsFreed
  <2>3. Answered'
    BY <2>1 DEF Served, Answered, HandledFrom
  <2>4. QED BY <2>2, <2>3 DEF Served
<1>10. ASSUME NEW d \in ackSent, BrokerAck(d) PROVE Served'
  BY <1>10, ServedKept DEF BrokerAck
<1>11. ASSUME NEW t \in tasks, RunHandler(t) PROVE Served'
  <2>1. /\ t.phase = "acked" /\ Step(t, "running") /\ t.msg \in Messages
        /\ handled' = [handled EXCEPT ![t.msg][t.queue] = @ + 1]
        /\ UNCHANGED <<link, unacked, ackSent, drops, crashes, lost, replied>>
    BY <1>11 DEF RunHandler, TypeOK, AllTasks
  <2>2. /\ \A u \in tasks : u.phase = "acking" => u \in tasks'
        /\ \A u \in tasks' : \E w \in tasks : w.inst = u.inst
        /\ \A u \in tasks : \E w \in tasks' : w.msg = u.msg
    BY <2>1, StepServes DEF Phases
  <2>3. SlotsFreed'
    BY <2>1, <2>2 DEF Served, SlotsFreed
  <2>4. \A m \in Messages : m # t.msg => HandledFrom(m)' = HandledFrom(m)
    BY <2>1 DEF HandledFrom, TypeOK
  <2>5. Answered'
    BY <2>1, <2>2, <2>4 DEF Served, Answered
  <2>6. QED BY <2>3, <2>5 DEF Served
<1>12. ASSUME NEW t \in tasks, CallChild(t) PROVE Served'
  <2>1. /\ \A u \in tasks : u.phase = "acking" => u \in tasks'
        /\ \A u \in tasks' : \E w \in tasks : w.inst = u.inst
        /\ \A u \in tasks : \E w \in tasks' : w.msg = u.msg
    BY <1>12, StepServes DEF CallChild, Phases
  <2>2. QED BY <1>12, <2>1, ServedKept DEF CallChild
<1>13. ASSUME NEW t \in tasks, ChildDone(t) PROVE Served'
  <2>1. /\ \A u \in tasks : u.phase = "acking" => u \in tasks'
        /\ \A u \in tasks' : \E w \in tasks : w.inst = u.inst
        /\ \A u \in tasks : \E w \in tasks' : w.msg = u.msg
    BY <1>13, StepServes DEF ChildDone, Phases
  <2>2. QED BY <1>13, <2>1, ServedKept DEF ChildDone
<1>14. ASSUME NEW t \in tasks, Finish(t) PROVE Served'
  <2>1. /\ t.phase \in {"running", "called"} /\ tasks' = tasks \ {t}
        /\ UNCHANGED <<link, unacked, ackSent, drops, crashes, lost, handled>>
        /\ replied' = IF Kind(t.msg) = "rpc" /\ link[t.inst] = "up"
                      THEN replied \cup {t.msg} ELSE replied
    BY <1>14 DEF Finish, End
  <2>2. SlotsFreed'
    BY <2>1 DEF Served, SlotsFreed
  <2>3. Answered'
    BY <2>1 DEF Served, Answered, HandledFrom
  <2>4. QED BY <2>2, <2>3 DEF Served
<1>15. ASSUME NEW i \in Instances, Drop(i) PROVE Served'
  <2>1. drops' \in Nat /\ crashes' \in Nat /\ drops' + crashes' > 0
    BY <1>15, BoundsAssumption DEF Drop, TypeOK
  <2>2. \A t \in tasks : t.inst # i => t \in tasks'
    BY <1>15 DEF Drop, SurvivesDrop
  <2>3. LoseConnection(i) /\ \A j \in Instances : j # i => link'[j] = link[j]
    BY <1>15 DEF Drop, TypeOK
  <2>4. QED BY <2>1, <2>2, <2>3, LoseServes
<1>16. ASSUME NEW i \in Instances, Reconnect(i) PROVE Served'
  <2>1. \A j \in Instances : link[j] = "up" => link'[j] = "up"
    BY <1>16 DEF Reconnect, TypeOK
  <2>2. QED BY <1>16, <2>1, ServedKept DEF Reconnect
<1>17. ASSUME NEW i \in Instances, Crash(i) PROVE Served'
  <2>1. drops' \in Nat /\ crashes' \in Nat /\ drops' + crashes' > 0
    BY <1>17, BoundsAssumption DEF Crash, TypeOK
  <2>2. LoseConnection(i) /\ \A j \in Instances : j # i => link'[j] = link[j]
    BY <1>17 DEF Crash, TypeOK
  <2>3. \A t \in tasks : t.inst # i => t \in tasks'
    BY <1>17 DEF Crash
  <2>4. QED BY <2>1, <2>2, <2>3, LoseServes
<1>18. ASSUME NEW i \in Instances, Start(i) PROVE Served'
  <2>1. \A j \in Instances : link[j] = "up" => link'[j] = "up"
    BY <1>18 DEF Start, TypeOK
  <2>2. QED BY <1>18, <2>1, ServedKept DEF Start
<1>19. CASE UNCHANGED vars
  BY <1>19, ServedKept DEF vars
<1>20. QED
  BY <1>2, <1>3, <1>4, <1>5, <1>6, <1>7, <1>8, <1>9, <1>10, <1>11, <1>12, <1>13, <1>14,
     <1>15, <1>16, <1>17, <1>18, <1>19 DEF Next, InstanceStep, TaskStep
-----------------------------------------------------------------------------
(* Theorems. *)

LEMMA InitEstablishes == Init => IInv
<1>1. SUFFICES ASSUME Init PROVE IInv
  OBVIOUS
<1>2. TypeOK
  BY <1>1, BoundsAssumption DEF Init, TypeOK
<1>3. Placed
  BY <1>1 DEF Init, Placed, InOwnQueues, ConsumersOwn, ServedOnly, ConsumersHeld, NoJobNotFound
<1>4. Single
  BY <1>1 DEF Init, Single, OneCopy, AtMostOnce, Taken
<1>5. Tracked
  BY <1>1 DEF Init, Tracked, AckingUnacked, OneAcking, AckedTaken, RunningHandled, SharedDeclared,
                  AtLeastOnce
<1>6. Served
  BY <1>1 DEF Init, Served, SlotsFreed, Answered, HandledFrom
<1>7. Counted
  <2>1. 0 <= unregisters
    BY <1>1 DEF Init
  <2>2. QED BY <1>1, <2>1 DEF Init, Counted
<1>8. Numbered
  BY <1>1 DEF Init, Numbered, Unused
<1>9. QED BY <1>2, <1>3, <1>4, <1>5, <1>6, <1>7, <1>8 DEF IInv

\* Numbers go up with the count of unregistrations.
LEMMA CountedPreserved == TypeOK /\ Counted /\ [Next]_vars => Counted'
<1>1. SUFFICES ASSUME TypeOK, Counted, [Next]_vars PROVE Counted'
  OBVIOUS
<1>2. ASSUME NEW i \in Instances, NEW n \in Names, UnregisterRaises(i, n) PROVE Counted'
  <2>1. SUFFICES ASSUME NEW j \in Instances, NEW k \in Names PROVE serial'[j][k] <= unregisters'
    BY DEF Counted
  <2>2. /\ serial[j][k] \in Nat /\ serial[j][k] <= unregisters
        /\ unregisters \in Nat /\ unregisters' = unregisters + 1
    BY <1>1, <1>2, BoundsAssumption DEF UnregisterRaises, TypeOK, Counted
  <2>3. serial'[j][k] \in {serial[j][k], serial[j][k] + 1}
    BY <1>1, <1>2 DEF UnregisterRaises, TypeOK
  <2>4. QED BY <2>2, <2>3
<1>3. ASSUME NEW i \in Instances, NEW n \in Names, Unregister(i, n) PROVE Counted'
  <2>1. /\ serial' = serial /\ unregisters' = unregisters + 1 /\ unregisters \in Nat
        /\ \A j \in Instances, k \in Names : serial[j][k] \in Nat
    BY <1>1, <1>3, BoundsAssumption DEF Unregister, leftVars, TypeOK
  <2>2. QED BY <1>1, <2>1 DEF Counted
<1>4. CASE UNCHANGED <<serial, unregisters>>
  BY <1>1, <1>4 DEF Counted
<1>5. QED
  BY <1>1, <1>2, <1>3, <1>4
     DEF Next, InstanceStep, TaskStep, Publish, DeclareQueue, Consume, RegisterRaises, Deliver, Ack,
         RunHandler, CallChild, ChildDone, Finish, BrokerAck, Drop, Reconnect, Crash, Start, vars,
         leftVars, faultVars

LEMMA Invariance == Spec => []IInv
<1>1. IInv /\ [Next]_vars => IInv'
  BY TypePreserved, CountedPreserved, NumberedPreserved, PlacedPreserved, SinglePreserved, TrackedPreserved, ServedPreserved
     DEF IInv
<1>2. QED
  BY InitEstablishes, <1>1, PTL DEF Spec

\* The state always has its types, however messages, registrations and faults interleave.
THEOREM TypeCorrect == Spec => []TypeOK
<1>1. IInv => TypeOK
  BY DEF IInv
<1>2. QED BY Invariance, <1>1, PTL

\* The broker's consumers are the names the transport's dictionaries hold, for any number
\* of losses, crashes and unregistrations, but for those whose cancellation raised.
THEOREM ConsumersTracked == Spec => []ConsumersMatch
<1>1. IInv => ConsumersMatch
  <2>1. SUFFICES ASSUME IInv, NEW i \in Instances, NEW n \in Names
                 PROVE Consumes(i, n) <=> n \in registered[i] \/ <<i, n>> \in forgotten
    BY DEF ConsumersMatch
  <2>2. Queue(i, n) \in Queues /\ Queue(i, n)[1] = n
    BY <2>1, CurrentQueue DEF IInv
  <2>3. ASSUME NEW q \in Queues, q[1] = n, i \in consumers[q]
        PROVE n \in registered[i] \/ <<i, n>> \in forgotten
    BY <2>1, <2>3 DEF IInv, Placed, ConsumersHeld, Left
  <2>4. CASE n \in registered[i]
    BY <2>1, <2>2, <2>4 DEF IInv, Placed, ConsumersHeld, Consumes
  <2>5. CASE <<i, n>> \in forgotten
    BY <2>1, <2>5 DEF IInv, Placed, ConsumersHeld, Consumes
  <2>6. QED BY <2>3, <2>4, <2>5 DEF Consumes
<1>2. QED BY Invariance, <1>1, PTL

\* No instance ever takes a message whose name its router has not registered.
THEOREM ServedWhereRegistered == Spec => []NoJobNotFound
<1>1. IInv => NoJobNotFound
  BY DEF IInv, Placed
<1>2. QED BY Invariance, <1>1, PTL

\* A registration hears a broadcast at most once, over any losses of acknowledgements and
\* connections, and an instance handles it from as many queues only as its unregistrations
\* that raised have left behind, plus one.
THEOREM BroadcastOnce == Spec => []BroadcastAtMostOnce
<1>1. IInv => BroadcastAtMostOnce
  <2>1. SUFFICES ASSUME IInv, NEW m \in Messages, NEW q \in Queues, IsExclusive(q)
                 PROVE /\ handled[m][q] <= 1
                       /\ handled[m][q] > 0 => q[3] <= serial[q[2]][q[1]]
    BY DEF BroadcastAtMostOnce
  <2>2. q[1] \in Names /\ q[2] \in Instances /\ q[3] \in Nat
    BY <2>1, QueuesAreNamed, BoundsAssumption
  <2>3. serial[q[2]][q[1]] \in Nat
    BY <2>1, <2>2 DEF IInv, TypeOK
  <2>4. Future(q) => handled[m][q] = 0
    BY <2>1 DEF IInv, Numbered, Unused
  <2>5. QED BY <2>1, <2>2, <2>3, <2>4 DEF IInv, Single, AtMostOnce, Future
<1>2. QED BY Invariance, <1>1, PTL

\* A routed event or request is in a queue, with a consumer or with a handler until some instance has
\* handled it, unless a crash took it after its acknowledgement.
THEOREM NothingForgotten == Spec => []AtLeastOnce
<1>1. IInv => AtLeastOnce
  BY DEF IInv, Tracked
<1>2. QED BY Invariance, <1>1, PTL

\* README of atasks, "Handler processing": no message waits for a prefetch slot that a handler
\* holds, its own or another's, and so no nested call can wait for itself.  A slot is taken only
\* by a message whose acknowledgement has been sent, or whose task does so next.
THEOREM SlotsNeverWait == Spec => []SlotsFreed
<1>1. IInv => SlotsFreed
  BY DEF IInv, Served
<1>2. QED BY Invariance, <1>1, PTL

\* A routed request is replied to, or waits where somebody will take it, or is with a handler
\* - also when that handler is a nested one - unless a connection or a process was lost.
Accounted == \A m \in Messages : Kind(m) = "rpc" /\ sent[m] = "routed" =>
    m \in replied \/ Held(m) \/ drops + crashes > 0

THEOREM RequestsAccounted == Spec => []Accounted
<1>1. IInv => Accounted
  <2>1. SUFFICES ASSUME IInv, NEW m \in Messages, Kind(m) = "rpc", sent[m] = "routed",
                        drops + crashes = 0
                 PROVE m \in replied \/ Held(m)
    <3>1. IInv => drops \in Nat /\ crashes \in Nat
      BY BoundsAssumption DEF IInv, TypeOK
    <3>2. QED BY <3>1 DEF Accounted
  <2>2. Held(m) \/ HandledFrom(m) # {} \/ m \in lost
    BY <2>1 DEF IInv, Tracked, AtLeastOnce, Shared
  <2>3. QED BY <2>1, <2>2 DEF IInv, Served, Answered, Held
<1>2. QED BY Invariance, <1>1, PTL
=============================================================================
