------------------------- MODULE EventContractProofs -------------------------
(***************************************************************************)
(* AmqpDelivery implements EventContract, for any processes, names and     *)
(* messages, and any number of losses, crashes and unregistrations.  The   *)
(* inductive invariant counts what may still run a handler of a message in *)
(* a shared queue: the copy that waits, and the acknowledged ones whose    *)
(* handler has not started.                                                *)
(***************************************************************************)
EXTENDS AmqpDeliveryProofs, FiniteSetTheorems

\* Where a message is, and that one which is nowhere was not published, or not routed.
Queued(m) == \E q \in Queues : m \in ready[q]
Delivered(m) == \E d \in unacked : d[3] = m
Present(m) == Queued(m) \/ Delivered(m) \/ \E t \in tasks : t.msg = m
Unsent == \A m \in Messages : sent[m] # "routed" =>
    ~Present(m) /\ HandledFrom(m) = {} /\ runs[m] = 0

\* A message is in its shared queue, or delivered to one consumer.
OneDelivery == \A m \in Messages : Shared(m) =>
    /\ Queued(m) => ~Delivered(m)
    /\ \A d, e \in unacked : d[3] = m /\ e[3] = m => d = e

\* What may still run it: a copy nobody has acknowledged, and handlers about to start.
Waiting(m) == Queued(m) \/ \E t \in tasks : t.msg = m /\ t.phase = "acking"
Acked(m) == {t \in tasks : t.msg = m /\ t.phase = "acked"}
Due(m) == Cardinality(Acked(m)) + (IF Waiting(m) THEN 1 ELSE 0)
failed == drops + crashes
Paid == \A m \in Messages : Shared(m) => IsFiniteSet(Acked(m)) /\ runs[m] + Due(m) <= 1 + failed

DInv == IInv /\ Unsent /\ OneDelivery /\ Paid
-----------------------------------------------------------------------------
(* Where messages are. *)

\* A message with a shared queue is in no other.
LEMMA SharedQueue == ASSUME TypeOK, Placed, NEW m \in Messages, Shared(m),
                            NEW q \in Queues, m \in ready[q]
                     PROVE ~IsExclusive(q) /\ q = <<NameOf[m], None, 0>>
<1>1. q[1] = NameOf[m] /\ ~IsExclusive(q) /\ KindOf[q[1]] # "broadcast"
  BY EventQueue, QueuesAreNamed DEF Placed, InOwnQueues
<1>2. q = QueueOf(None, q[1], 0)
  BY <1>1, QueuesAreNamed
<1>3. QED BY <1>1, <1>2 DEF QueueOf

\* An event is held wherever it is: the queue it is in exists.
LEMMA HeldIsPresent == ASSUME TypeOK, Placed, Tracked, NEW m \in Messages, Shared(m)
                       PROVE Held(m) <=> Present(m)
<1>1. ASSUME NEW q \in Queues, m \in ready[q] PROVE q \in declared
  <2>1. ~IsExclusive(q)
    BY <1>1, EventQueue DEF Placed, InOwnQueues
  <2>2. QED BY <1>1, <2>1 DEF Tracked, SharedDeclared
<1>2. QED BY <1>1 DEF Held, Present, Queued, Delivered, TypeOK

\* The same of the state after a step.
LEMMA HeldIsPresentAfter ==
    ASSUME TypeOK', Placed', Tracked', NEW m \in Messages, Shared(m)
    PROVE Held(m)' <=> Present(m)'
<1>1. ASSUME NEW q \in Queues, m \in ready'[q] PROVE q \in declared'
  <2>1. ~IsExclusive(q)
    BY <1>1, EventQueue DEF Placed, InOwnQueues
  <2>2. QED BY <1>1, <2>1 DEF Tracked, SharedDeclared
<1>2. QED BY <1>1 DEF Held, Present, Queued, Delivered, TypeOK

\* Tasks of one message come and go: a step of a task keeps it.
LEMMA StepPresent == ASSUME TypeOK, NEW t \in tasks, NEW phase \in Phases, Step(t, phase)
    PROVE \A m \in Messages : (\E u \in tasks : u.msg = m) <=> (\E u \in tasks' : u.msg = m)
<1> DEFINE v == [t EXCEPT !.phase = phase]
<1>1. v.msg = t.msg /\ tasks' = (tasks \ {t}) \cup {v}
  BY DEF TypeOK, AllTasks, Step
<1> HIDE DEF v
<1>2. QED BY <1>1

\* The tasks a lost connection leaves are those there were, but for awaits that fail.
LEMMA Survivors == ASSUME TypeOK, NEW i \in Instances
    PROVE \A t \in SurvivesDrop(i) : \E u \in tasks :
              /\ u.msg = t.msg /\ u.queue = t.queue /\ u.inst = t.inst
              /\ u.redelivery = t.redelivery
              /\ t = u \/ (t.phase = "called" /\ u.phase = "calling")
<1> DEFINE called(u) == [u EXCEPT !.phase = "called"]
<1>1. \A u \in tasks : /\ called(u).msg = u.msg /\ called(u).inst = u.inst
                       /\ called(u).queue = u.queue
                       /\ called(u).redelivery = u.redelivery /\ called(u).phase = "called"
  BY DEF TypeOK, AllTasks
<1>2. SurvivesDrop(i) = {t \in tasks : t.inst # i \/ t.phase \notin {"acking", "calling"}}
                        \cup {called(t) : t \in {u \in tasks : u.inst = i /\ u.phase = "calling"}}
  BY DEF SurvivesDrop
<1> HIDE DEF called
<1>3. ASSUME NEW t \in SurvivesDrop(i), t \notin tasks
      PROVE \E u \in tasks : /\ u.msg = t.msg /\ u.queue = t.queue /\ u.inst = t.inst
                             /\ u.redelivery = t.redelivery
                             /\ t.phase = "called" /\ u.phase = "calling"
  BY <1>1, <1>2, <1>3
<1>4. QED BY <1>3

\* What a lost connection takes back was delivered, and an event stays in a queue or with
\* another consumer.
LEMMA LosePresent == ASSUME TypeOK, Placed, Tracked, NEW i \in Instances, LoseConnection(i)
    PROVE /\ \A m \in Messages : Queued(m)' => Queued(m) \/ Delivered(m)
          /\ \A m \in Messages : Delivered(m)' => Delivered(m)
          /\ \A m \in Events : Queued(m) \/ Delivered(m) => Queued(m)' \/ Delivered(m)'
<1>1. \A m \in Messages : Queued(m)' => Queued(m) \/ Delivered(m)
  BY DEF LoseConnection, Requeued, DeliveriesOf, Queued, Delivered
<1>2. \A m \in Messages : Delivered(m)' => Delivered(m)
  BY DEF LoseConnection, Delivered
<1>3. ASSUME NEW m \in Events, Queued(m) \/ Delivered(m) PROVE Queued(m)' \/ Delivered(m)'
  <2>1. m \in Messages /\ Shared(m)
    BY DEF Events, Shared
  <2>2. \A q \in Queues : m \in ready[q] => q \in declared
    <3>1. ASSUME NEW q \in Queues, m \in ready[q] PROVE q \in declared
      <4>1. ~IsExclusive(q)
        BY <2>1, <3>1, EventQueue DEF Placed, InOwnQueues
      <4>2. QED BY <3>1, <4>1 DEF Tracked, SharedDeclared
    <3>2. QED BY <3>1
  <2>3. (\E q \in declared' : m \in ready'[q]) \/ (\E d \in unacked' : d[3] = m)
    BY <1>3, <2>1, <2>2, LoseTracks DEF Queued, Delivered
  <2>4. declared' \subseteq Queues
    BY LoseTyped
  <2>5. QED BY <2>3, <2>4 DEF Queued, Delivered
<1>4. QED BY <1>1, <1>2, <1>3

\* A step that publishes nothing makes no message appear, and one without a crash makes no
\* event disappear before it was handled.
Fewer == \A m \in Messages : Present(m)' => Present(m)
Kept == \A m \in Events : Present(m) /\ HandledFrom(m) = {} => Present(m)'

\* Steps that leave deliveries and tasks alone, and shared queues.
LEMMA StillThere ==
    ASSUME TypeOK, Placed, UNCHANGED <<unacked, tasks>>,
           \A q \in Queues : ready'[q] \subseteq ready[q],
           \A q \in Queues : ~IsExclusive(q) => ready'[q] = ready[q]
    PROVE Fewer /\ Kept
<1>1. \A m \in Events : \A q \in Queues : m \in ready[q] => ~IsExclusive(q)
  BY EventQueue DEF Events, Shared, Placed, InOwnQueues
<1>2. QED BY <1>1 DEF Fewer, Kept, Present, Queued, Delivered
-----------------------------------------------------------------------------
(* What may still run. *)

LEMMA CountSubset == ASSUME NEW S, IsFiniteSet(S), NEW T \in SUBSET S
                     PROVE /\ IsFiniteSet(T) /\ Cardinality(T) <= Cardinality(S)
                           /\ Cardinality(S) \in Nat /\ Cardinality(T) \in Nat
BY FS_Subset, FS_CardinalityType

LEMMA CountAdd == ASSUME NEW S, IsFiniteSet(S), NEW x
                  PROVE /\ IsFiniteSet(S \cup {x}) /\ Cardinality(S) \in Nat
                        /\ Cardinality(S \cup {x}) <= Cardinality(S) + 1
<1>1. Cardinality(S) \in Nat
  BY FS_CardinalityType
<1>2. /\ IsFiniteSet(S \cup {x})
      /\ Cardinality(S \cup {x}) = IF x \in S THEN Cardinality(S) ELSE Cardinality(S) + 1
  BY FS_AddElement
<1>3. QED BY <1>1, <1>2

LEMMA CountRemove == ASSUME NEW S, IsFiniteSet(S), NEW x \in S
                     PROVE /\ IsFiniteSet(S \ {x}) /\ Cardinality(S) \in Nat
                           /\ Cardinality(S \ {x}) = Cardinality(S) - 1
                           /\ Cardinality(S) >= 1
<1>1. Cardinality(S) \in Nat /\ Cardinality(S) # 0
  BY FS_CardinalityType, FS_EmptySet
<1>2. IsFiniteSet(S \ {x}) /\ Cardinality(S \ {x}) = Cardinality(S) - 1
  BY FS_RemoveElement
<1>3. QED BY <1>1, <1>2

\* A copy and the handlers about to start do not become more: neither does what is due.
LEMMA NoMoreDue ==
    ASSUME TypeOK, NEW m \in Messages, IsFiniteSet(Acked(m)), Acked(m)' \subseteq Acked(m),
           Waiting(m)' => Waiting(m)
    PROVE IsFiniteSet(Acked(m)') /\ Due(m) \in Nat /\ Due(m)' \in Nat /\ Due(m)' <= Due(m)
<1>1. /\ IsFiniteSet(Acked(m)') /\ Cardinality(Acked(m)') <= Cardinality(Acked(m))
      /\ Cardinality(Acked(m)) \in Nat /\ Cardinality(Acked(m)') \in Nat
  BY CountSubset
<1>2. QED BY <1>1 DEF Due

\* A step that publishes, delivers, acknowledges and runs nothing, and loses nobody.
Calm == /\ UNCHANGED <<sent, runVars, drops, crashes>>
        /\ unacked' \subseteq unacked
        /\ \A q \in Queues : ready'[q] \subseteq ready[q]
        /\ \A t \in tasks' : \E u \in tasks : u.msg = t.msg
        /\ \A t \in tasks' : t.phase \in {"acking", "acked"} => t \in tasks

LEMMA CalmKeeps == ASSUME TypeOK, Unsent, OneDelivery, Paid, Calm
                   PROVE Unsent' /\ OneDelivery' /\ Paid'
<1>1. \A m \in Messages : /\ Queued(m)' => Queued(m)
                          /\ Delivered(m)' => Delivered(m)
                          /\ Present(m)' => Present(m)
  BY DEF Calm, Queued, Delivered, Present
<1>2. Unsent'
  BY <1>1 DEF Calm, Unsent, HandledFrom, runVars
<1>3. OneDelivery'
  BY <1>1 DEF Calm, OneDelivery, Shared
<1>4. ASSUME NEW m \in Messages, Shared(m)
      PROVE IsFiniteSet(Acked(m)') /\ runs'[m] + Due(m)' <= 1 + failed'
  <2>1. Acked(m)' \subseteq Acked(m) /\ (Waiting(m)' => Waiting(m))
    BY <1>1 DEF Calm, Acked, Waiting
  <2>2. IsFiniteSet(Acked(m)) /\ runs[m] + Due(m) <= 1 + failed
    BY <1>4 DEF Paid
  <2>3. IsFiniteSet(Acked(m)') /\ Due(m) \in Nat /\ Due(m)' \in Nat /\ Due(m)' <= Due(m)
    BY <2>1, <2>2, NoMoreDue
  <2>4. runs'[m] = runs[m] /\ runs[m] \in Nat /\ failed' = failed /\ failed \in Nat
    BY BoundsAssumption DEF Calm, runVars, failed, TypeOK
  <2>5. QED BY <2>2, <2>3, <2>4
<1>5. Paid'
  BY <1>4 DEF Paid, Shared
<1>6. QED BY <1>2, <1>3, <1>5

\* A published message is new: it waits in its queue, and nothing else of it exists.
LEMMA RouteKeeps ==
    ASSUME TypeOK, Placed, Unsent, OneDelivery, Paid, NEW n \in Messages, sent[n] = "new", Route(n),
           UNCHANGED <<unacked, runVars, drops, crashes>>,
           \A t \in tasks' : \E u \in tasks : u.msg = t.msg,
           \A t \in tasks' : t.phase \in {"acking", "acked"} => t \in tasks
    PROVE Unsent' /\ OneDelivery' /\ Paid'
<1>1. ~Present(n) /\ HandledFrom(n) = {} /\ runs[n] = 0
  BY DEF Unsent
<1>2. \A m \in Messages : Delivered(m)' <=> Delivered(m)
  BY DEF Delivered
<1>3. ASSUME NEW m \in Messages, m # n
      PROVE (Queued(m)' => Queued(m)) /\ (Present(m)' => Present(m)) /\ sent'[m] = sent[m]
  <2>1. (Queued(m)' => Queued(m)) /\ sent'[m] = sent[m]
    BY <1>3 DEF Route, Queued, TypeOK
  <2>2. QED BY <1>2, <2>1 DEF Present
<1>4. Unsent'
  <2>1. ASSUME sent'[n] # "routed" PROVE ~Present(n)'
    <3>1. \A q \in declared : ~Binds(q, NameOf[n])
      BY <2>1 DEF Route, TypeOK
    <3>2. Queued(n)' => Queued(n)
      BY <3>1 DEF Route, Queued
    <3>3. QED BY <1>1, <1>2, <3>2 DEF Present
  <2>2. \A m \in Messages : HandledFrom(m)' = HandledFrom(m) /\ runs'[m] = runs[m]
    BY DEF HandledFrom, runVars
  <2>3. QED BY <1>1, <1>3, <2>1, <2>2 DEF Unsent
<1>5. OneDelivery'
  <2>1. SUFFICES ASSUME NEW m \in Messages, Shared(m)
                 PROVE /\ Queued(m)' => ~Delivered(m)'
                       /\ \A d, e \in unacked : d[3] = m /\ e[3] = m => d = e
    BY DEF OneDelivery, Shared
  <2>2. CASE m = n
    BY <1>1, <1>2, <2>1, <2>2 DEF Present, OneDelivery
  <2>3. CASE m # n
    BY <1>2, <1>3, <2>1, <2>3 DEF OneDelivery
  <2>4. QED BY <2>2, <2>3
<1>6. ASSUME NEW m \in Messages, Shared(m)
      PROVE IsFiniteSet(Acked(m)') /\ runs'[m] + Due(m)' <= 1 + failed'
  <2>1. Acked(m)' \subseteq Acked(m)
    BY DEF Acked
  <2>2. runs'[m] = runs[m] /\ runs[m] \in Nat /\ failed' = failed /\ failed \in Nat
    BY BoundsAssumption DEF runVars, failed, TypeOK
  <2>3. CASE m = n
    <3>1. Acked(m)' = {}
      BY <1>1, <2>1, <2>3 DEF Acked, Present
    <3>2. Due(m)' \in Nat /\ Due(m)' <= 1
      BY <3>1, FS_EmptySet DEF Due
    <3>3. QED BY <1>1, <2>2, <2>3, <3>1, <3>2, FS_EmptySet
  <2>4. CASE m # n
    <3>1. Waiting(m)' => Waiting(m)
      BY <1>3, <2>4 DEF Waiting
    <3>2. IsFiniteSet(Acked(m)) /\ runs[m] + Due(m) <= 1 + failed
      BY <1>6 DEF Paid
    <3>3. IsFiniteSet(Acked(m)') /\ Due(m) \in Nat /\ Due(m)' \in Nat /\ Due(m)' <= Due(m)
      BY <2>1, <3>1, <3>2, NoMoreDue
    <3>4. QED BY <2>2, <3>2, <3>3
  <2>5. QED BY <2>3, <2>4
<1>7. Paid'
  BY <1>6 DEF Paid, Shared
<1>8. QED BY <1>4, <1>5, <1>7

\* A delivery takes the copy from its queue.
LEMMA DeliverKeeps ==
    ASSUME TypeOK, Placed, Unsent, OneDelivery, Paid,
           NEW i \in Instances, NEW q \in Queues, NEW n \in Messages, Deliver(i, q, n)
    PROVE Unsent' /\ OneDelivery' /\ Paid'
<1>1. /\ n \in ready[q] /\ ready' = [ready EXCEPT ![q] = @ \ {n}]
      /\ unacked' = unacked \cup {<<i, q, n>>}
      /\ UNCHANGED <<sent, runVars, drops, crashes>>
  BY DEF Deliver, faultVars
<1>2. PICK v : /\ tasks' = tasks \cup {v} /\ v.msg = n /\ v.phase = "acking"
  <2>1. LET v == Task(i, q, n, Redelivery(i, q, n), "acking")
        IN  tasks' = tasks \cup {v} /\ v.msg = n /\ v.phase = "acking"
    BY DEF Deliver, Task
  <2>2. QED BY <2>1
<1>3. \A m \in Messages : (Queued(m)' => Queued(m)) /\ (m # n /\ Delivered(m)' => Delivered(m))
  BY <1>1 DEF Queued, Delivered, TypeOK
<1>4. Queued(n)
  BY <1>1 DEF Queued
<1>5. \A m \in Messages : Present(m)' => Present(m)
  BY <1>2, <1>3, <1>4 DEF Present
<1>6. Unsent'
  BY <1>1, <1>5 DEF Unsent, HandledFrom, runVars
<1>7. OneDelivery'
  <2>1. SUFFICES ASSUME NEW m \in Messages, Shared(m)
                 PROVE /\ Queued(m)' => ~Delivered(m)'
                       /\ \A d, e \in unacked' : d[3] = m /\ e[3] = m => d = e
    BY DEF OneDelivery, Shared
  <2>2. CASE m = n
    <3>1. ~Delivered(n)
      BY <1>4, <2>1, <2>2 DEF OneDelivery
    <3>2. ASSUME NEW p \in Queues, n \in ready'[p] PROVE FALSE
      <4>1. n \in ready[p] /\ p # q
        BY <1>1, <3>2 DEF TypeOK
      <4>2. p = q
        BY <1>1, <2>1, <2>2, <4>1, SharedQueue
      <4>3. QED BY <4>1, <4>2
    <3>3. QED BY <1>1, <2>2, <3>1, <3>2 DEF Queued, Delivered
  <2>3. CASE m # n
    BY <1>1, <1>3, <2>1, <2>3 DEF OneDelivery
  <2>4. QED BY <2>2, <2>3
<1>8. ASSUME NEW m \in Messages, Shared(m)
      PROVE IsFiniteSet(Acked(m)') /\ runs'[m] + Due(m)' <= 1 + failed'
  <2>1. Acked(m)' \subseteq Acked(m) /\ (Waiting(m)' => Waiting(m))
    BY <1>2, <1>3, <1>4 DEF Acked, Waiting
  <2>2. IsFiniteSet(Acked(m)) /\ runs[m] + Due(m) <= 1 + failed
    BY <1>8 DEF Paid
  <2>3. IsFiniteSet(Acked(m)') /\ Due(m) \in Nat /\ Due(m)' \in Nat /\ Due(m)' <= Due(m)
    BY <2>1, <2>2, NoMoreDue
  <2>4. runs'[m] = runs[m] /\ runs[m] \in Nat /\ failed' = failed /\ failed \in Nat
    BY <1>1, BoundsAssumption DEF runVars, failed, TypeOK
  <2>5. QED BY <2>2, <2>3, <2>4
<1>9. Paid'
  BY <1>8 DEF Paid, Shared
<1>10. QED BY <1>6, <1>7, <1>9

\* An acknowledgement turns the copy that waits into a handler about to start.
LEMMA AckKeeps ==
    ASSUME TypeOK, Placed, Tracked, Unsent, OneDelivery, Paid, NEW t \in tasks, Ack(t)
    PROVE Unsent' /\ OneDelivery' /\ Paid'
<1> DEFINE v == [t EXCEPT !.phase = "acked"]
<1>1. /\ t.phase = "acking" /\ tasks' = (tasks \ {t}) \cup {v}
      /\ v.msg = t.msg /\ v.inst = t.inst /\ v.phase = "acked" /\ t.msg \in Messages
      /\ UNCHANGED <<sent, ready, unacked, runVars, drops, crashes>>
  BY DEF Ack, Step, faultVars, TypeOK, AllTasks
<1> HIDE DEF v
<1>2. \A m \in Messages : /\ (Queued(m)' <=> Queued(m)) /\ (Delivered(m)' <=> Delivered(m))
                          /\ Present(m)' => Present(m)
  BY <1>1 DEF Queued, Delivered, Present
<1>3. Unsent' /\ OneDelivery'
  BY <1>1, <1>2 DEF Unsent, OneDelivery, HandledFrom, runVars, Shared
<1>4. ASSUME NEW m \in Messages, Shared(m)
      PROVE IsFiniteSet(Acked(m)') /\ runs'[m] + Due(m)' <= 1 + failed'
  <2>1. IsFiniteSet(Acked(m)) /\ runs[m] + Due(m) <= 1 + failed
    BY <1>4 DEF Paid
  <2>2. runs'[m] = runs[m] /\ runs[m] \in Nat /\ failed' = failed /\ failed \in Nat
    BY <1>1, BoundsAssumption DEF runVars, failed, TypeOK
  <2>3. CASE m = t.msg
    <3>1. Delivered(m)
      BY <1>1, <2>3 DEF Tracked, AckingUnacked, DeliveryOf, Delivered
    <3>2. ~Queued(m)
      BY <1>4, <3>1 DEF OneDelivery
    <3>3. ASSUME NEW u \in tasks, u.msg = m, u.phase = "acking" PROVE u = t
      <4>1. DeliveryOf(u) \in unacked /\ DeliveryOf(t) \in unacked
        BY <1>1, <3>3 DEF Tracked, AckingUnacked
      <4>2. DeliveryOf(u) = DeliveryOf(t)
        <5>1. DeliveryOf(u)[3] = m /\ DeliveryOf(t)[3] = m
          BY <2>3, <3>3 DEF DeliveryOf
        <5>2. QED BY <1>4, <4>1, <5>1 DEF OneDelivery
      <4>3. QED BY <1>1, <2>3, <3>3, <4>2 DEF Tracked, OneAcking
    <3>4. ~Waiting(m)'
      BY <1>1, <1>2, <3>2, <3>3 DEF Waiting
    <3>5. Waiting(m)
      BY <1>1, <2>3 DEF Waiting
    <3>6. Acked(m)' \subseteq Acked(m) \cup {v}
      BY <1>1 DEF Acked
    <3>7. /\ IsFiniteSet(Acked(m) \cup {v}) /\ Cardinality(Acked(m)) \in Nat
          /\ Cardinality(Acked(m) \cup {v}) <= Cardinality(Acked(m)) + 1
      BY <2>1, CountAdd
    <3>8. /\ IsFiniteSet(Acked(m)') /\ Cardinality(Acked(m)') \in Nat
          /\ Cardinality(Acked(m)') <= Cardinality(Acked(m) \cup {v})
          /\ Cardinality(Acked(m) \cup {v}) \in Nat
      BY <3>6, <3>7, CountSubset
    <3>9. Due(m)' = Cardinality(Acked(m)') /\ Due(m) = Cardinality(Acked(m)) + 1
      BY <3>4, <3>5, <3>8 DEF Due
    <3>10. QED BY <2>1, <2>2, <3>7, <3>8, <3>9
  <2>4. CASE m # t.msg
    <3>1. Acked(m)' \subseteq Acked(m) /\ (Waiting(m)' => Waiting(m))
      BY <1>1, <1>2, <2>4 DEF Acked, Waiting
    <3>2. IsFiniteSet(Acked(m)') /\ Due(m) \in Nat /\ Due(m)' \in Nat /\ Due(m)' <= Due(m)
      BY <2>1, <3>1, NoMoreDue
    <3>3. QED BY <2>1, <2>2, <3>2
  <2>5. QED BY <2>3, <2>4
<1>5. Paid'
  BY <1>4 DEF Paid, Shared
<1>6. QED BY <1>3, <1>5

\* Starting its handler spends an acknowledged copy.
LEMMA RunKeeps ==
    ASSUME TypeOK, Unsent, OneDelivery, Paid, NEW t \in tasks, RunHandler(t)
    PROVE /\ Unsent' /\ OneDelivery' /\ Paid'
          /\ Shared(t.msg) => runs[t.msg] <= failed
<1> DEFINE v == [t EXCEPT !.phase = "running"]
<1>1. /\ t.phase = "acked" /\ tasks' = (tasks \ {t}) \cup {v}
      /\ v.msg = t.msg /\ v.phase = "running" /\ t.msg \in Messages
      /\ UNCHANGED <<sent, ready, unacked, drops, crashes>>
      /\ runs' = [runs EXCEPT ![t.msg] = @ + 1]
      /\ handled' = [handled EXCEPT ![t.msg][t.queue] = @ + 1]
  BY DEF RunHandler, Step, faultVars, brokerVars, TypeOK, AllTasks
<1> HIDE DEF v
<1>2. \A m \in Messages : /\ (Queued(m)' <=> Queued(m)) /\ (Delivered(m)' <=> Delivered(m))
                          /\ Present(m)' => Present(m)
  BY <1>1 DEF Queued, Delivered, Present
<1>3. Present(t.msg)
  BY DEF Present
<1>4. Unsent'
  <2>1. \A m \in Messages : m # t.msg => HandledFrom(m)' = HandledFrom(m) /\ runs'[m] = runs[m]
    BY <1>1 DEF HandledFrom, TypeOK
  <2>2. QED BY <1>1, <1>2, <1>3, <2>1 DEF Unsent
<1>5. OneDelivery'
  BY <1>1, <1>2 DEF OneDelivery, Shared
<1>6. ASSUME NEW m \in Messages, Shared(m)
      PROVE /\ IsFiniteSet(Acked(m)') /\ runs'[m] + Due(m)' <= 1 + failed'
            /\ m = t.msg => runs[m] <= failed
  <2>1. IsFiniteSet(Acked(m)) /\ runs[m] + Due(m) <= 1 + failed
    BY <1>6 DEF Paid
  <2>2. runs[m] \in Nat /\ failed' = failed /\ failed \in Nat
    BY <1>1, BoundsAssumption DEF failed, TypeOK
  <2>3. Waiting(m)' <=> Waiting(m)
    BY <1>1, <1>2 DEF Waiting
  <2>4. CASE m = t.msg
    <3>1. t \in Acked(m) /\ Acked(m)' = Acked(m) \ {t}
      BY <1>1, <2>4 DEF Acked
    <3>2. /\ IsFiniteSet(Acked(m)') /\ Cardinality(Acked(m)) \in Nat
          /\ Cardinality(Acked(m)') = Cardinality(Acked(m)) - 1 /\ Cardinality(Acked(m)) >= 1
      BY <2>1, <3>1, CountRemove
    <3>3. Due(m) \in Nat /\ Due(m)' = Due(m) - 1 /\ Due(m) >= 1
      BY <2>3, <3>2 DEF Due
    <3>4. runs'[m] = runs[m] + 1
      BY <1>1, <2>4 DEF TypeOK
    <3>5. QED BY <2>1, <2>2, <3>2, <3>3, <3>4
  <2>5. CASE m # t.msg
    <3>1. Acked(m)' \subseteq Acked(m)
      BY <1>1, <2>5 DEF Acked
    <3>2. IsFiniteSet(Acked(m)') /\ Due(m) \in Nat /\ Due(m)' \in Nat /\ Due(m)' <= Due(m)
      BY <2>1, <2>3, <3>1, NoMoreDue
    <3>3. runs'[m] = runs[m]
      BY <1>1, <2>5 DEF TypeOK
    <3>4. QED BY <2>1, <2>2, <2>5, <3>2, <3>3
  <2>6. QED BY <2>4, <2>5
<1>7. Paid'
  BY <1>6 DEF Paid, Shared
<1>8. QED BY <1>1, <1>4, <1>5, <1>6, <1>7

\* A loss may put a copy back into its queue, beside handlers that will start nevertheless:
\* the failure pays for it.
LEMMA LoseKeeps ==
    ASSUME TypeOK, Placed, Tracked, Unsent, OneDelivery, Paid,
           NEW i \in Instances, LoseConnection(i), UNCHANGED <<sent, runVars>>,
           failed' = failed + 1,
           \A t \in tasks' : \E u \in tasks : u.msg = t.msg,
           \A t \in tasks' : t.phase \in {"acking", "acked"} => t \in tasks
    PROVE Unsent' /\ OneDelivery' /\ Paid'
<1>1. \A m \in Messages : Present(m)' => Present(m)
  BY LosePresent DEF Present
<1>2. Unsent'
  BY <1>1 DEF Unsent, HandledFrom, runVars
<1>3. unacked' = unacked \ DeliveriesOf(i)
  BY DEF LoseConnection
<1>4. OneDelivery'
  <2>1. SUFFICES ASSUME NEW m \in Messages, Shared(m)
                 PROVE /\ Queued(m)' => ~Delivered(m)'
                       /\ \A d, e \in unacked' : d[3] = m /\ e[3] = m => d = e
    BY DEF OneDelivery, Shared
  <2>2. ASSUME NEW q \in Queues, m \in ready'[q] PROVE ~Delivered(m)'
    <3>1. m \in ready[q] \/ <<i, q, m>> \in unacked
      BY <2>2 DEF LoseConnection, Requeued, DeliveriesOf
    <3>2. CASE m \in ready[q]
      BY <1>3, <2>1, <3>2 DEF OneDelivery, Queued, Delivered
    <3>3. CASE <<i, q, m>> \in unacked
      <4>1. \A d \in unacked : d[3] = m => d = <<i, q, m>>
        BY <2>1, <3>3 DEF OneDelivery
      <4>2. QED BY <1>3, <4>1 DEF Delivered, DeliveriesOf
    <3>4. QED BY <3>1, <3>2, <3>3
  <2>3. QED BY <1>3, <2>1, <2>2 DEF OneDelivery, Queued
<1>5. ASSUME NEW m \in Messages, Shared(m)
      PROVE IsFiniteSet(Acked(m)') /\ runs'[m] + Due(m)' <= 1 + failed'
  <2>1. IsFiniteSet(Acked(m)) /\ runs[m] + Due(m) <= 1 + failed
    BY <1>5 DEF Paid
  <2>2. Acked(m)' \subseteq Acked(m)
    BY DEF Acked
  <2>3. /\ IsFiniteSet(Acked(m)') /\ Cardinality(Acked(m)') <= Cardinality(Acked(m))
        /\ Cardinality(Acked(m)) \in Nat /\ Cardinality(Acked(m)') \in Nat
    BY <2>1, <2>2, CountSubset
  <2>4. Due(m) \in Nat /\ Due(m)' \in Nat /\ Due(m)' <= Due(m) + 1
    BY <2>3 DEF Due
  <2>5. runs'[m] = runs[m] /\ runs[m] \in Nat /\ failed \in Nat
    BY BoundsAssumption DEF runVars, failed, TypeOK
  <2>6. QED BY <2>1, <2>3, <2>4, <2>5
<1>6. Paid'
  BY <1>5 DEF Paid, Shared
<1>7. QED BY <1>2, <1>4, <1>6

LEMMA DInvPreserved == DInv /\ [Next]_vars => DInv'
<1>1. SUFFICES ASSUME DInv, [Next]_vars PROVE Unsent' /\ OneDelivery' /\ Paid'
  BY TypePreserved, CountedPreserved, NumberedPreserved, PlacedPreserved, SinglePreserved,
     TrackedPreserved, ServedPreserved
     DEF DInv, IInv
<1> DEFINE Good == Unsent' /\ OneDelivery' /\ Paid'
<1>0. TypeOK /\ Placed /\ Tracked /\ Unsent /\ OneDelivery /\ Paid
  BY <1>1 DEF DInv, IInv
<1> USE <1>0 DEF faultVars, leftVars, brokerVars
<1>2. ASSUME NEW m \in Messages, Publish(m) PROVE Good
  BY <1>2, RouteKeeps DEF Publish
<1>3. ASSUME NEW i \in Instances, NEW n \in Names, DeclareQueue(i, n) PROVE Good
  BY <1>3, CalmKeeps DEF DeclareQueue, Cleared, Calm
<1>4. ASSUME NEW i \in Instances, Consume(i) PROVE Good
  BY <1>4, CalmKeeps DEF Consume, Calm
<1>5. ASSUME NEW i \in Instances, RegisterRaises(i) PROVE Good
  BY <1>5, CalmKeeps DEF RegisterRaises, Calm
<1>6. ASSUME NEW i \in Instances, NEW n \in Names, Unregister(i, n) PROVE Good
  BY <1>6, CalmKeeps DEF Unregister, Cleared, Calm
<1>7. ASSUME NEW i \in Instances, NEW n \in Names, UnregisterRaises(i, n) PROVE Good
  BY <1>7, CalmKeeps DEF UnregisterRaises, Calm
<1>8. ASSUME NEW i \in Instances, NEW q \in Queues, NEW m \in Messages, Deliver(i, q, m) PROVE Good
  BY <1>8, DeliverKeeps
<1>9. ASSUME NEW t \in tasks, Ack(t) PROVE Good
  BY <1>9, AckKeeps
<1>10. ASSUME NEW d \in ackSent, BrokerAck(d) PROVE Good
  BY <1>10, CalmKeeps DEF BrokerAck, Calm
<1>11. ASSUME NEW t \in tasks, RunHandler(t) PROVE Good
  BY <1>11, RunKeeps
<1>12. ASSUME NEW t \in tasks, NEW phase \in {"calling", "called"}, Step(t, phase)
       PROVE /\ \A u \in tasks' : \E w \in tasks : w.msg = u.msg
             /\ \A u \in tasks' : u.phase \in {"acking", "acked"} => u \in tasks
  <2>1. [t EXCEPT !.phase = phase].msg = t.msg /\ [t EXCEPT !.phase = phase].phase = phase
    BY DEF TypeOK, AllTasks
  <2>2. QED BY <1>12, <2>1 DEF Step
<1>13. ASSUME NEW t \in tasks, CallChild(t) PROVE Good
  <2>1. Child[t.msg] \in Messages
    BY <1>13, NamesAssumption DEF CallChild, TypeOK, AllTasks
  <2>2. QED BY <1>12, <1>13, <2>1, RouteKeeps DEF CallChild
<1>14. ASSUME NEW t \in tasks, ChildDone(t) PROVE Good
  BY <1>12, <1>14, CalmKeeps DEF ChildDone, Calm
<1>15. ASSUME NEW t \in tasks, Finish(t) PROVE Good
  BY <1>15, CalmKeeps DEF Finish, End, Calm
<1>16. ASSUME NEW i \in Instances, Drop(i) PROVE Good
  <2>1. /\ \A u \in tasks' : \E w \in tasks : w.msg = u.msg
        /\ \A u \in tasks' : u.phase \in {"acking", "acked"} => u \in tasks
    BY <1>16, Survivors DEF Drop
  <2>2. failed' = failed + 1
    BY <1>16, BoundsAssumption DEF Drop, failed, TypeOK
  <2>3. QED BY <1>16, <2>1, <2>2, LoseKeeps DEF Drop
<1>17. ASSUME NEW i \in Instances, Reconnect(i) PROVE Good
  BY <1>17, CalmKeeps DEF Reconnect, Calm
<1>18. ASSUME NEW i \in Instances, Crash(i) PROVE Good
  <2>1. /\ \A u \in tasks' : \E w \in tasks : w.msg = u.msg
        /\ \A u \in tasks' : u.phase \in {"acking", "acked"} => u \in tasks
    BY <1>18 DEF Crash
  <2>2. failed' = failed + 1
    BY <1>18, BoundsAssumption DEF Crash, failed, TypeOK
  <2>3. QED BY <1>18, <2>1, <2>2, LoseKeeps DEF Crash
<1>19. ASSUME NEW i \in Instances, Start(i) PROVE Good
  BY <1>19, CalmKeeps DEF Start, Calm
<1>20. CASE UNCHANGED vars
  BY <1>20, CalmKeeps DEF vars, Calm, runVars
<1>21. QED
  BY <1>1, <1>2, <1>3, <1>4, <1>5, <1>6, <1>7, <1>8, <1>9, <1>10, <1>11, <1>13, <1>14,
     <1>15, <1>16, <1>17, <1>18, <1>19, <1>20 DEF Next, InstanceStep, TaskStep
-----------------------------------------------------------------------------
(* The contract of events. *)

StateOf(m) == IF sent[m] # "routed" THEN sent[m]
              ELSE IF HandledFrom(m) # {} THEN "done"
              ELSE IF Held(m) THEN "pending" ELSE "lost"
states == [m \in Events |-> StateOf(m)]
eventRuns == [m \in Events |-> runs[m]]
ContractStep == [Contract!Next]_(Contract!vars)

LEMMA ContractState == /\ Contract!vars = <<states, eventRuns, failed>>
                       /\ Contract!vars' = <<states', eventRuns', failed'>>
BY DEF Contract!vars, states, StateOf, eventRuns, failed

LEMMA ContractActions ==
    /\ Contract!Crash <=>
         /\ failed' = failed + 1 /\ eventRuns' = eventRuns
         /\ \E gone \in SUBSET {m \in Events : states[m] = "pending"} :
              states' = [m \in Events |-> IF m \in gone THEN "lost" ELSE states[m]]
    /\ \A m : Contract!Publish(m) <=>
         /\ states[m] = "new" /\ eventRuns' = eventRuns /\ failed' = failed
         /\ \E s \in {"pending", "dropped"} : states' = [states EXCEPT ![m] = s]
    /\ \A m : Contract!Run(m) <=>
         /\ states[m] \in {"pending", "done"} /\ eventRuns[m] <= failed
         /\ states' = [states EXCEPT ![m] = "done"]
         /\ eventRuns' = [eventRuns EXCEPT ![m] = @ + 1] /\ failed' = failed
<1>1. Contract!Crash <=>
         /\ failed' = failed + 1 /\ eventRuns' = eventRuns
         /\ \E gone \in SUBSET {m \in Events : states[m] = "pending"} :
              states' = [m \in Events |-> IF m \in gone THEN "lost" ELSE states[m]]
  BY DEF Contract!Crash, states, StateOf, eventRuns, failed
<1>2. \A m : Contract!Publish(m) <=>
         /\ states[m] = "new" /\ eventRuns' = eventRuns /\ failed' = failed
         /\ \E s \in {"pending", "dropped"} : states' = [states EXCEPT ![m] = s]
  BY DEF Contract!Publish, states, StateOf, eventRuns, failed
<1>3. \A m : Contract!Run(m) <=>
         /\ states[m] \in {"pending", "done"} /\ eventRuns[m] <= failed
         /\ states' = [states EXCEPT ![m] = "done"]
         /\ eventRuns' = [eventRuns EXCEPT ![m] = @ + 1] /\ failed' = failed
  BY DEF Contract!Run, Contract!MayRun, states, StateOf, eventRuns, failed
<1>4. QED BY <1>1, <1>2, <1>3

\* The invariant before and after a step, as the steps below need it.
Around == TypeOK /\ Placed /\ Tracked /\ Unsent /\ TypeOK' /\ Placed' /\ Tracked'

LEMMA EventIsMessage == \A m \in Events : m \in Messages /\ Shared(m)
BY DEF Events, Shared

\* Where no handler runs and nothing is published, an event stays where the contract sees it,
\* or a crash loses it.
LEMMA SameOrLost ==
    ASSUME Around, UNCHANGED <<sent, runVars>>, Fewer, NEW m \in Events
    PROVE /\ eventRuns' = eventRuns
          /\ StateOf(m)' = StateOf(m) \/ (StateOf(m) = "pending" /\ StateOf(m)' = "lost")
          /\ Kept => StateOf(m)' = StateOf(m)
<1>1. m \in Messages /\ Shared(m)
  BY EventIsMessage
<1>2. HandledFrom(m)' = HandledFrom(m) /\ sent' = sent /\ eventRuns' = eventRuns
  BY DEF HandledFrom, runVars, eventRuns
<1>3. (Held(m) <=> Present(m)) /\ (Held(m)' <=> Present(m)')
  BY <1>1, HeldIsPresent, HeldIsPresentAfter DEF Around
<1>4. Held(m)' => Held(m)
  BY <1>1, <1>3 DEF Fewer
<1>5. Kept => (HandledFrom(m) = {} => (Held(m) <=> Held(m)'))
  BY <1>3, <1>4 DEF Kept
<1>6. QED BY <1>2, <1>4, <1>5 DEF StateOf

LEMMA Stutters == ASSUME Around, UNCHANGED <<sent, runVars, drops, crashes>>, Fewer, Kept
                  PROVE ContractStep
<1>1. eventRuns' = eventRuns
  BY DEF eventRuns, runVars
<1>2. \A m \in Events : StateOf(m)' = StateOf(m)
  BY SameOrLost
<1>3. states' = states /\ failed' = failed
  BY <1>2 DEF states, failed
<1>4. QED BY <1>1, <1>3, ContractState DEF ContractStep

LEMMA Loses == ASSUME Around, UNCHANGED <<sent, runVars>>, failed' = failed + 1, Fewer, Kept
               PROVE ContractStep
<1>1. eventRuns' = eventRuns
  BY DEF eventRuns, runVars
<1>2. \A m \in Events : StateOf(m)' = StateOf(m)
  BY SameOrLost
<1>3. states' = states
  BY <1>2 DEF states
<1>4. Contract!Loss
  BY <1>1, <1>3, ContractState DEF Contract!Loss, Contract!vars
<1>5. QED BY <1>4 DEF ContractStep, Contract!Next

LEMMA Crashes == ASSUME Around, UNCHANGED <<sent, runVars>>, failed' = failed + 1, Fewer
                 PROVE ContractStep
<1>1. eventRuns' = eventRuns
  BY DEF eventRuns, runVars
<1>2. \A m \in Events : StateOf(m)' = StateOf(m) \/ (StateOf(m) = "pending" /\ StateOf(m)' = "lost")
  BY SameOrLost
<1> DEFINE gone == {m \in Events : StateOf(m) = "pending" /\ StateOf(m)' = "lost"}
<1>3. gone \in SUBSET {m \in Events : states[m] = "pending"}
  BY DEF states
<1>4. states' = [m \in Events |-> IF m \in gone THEN "lost" ELSE states[m]]
  BY <1>2 DEF states
<1> HIDE DEF gone
<1>5. Contract!Crash
  BY <1>1, <1>3, <1>4, ContractActions
<1>6. QED BY <1>5 DEF ContractStep, Contract!Next

LEMMA Publishes ==
    ASSUME Around, NEW n \in Messages, sent[n] = "new", Route(n),
           UNCHANGED <<declared, unacked, runVars, drops, crashes>>,
           \A m \in Messages : (\E t \in tasks : t.msg = m) <=> (\E t \in tasks' : t.msg = m)
    PROVE ContractStep
<1>1. eventRuns' = eventRuns /\ failed' = failed /\ \A m \in Messages : HandledFrom(m)' = HandledFrom(m)
  BY DEF eventRuns, runVars, failed, HandledFrom
<1>2. ASSUME NEW m \in Events, m # n PROVE StateOf(m)' = StateOf(m)
  <2>1. m \in Messages /\ Shared(m)
    BY EventIsMessage
  <2>2. sent'[m] = sent[m] /\ (Queued(m)' <=> Queued(m)) /\ (Delivered(m)' <=> Delivered(m))
    BY <1>2, <2>1 DEF Route, Queued, Delivered, Around, TypeOK
  <2>3. Present(m)' <=> Present(m)
    BY <2>1, <2>2 DEF Present
  <2>4. Held(m)' <=> Held(m)
    BY <2>1, <2>3, HeldIsPresent, HeldIsPresentAfter DEF Around
  <2>5. QED BY <1>1, <2>1, <2>2, <2>4 DEF StateOf
<1>3. CASE n \notin Events
  <2>1. states' = states
    BY <1>2, <1>3 DEF states
  <2>2. QED BY <1>1, <2>1, ContractState DEF ContractStep
<1>4. CASE n \in Events
  <2>1. StateOf(n) = "new" /\ HandledFrom(n) = {}
    BY DEF StateOf, Around, Unsent
  <2>2. StateOf(n)' \in {"pending", "dropped"}
    <3>1. CASE \E q \in declared : Binds(q, NameOf[n])
      <4>1. PICK q \in declared : Binds(q, NameOf[n])
        BY <3>1
      <4>2. q \in Queues /\ n \in ready'[q]
        BY <4>1 DEF Route, Around, TypeOK
      <4>3. Held(n)'
        BY <4>1, <4>2 DEF Held
      <4>4. sent'[n] = "routed"
        BY <4>1 DEF Route, Around, TypeOK
      <4>5. QED BY <1>1, <2>1, <4>3, <4>4 DEF StateOf
    <3>2. CASE \A q \in declared : ~Binds(q, NameOf[n])
      <4>1. sent'[n] = "dropped"
        BY <3>2 DEF Route, Around, TypeOK
      <4>2. QED BY <4>1 DEF StateOf
    <3>3. QED BY <3>1, <3>2
  <2>3. states' = [states EXCEPT ![n] = StateOf(n)']
    BY <1>2, <1>4 DEF states
  <2>4. states[n] = "new"
    BY <1>4, <2>1 DEF states
  <2>5. Contract!Publish(n)
    BY <1>1, <2>2, <2>3, <2>4, ContractActions
  <2>6. QED BY <1>4, <2>5 DEF ContractStep, Contract!Next
<1>5. QED BY <1>3, <1>4

LEMMA Runs == ASSUME Around, OneDelivery, Paid, NEW t \in tasks, RunHandler(t) PROVE ContractStep
<1>1. /\ t.msg \in Messages /\ t.queue \in Queues
      /\ UNCHANGED <<sent, ready, unacked, declared, drops, crashes>>
      /\ runs' = [runs EXCEPT ![t.msg] = @ + 1]
      /\ handled' = [handled EXCEPT ![t.msg][t.queue] = @ + 1] /\ Step(t, "running")
  BY DEF RunHandler, faultVars, brokerVars, Around, TypeOK, AllTasks
<1>2. failed' = failed
  BY <1>1 DEF failed
<1>3. ASSUME NEW m \in Events, m # t.msg PROVE StateOf(m)' = StateOf(m) /\ runs'[m] = runs[m]
  <2>1. m \in Messages /\ Shared(m)
    BY EventIsMessage
  <2>2. (\E u \in tasks : u.msg = m) <=> (\E u \in tasks' : u.msg = m)
    BY <1>1, <2>1, StepPresent DEF Around, Phases
  <2>3. Held(m)' <=> Held(m)
    BY <1>1, <2>2 DEF Held
  <2>4. HandledFrom(m)' = HandledFrom(m) /\ runs'[m] = runs[m]
    BY <1>1, <1>3, <2>1 DEF HandledFrom, Around, TypeOK
  <2>5. QED BY <1>1, <2>3, <2>4 DEF StateOf
<1>4. CASE t.msg \notin Events
  <2>1. states' = states /\ eventRuns' = eventRuns
    BY <1>3, <1>4 DEF states, eventRuns
  <2>2. QED BY <1>2, <2>1, ContractState DEF ContractStep
<1>5. CASE t.msg \in Events
  <2> DEFINE n == t.msg
  <2>1. sent[n] = "routed" /\ Held(n)
    BY <1>1 DEF Around, Unsent, Present, Held
  <2>2. StateOf(n) \in {"pending", "done"}
    BY <2>1 DEF StateOf
  <2>3. runs[n] <= failed
    BY <1>1, <1>5, RunKeeps, EventIsMessage DEF Around
  <2>4. HandledFrom(n)' # {}
    <3>1. handled'[n][t.queue] = handled[n][t.queue] + 1 /\ handled[n][t.queue] \in Nat
      BY <1>1 DEF Around, TypeOK
    <3>2. QED BY <1>1, <3>1 DEF HandledFrom
  <2>5. StateOf(n)' = "done"
    BY <1>1, <2>1, <2>4 DEF StateOf
  <2>6. runs'[n] = runs[n] + 1
    BY <1>1 DEF Around, TypeOK
  <2> HIDE DEF n
  <2>7. n \in Events
    BY <1>5 DEF n
  <2>8. \A m \in Events : m # n => StateOf(m)' = StateOf(m) /\ runs'[m] = runs[m]
    BY <1>3 DEF n
  <2>9. /\ states' = [states EXCEPT ![n] = "done"]
        /\ eventRuns' = [eventRuns EXCEPT ![n] = @ + 1]
    BY <2>5, <2>6, <2>7, <2>8 DEF states, eventRuns
  <2>10. states[n] \in {"pending", "done"} /\ eventRuns[n] <= failed
    BY <2>2, <2>3, <2>7 DEF states, eventRuns
  <2>11. Contract!Run(n)
    BY <1>2, <2>9, <2>10, ContractActions
  <2>12. QED BY <2>7, <2>11 DEF ContractStep, Contract!Next
<1>6. QED BY <1>4, <1>5

\* A task's step that is no run of a handler keeps every message.
LEMMA TaskStutters == ASSUME Around, NEW t \in tasks, NEW phase \in Phases, Step(t, phase),
                             UNCHANGED <<sent, runVars, drops, crashes, ready, unacked>>
                      PROVE ContractStep
<1>1. \A m \in Messages : Present(m)' <=> Present(m)
  BY StepPresent DEF Around, Present, Queued, Delivered
<1>2. Fewer /\ Kept
  BY <1>1, EventIsMessage DEF Fewer, Kept
<1>3. QED BY <1>2, Stutters

\* Every step is one the contract allows.
LEMMA StepImplements == DInv /\ DInv' /\ [Next]_vars => ContractStep
<1>1. SUFFICES ASSUME DInv, DInv', [Next]_vars PROVE ContractStep
  OBVIOUS
<1>0. Around /\ TypeOK /\ Placed /\ Tracked /\ OneDelivery /\ Paid
  BY <1>1 DEF DInv, IInv, Around
<1> USE <1>0 DEF faultVars, leftVars, brokerVars
<1>2. ASSUME NEW m \in Messages, Publish(m) PROVE ContractStep
  BY <1>2, Publishes DEF Publish
<1>3. ASSUME NEW i \in Instances, NEW n \in Names, DeclareQueue(i, n) PROVE ContractStep
  BY <1>3, StillThere, Stutters DEF DeclareQueue, Cleared, Exclusive
<1>4. ASSUME NEW i \in Instances, Consume(i) PROVE ContractStep
  BY <1>4, StillThere, Stutters DEF Consume
<1>5. ASSUME NEW i \in Instances, RegisterRaises(i) PROVE ContractStep
  BY <1>5, StillThere, Stutters DEF RegisterRaises
<1>6. ASSUME NEW i \in Instances, NEW n \in Names, Unregister(i, n) PROVE ContractStep
  BY <1>6, StillThere, Stutters DEF Unregister, Cleared, Exclusive
<1>7. ASSUME NEW i \in Instances, NEW n \in Names, UnregisterRaises(i, n) PROVE ContractStep
  BY <1>7, StillThere, Stutters DEF UnregisterRaises
<1>8. ASSUME NEW i \in Instances, NEW q \in Queues, NEW n \in Messages, Deliver(i, q, n)
      PROVE ContractStep
  <2>1. /\ n \in ready[q] /\ ready' = [ready EXCEPT ![q] = @ \ {n}]
        /\ unacked' = unacked \cup {<<i, q, n>>}
        /\ tasks' = tasks \cup {Task(i, q, n, Redelivery(i, q, n), "acking")}
        /\ UNCHANGED <<sent, runVars, drops, crashes>>
    BY <1>8 DEF Deliver
  <2>2. ASSUME NEW m \in Messages PROVE Present(m)' <=> Present(m)
    <3>1. CASE m = n
      <4>1. Present(m)
        BY <2>1, <3>1 DEF Present, Queued
      <4>2. Present(m)'
        <5>1. <<i, q, n>> \in unacked' /\ <<i, q, n>>[3] = n
          BY <2>1
        <5>2. Delivered(m)'
          BY <3>1, <5>1 DEF Delivered
        <5>3. QED BY <5>2 DEF Present
      <4>3. QED BY <4>1, <4>2
    <3>2. CASE m # n
      <4>1. Queued(m)' <=> Queued(m)
        BY <2>1, <3>2 DEF Queued, TypeOK
      <4>2. Delivered(m)' <=> Delivered(m)
        BY <2>1, <3>2 DEF Delivered
      <4>3. (\E t \in tasks : t.msg = m) <=> (\E t \in tasks' : t.msg = m)
        BY <2>1, <3>2 DEF Task
      <4>4. QED BY <4>1, <4>2, <4>3 DEF Present
    <3>3. QED BY <3>1, <3>2
  <2>3. Fewer /\ Kept
    BY <2>2, EventIsMessage DEF Fewer, Kept
  <2>4. QED BY <2>1, <2>3, Stutters
<1>9. ASSUME NEW t \in tasks, Ack(t) PROVE ContractStep
  BY <1>9, TaskStutters DEF Ack, Phases
<1>10. ASSUME NEW d \in ackSent, BrokerAck(d) PROVE ContractStep
  <2>1. /\ unacked' = unacked \ {d}
        /\ UNCHANGED <<ready, tasks, sent, runVars, drops, crashes>>
    BY <1>10 DEF BrokerAck
  <2>2. (\E t \in tasks : t.msg = d[3]) \/ HandledFrom(d[3]) # {}
    BY <1>10 DEF Tracked, AckedTaken, Acknowledged, DeliveryOf
  <2>3. Fewer
    BY <2>1 DEF Fewer, Present, Queued, Delivered
  <2>4. Kept
    BY <2>1, <2>2 DEF Kept, Present, Queued, Delivered
  <2>5. QED BY <2>1, <2>3, <2>4, Stutters
<1>11. ASSUME NEW t \in tasks, RunHandler(t) PROVE ContractStep
  BY <1>11, Runs
<1>12. ASSUME NEW t \in tasks, CallChild(t) PROVE ContractStep
  <2>1. Child[t.msg] \in Messages
    BY <1>12, NamesAssumption DEF CallChild, TypeOK, AllTasks
  <2>2. \A m \in Messages : (\E u \in tasks : u.msg = m) <=> (\E u \in tasks' : u.msg = m)
    BY <1>12, StepPresent DEF CallChild, Phases
  <2>3. QED BY <1>12, <2>1, <2>2, Publishes DEF CallChild
<1>13. ASSUME NEW t \in tasks, ChildDone(t) PROVE ContractStep
  BY <1>13, TaskStutters DEF ChildDone, Phases
<1>14. ASSUME NEW t \in tasks, Finish(t) PROVE ContractStep
  <2>1. /\ tasks' = tasks \ {t} /\ t.phase \in {"running", "called"}
        /\ UNCHANGED <<ready, unacked, sent, runVars, drops, crashes>>
    BY <1>14 DEF Finish, End
  <2>2. HandledFrom(t.msg) # {}
    BY <2>1 DEF Tracked, RunningHandled
  <2>3. Fewer
    BY <2>1 DEF Fewer, Present, Queued, Delivered
  <2>4. Kept
    BY <2>1, <2>2 DEF Kept, Present, Queued, Delivered
  <2>5. QED BY <2>1, <2>3, <2>4, Stutters
<1>15. ASSUME NEW i \in Instances, Drop(i) PROVE ContractStep
  <2>1. \A t \in tasks : [t EXCEPT !.phase = "called"].msg = t.msg
    BY DEF TypeOK, AllTasks
  <2>2. \A u \in tasks' : \E w \in tasks : w.msg = u.msg
    BY <1>15, Survivors DEF Drop
  <2>3. \A t \in tasks : t.phase # "acking" => \E u \in tasks' : u.msg = t.msg
    BY <1>15, <2>1 DEF Drop, SurvivesDrop
  <2>4. \A t \in tasks : t.phase = "acking" => Delivered(t.msg)
    BY DEF Tracked, AckingUnacked, DeliveryOf, Delivered
  <2>5. LoseConnection(i) /\ UNCHANGED <<sent, runVars>>
    BY <1>15 DEF Drop
  <2>6. Fewer
    BY <2>2, <2>5, LosePresent DEF Fewer, Present
  <2>7. Kept
    BY <2>3, <2>4, <2>5, LosePresent DEF Kept, Present
  <2>8. failed' = failed + 1
    BY <1>15, BoundsAssumption DEF Drop, failed, TypeOK
  <2>9. QED BY <2>5, <2>6, <2>7, <2>8, Loses
<1>16. ASSUME NEW i \in Instances, Reconnect(i) PROVE ContractStep
  BY <1>16, StillThere, Stutters DEF Reconnect
<1>17. ASSUME NEW i \in Instances, Crash(i) PROVE ContractStep
  <2>1. LoseConnection(i) /\ UNCHANGED <<sent, runVars>> /\ tasks' \subseteq tasks
    BY <1>17 DEF Crash
  <2>2. Fewer
    BY <2>1, LosePresent DEF Fewer, Present
  <2>3. failed' = failed + 1
    BY <1>17, BoundsAssumption DEF Crash, failed, TypeOK
  <2>4. QED BY <2>1, <2>2, <2>3, Crashes
<1>18. ASSUME NEW i \in Instances, Start(i) PROVE ContractStep
  BY <1>18, StillThere, Stutters DEF Start
<1>19. CASE UNCHANGED vars
  BY <1>19, StillThere, Stutters DEF vars, runVars
<1>20. QED
  BY <1>1, <1>2, <1>3, <1>4, <1>5, <1>6, <1>7, <1>8, <1>9, <1>10, <1>11, <1>12, <1>13, <1>14,
     <1>15, <1>16, <1>17, <1>18, <1>19 DEF Next, InstanceStep, TaskStep
-----------------------------------------------------------------------------
(* Each delivery has a task of its own. *)

Ran == {"running", "calling", "called"}
\* A task whose message waits for, or is with, somebody else belongs to a delivery that a loss
\* took back; one past its start has been counted.
Older == \A t \in tasks :
    /\ t.redelivery <= drops
    /\ Shared(t.msg) /\ (Queued(t.msg) \/ \E d \in unacked : d[3] = t.msg /\ d[1] # t.inst)
         => t.redelivery < drops
    /\ t.phase \in Ran => handled[t.msg][t.queue] > 0

\* Steps that put no message with a task into a queue, and start no handler.
LEMMA OlderKept ==
    ASSUME TypeOK, Older, UNCHANGED <<drops, handled>>, unacked' \subseteq unacked,
           \A t \in tasks : Shared(t.msg) /\ Queued(t.msg)' => Queued(t.msg),
           \A t \in tasks' : \E u \in tasks :
               /\ u.msg = t.msg /\ u.queue = t.queue /\ u.inst = t.inst
               /\ u.redelivery = t.redelivery
               /\ t.phase \in Ran => u.phase \in Ran
    PROVE Older'
<1>1. SUFFICES ASSUME NEW t \in tasks'
               PROVE /\ t.redelivery <= drops
                     /\ /\ Shared(t.msg)
                        /\ Queued(t.msg)' \/ \E d \in unacked' : d[3] = t.msg /\ d[1] # t.inst
                        => t.redelivery < drops
                     /\ t.phase \in Ran => handled[t.msg][t.queue] > 0
  BY DEF Older, Shared
<1>2. PICK u \in tasks : /\ u.msg = t.msg /\ u.queue = t.queue /\ u.inst = t.inst
                         /\ u.redelivery = t.redelivery
                         /\ t.phase \in Ran => u.phase \in Ran
  BY <1>1
<1>3. Queued(t.msg)' /\ Shared(t.msg) => Queued(u.msg)
  BY <1>2
<1>4. QED BY <1>2, <1>3 DEF Older

\* The step of a task that does not start its handler.
LEMMA StepOlder ==
    ASSUME TypeOK, Older, NEW t \in tasks, NEW phase \in Phases, Step(t, phase),
           phase \in Ran => t.phase \in Ran, UNCHANGED <<drops, handled, unacked>>,
           \A u \in tasks : Shared(u.msg) /\ Queued(u.msg)' => Queued(u.msg)
    PROVE Older'
<1> DEFINE v == [t EXCEPT !.phase = phase]
<1>1. /\ v.inst = t.inst /\ v.queue = t.queue /\ v.msg = t.msg
      /\ v.redelivery = t.redelivery /\ v.phase = phase
      /\ tasks' = (tasks \ {t}) \cup {v}
  BY DEF TypeOK, AllTasks, Step
<1> HIDE DEF v
<1>2. \A u \in tasks' : \E w \in tasks :
          /\ w.msg = u.msg /\ w.queue = u.queue /\ w.inst = u.inst
          /\ w.redelivery = u.redelivery
          /\ u.phase \in Ran => w.phase \in Ran
  BY <1>1
<1>3. QED BY <1>2, OlderKept

\* A message that is published has no task.
LEMMA RouteOlder == ASSUME TypeOK, Unsent, NEW n \in Messages, sent[n] = "new", Route(n)
                    PROVE \A t \in tasks : Shared(t.msg) /\ Queued(t.msg)' => Queued(t.msg)
<1>1. SUFFICES ASSUME NEW t \in tasks, Queued(t.msg)' PROVE Queued(t.msg)
  OBVIOUS
<1>2. t.msg # n
  BY DEF Unsent, Present
<1>3. QED BY <1>1, <1>2 DEF Route, Queued

LEMMA OlderPreserved == DInv /\ Older /\ [Next]_vars => Older'
<1>1. SUFFICES ASSUME DInv, Older, [Next]_vars PROVE Older'
  OBVIOUS
<1>0. TypeOK /\ Placed /\ Unsent /\ OneDelivery /\ Older
  BY <1>1 DEF DInv, IInv
<1> USE <1>0 DEF faultVars, leftVars, brokerVars, runVars
<1>2. ASSUME NEW m \in Messages, Publish(m) PROVE Older'
  <2>1. \A t \in tasks : Shared(t.msg) /\ Queued(t.msg)' => Queued(t.msg)
    BY <1>2, RouteOlder DEF Publish
  <2>2. QED BY <1>2, <2>1, OlderKept DEF Publish
<1>3. ASSUME \A q \in Queues : ready'[q] \subseteq ready[q]
      PROVE \A t \in tasks : Shared(t.msg) /\ Queued(t.msg)' => Queued(t.msg)
  BY <1>3 DEF Queued
<1>4. ASSUME UNCHANGED <<drops, handled, unacked, tasks>>, \A q \in Queues : ready'[q] \subseteq ready[q]
      PROVE Older'
  BY <1>3, <1>4, OlderKept
<1>5. ASSUME NEW i \in Instances, InstanceStep(i), ~Drop(i), ~Crash(i) PROVE Older'
  <2>1. ASSUME NEW n \in Names, Unregister(i, n) PROVE Older'
    BY <1>4, <2>1 DEF Unregister, Cleared
  <2>2. ASSUME NEW n \in Names, DeclareQueue(i, n) \/ UnregisterRaises(i, n) PROVE Older'
    BY <1>4, <2>2 DEF DeclareQueue, Cleared, UnregisterRaises
  <2>3. CASE Consume(i) \/ RegisterRaises(i)
    BY <1>4, <2>3 DEF Consume, RegisterRaises
  <2>4. CASE Reconnect(i) \/ Start(i)
    BY <1>4, <2>4 DEF Reconnect, Start
  <2>5. QED BY <1>5, <2>1, <2>2, <2>3, <2>4 DEF InstanceStep
<1>6. ASSUME NEW i \in Instances, NEW q \in Queues, NEW m \in Messages, Deliver(i, q, m) PROVE Older'
  <2>1. /\ m \in ready[q] /\ ready' = [ready EXCEPT ![q] = @ \ {m}]
        /\ unacked' = unacked \cup {<<i, q, m>>} /\ UNCHANGED <<drops, handled>>
    BY <1>6 DEF Deliver
  <2>2. PICK v : /\ tasks' = tasks \cup {v} /\ v.inst = i /\ v.msg = m /\ v.phase = "acking"
                 /\ v.redelivery \in {0, drops}
    <3>1. LET v == Task(i, q, m, Redelivery(i, q, m), "acking")
          IN  /\ tasks' = tasks \cup {v} /\ v.inst = i /\ v.msg = m /\ v.phase = "acking"
              /\ v.redelivery \in {0, drops}
      BY <1>6 DEF Deliver, Task, Redelivery
    <3>2. QED BY <3>1
  <2>3. drops \in Nat
    BY BoundsAssumption DEF TypeOK
  <2>4. \A k \in Messages : Queued(k)' => Queued(k)
    BY <2>1 DEF Queued, TypeOK
  <2>5. ASSUME NEW t \in tasks
        PROVE /\ t.redelivery <= drops
              /\ /\ Shared(t.msg)
                 /\ Queued(t.msg)' \/ \E d \in unacked' : d[3] = t.msg /\ d[1] # t.inst
                 => t.redelivery < drops
              /\ t.phase \in Ran => handled[t.msg][t.queue] > 0
    <3>1. t.msg = m => Queued(t.msg)
      BY <2>1 DEF Queued
    <3>2. t.msg \in Messages
      BY DEF TypeOK, AllTasks
    <3>3. QED BY <2>1, <2>4, <3>1, <3>2 DEF Older
  <2>6. ASSUME Shared(m) PROVE ~Queued(m)' /\ \A d \in unacked' : d[3] = m => d[1] = i
    <3>1. ~Delivered(m)
      BY <2>1, <2>6 DEF OneDelivery, Queued
    <3>2. ASSUME NEW p \in Queues, m \in ready'[p] PROVE FALSE
      <4>1. m \in ready[p] /\ p # q
        BY <2>1, <3>2 DEF TypeOK
      <4>2. p = q
        BY <2>1, <2>6, <4>1, SharedQueue
      <4>3. QED BY <4>1, <4>2
    <3>3. QED BY <2>1, <3>1, <3>2 DEF Queued, Delivered
  <2>7. /\ v.redelivery <= drops /\ v.phase \notin Ran
        /\ Shared(v.msg) => /\ ~Queued(v.msg)'
                            /\ \A d \in unacked' : d[3] = v.msg => d[1] = v.inst
    BY <2>2, <2>3, <2>6 DEF Ran
  <2>8. QED BY <2>1, <2>2, <2>5, <2>7 DEF Older, Shared
<1>7. ASSUME NEW t \in tasks, Ack(t) PROVE Older'
  BY <1>3, <1>7, StepOlder DEF Ack, Phases, Ran
<1>8. ASSUME NEW d \in ackSent, BrokerAck(d) PROVE Older'
  BY <1>3, <1>8, OlderKept DEF BrokerAck
<1>9. ASSUME NEW t \in tasks, RunHandler(t) PROVE Older'
  <2> DEFINE v == [t EXCEPT !.phase = "running"]
  <2>1. /\ v.inst = t.inst /\ v.queue = t.queue /\ v.msg = t.msg
        /\ v.redelivery = t.redelivery
        /\ tasks' = (tasks \ {t}) \cup {v} /\ UNCHANGED <<ready, unacked, drops>>
        /\ handled' = [handled EXCEPT ![t.msg][t.queue] = @ + 1]
    BY <1>9 DEF RunHandler, Step, TypeOK, AllTasks
  <2> HIDE DEF v
  <2>2. \A u \in tasks : u.msg \in Messages /\ u.queue \in Queues
    BY DEF TypeOK, AllTasks
  <2>3. handled'[t.msg][t.queue] > 0
    BY <2>1, <2>2 DEF TypeOK
  <2>4. \A u \in tasks : handled[u.msg][u.queue] > 0 => handled'[u.msg][u.queue] > 0
    BY <2>1, <2>2 DEF TypeOK
  <2>5. \A m : Queued(m)' <=> Queued(m)
    BY <2>1 DEF Queued
  <2>6. QED BY <2>1, <2>3, <2>4, <2>5 DEF Older, Shared
<1>10. ASSUME NEW t \in tasks, CallChild(t) PROVE Older'
  <2>1. Child[t.msg] \in Messages
    BY <1>10, NamesAssumption DEF CallChild, TypeOK, AllTasks
  <2>2. \A u \in tasks : Shared(u.msg) /\ Queued(u.msg)' => Queued(u.msg)
    BY <1>10, <2>1, RouteOlder DEF CallChild
  <2>3. QED BY <1>10, <2>2, StepOlder DEF CallChild, Phases, Ran
<1>11. ASSUME NEW t \in tasks, ChildDone(t) PROVE Older'
  BY <1>3, <1>11, StepOlder DEF ChildDone, Phases, Ran
<1>12. ASSUME NEW t \in tasks, Finish(t) PROVE Older'
  BY <1>3, <1>12, OlderKept DEF Finish, End
<1>13. ASSUME NEW i \in Instances, Drop(i) PROVE Older'
  <2>1. /\ drops' = drops + 1 /\ drops \in Nat /\ handled' = handled
        /\ \A t \in tasks : t.redelivery \in Nat
    BY <1>13, BoundsAssumption DEF Drop, TypeOK, AllTasks
  <2>2. \A t \in tasks' : \E u \in tasks :
            /\ u.msg = t.msg /\ u.queue = t.queue /\ u.inst = t.inst
            /\ u.redelivery = t.redelivery
            /\ t.phase \in Ran => u.phase \in Ran
    BY <1>13, Survivors DEF Drop, Ran
  <2>3. QED BY <2>1, <2>2 DEF Older
<1>14. ASSUME NEW i \in Instances, Crash(i) PROVE Older'
  <2>1. /\ LoseConnection(i) /\ UNCHANGED <<drops, handled>>
        /\ tasks' = {t \in tasks : t.inst # i}
    BY <1>14 DEF Crash
  <2>2. unacked' \subseteq unacked
    BY <2>1 DEF LoseConnection
  <2>3. ASSUME NEW t \in tasks', Queued(t.msg)'
        PROVE Queued(t.msg) \/ \E d \in unacked : d[3] = t.msg /\ d[1] # t.inst
    <3>1. PICK q \in Queues : t.msg \in ready'[q]
      BY <2>3 DEF Queued
    <3>2. t.msg \in ready[q] \/ <<i, q, t.msg>> \in unacked
      BY <2>1, <3>1 DEF LoseConnection, Requeued, DeliveriesOf
    <3>3. CASE <<i, q, t.msg>> \in unacked
      <4>1. <<i, q, t.msg>>[3] = t.msg /\ <<i, q, t.msg>>[1] # t.inst
        BY <2>1
      <4>2. QED BY <3>3, <4>1
    <3>4. QED BY <3>2, <3>3 DEF Queued
  <2>4. \A t \in tasks' : t \in tasks
    BY <2>1
  <2>5. QED BY <2>1, <2>2, <2>3, <2>4 DEF Older, Shared
<1>15. CASE UNCHANGED vars
  BY <1>4, <1>15 DEF vars
<1>16. QED
  BY <1>1, <1>2, <1>5, <1>6, <1>7, <1>8, <1>9, <1>10, <1>11, <1>12, <1>13, <1>14, <1>15
     DEF Next, TaskStep
-----------------------------------------------------------------------------
(* Theorems. *)

LEMMA DInvInit == Init => DInv
<1>1. SUFFICES ASSUME Init PROVE Unsent /\ OneDelivery /\ Paid
  BY InitEstablishes DEF DInv
<1>2. \A m \in Messages : /\ ~Queued(m) /\ ~Delivered(m) /\ ~Present(m) /\ ~Waiting(m)
                          /\ Acked(m) = {} /\ HandledFrom(m) = {} /\ runs[m] = 0
  BY <1>1 DEF Init, Queued, Delivered, Present, Waiting, Acked, HandledFrom
<1>3. Unsent /\ OneDelivery
  BY <1>1, <1>2 DEF Init, Unsent, OneDelivery
<1>4. Paid
  <2>1. \A m \in Messages : IsFiniteSet(Acked(m)) /\ Due(m) = 0
    BY <1>2, FS_EmptySet DEF Due
  <2>2. failed = 0
    BY <1>1 DEF Init, failed
  <2>3. QED BY <1>2, <2>1, <2>2 DEF Paid
<1>5. QED BY <1>3, <1>4

LEMMA DInvariance == Spec => []DInv
BY DInvInit, DInvPreserved, PTL DEF Spec

\* Whatever is lost, redelivered, unregistered or acknowledged late, a request or an event is
\* handled once, and once more for every connection or process lost at most.
THEOREM RunsArePaid == Spec => [](\A m \in Messages : Shared(m) => runs[m] <= 1 + drops + crashes)
<1>1. DInv => \A m \in Messages : Shared(m) => runs[m] <= 1 + drops + crashes
  <2>1. SUFFICES ASSUME DInv, NEW m \in Messages, Shared(m) PROVE runs[m] <= 1 + drops + crashes
    OBVIOUS
  <2>2. IsFiniteSet(Acked(m)) /\ runs[m] + Due(m) <= 1 + failed
    BY <2>1 DEF DInv, Paid
  <2>3. Due(m) \in Nat
    <3>1. Cardinality(Acked(m)) \in Nat
      BY <2>2, FS_CardinalityType
    <3>2. QED BY <3>1 DEF Due
  <2>4. runs[m] \in Nat /\ drops \in Nat /\ crashes \in Nat
    BY <2>1, BoundsAssumption DEF DInv, IInv, TypeOK
  <2>5. QED BY <2>2, <2>3, <2>4 DEF failed
<1>2. QED BY <1>1, DInvariance, PTL

\* Queues, consumers, acknowledgements and handlers keep the contract of publish_event.
THEOREM EventRefinement == Spec => ImplementsEvents
<1>1. Init => Contract!Init
  BY DEF Init, Contract!Init, Events
<1>2. DInv /\ DInv' /\ [Next]_vars => [Contract!Next]_(Contract!vars)
  BY StepImplements DEF ContractStep
<1>3. QED BY <1>1, <1>2, DInvariance, PTL DEF Spec, ImplementsEvents, Contract!Spec

\* A delivery never joins the task of an earlier one: a redelivered message runs again, and is
\* counted again.
Apart(i, q, m) == \A t \in tasks :
    t.inst = i /\ t.queue = q /\ t.msg = m => t.redelivery # Redelivery(i, q, m)
DeliveredApart == [][\A i \in Instances, q \in Queues, m \in Messages :
                         Deliver(i, q, m) => Apart(i, q, m)]_vars

THEOREM DeliveriesApart == Spec => DeliveredApart
<1>1. Spec => []Older
  <2>1. Init => Older
    BY DEF Init, Older
  <2>2. QED BY <2>1, OlderPreserved, DInvariance, PTL DEF Spec
<1>2. ASSUME DInv, Older, NEW i \in Instances, NEW q \in Queues, NEW m \in Messages,
             Deliver(i, q, m), NEW t \in tasks, t.inst = i, t.queue = q, t.msg = m
      PROVE t.redelivery # Redelivery(i, q, m)
  <2>1. /\ TypeOK /\ Placed /\ Single /\ m \in ready[q] /\ i \in consumers[q]
        /\ Redelivery(i, q, m) = drops /\ drops \in Nat /\ t.redelivery \in Nat /\ t.phase \in Phases
    BY <1>2, BoundsAssumption DEF DInv, IInv, Deliver, Redelivery, TypeOK, AllTasks
  <2>2. CASE Shared(m)
    <3>1. Queued(m)
      BY <2>1 DEF Queued
    <3>2. t.redelivery < drops
      BY <1>2, <2>2, <3>1 DEF Older
    <3>3. QED BY <2>1, <3>2
  <2>3. CASE ~Shared(m)
    <3>1. IsExclusive(q)
      BY <2>1, <2>3, QueuesAreNamed DEF Placed, InOwnQueues, Shared, Kind
    <3>2. Taken(m, q) = {} /\ handled[m][q] = 0
      BY <2>1, <3>1 DEF Single, OneCopy
    <3>3. t.phase \in Ran
      BY <1>2, <2>1, <3>2 DEF Taken, Phases, Ran
    <3>4. QED BY <1>2, <3>2, <3>3 DEF Older
  <2>4. QED BY <2>2, <2>3
<1>3. DInv /\ Older => (\A i \in Instances, q \in Queues, m \in Messages :
                           Deliver(i, q, m) => Apart(i, q, m))
  BY <1>2 DEF Apart
<1>4. QED BY <1>1, <1>3, DInvariance, PTL DEF DeliveredApart
=============================================================================
