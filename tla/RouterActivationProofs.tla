----------------------- MODULE RouterActivationProofs -----------------------
(***************************************************************************)
(* Theorems about RouterActivation, for any transports, names and tasks.   *)
(* The inductive invariant says, of the one operation under way, which     *)
(* names its loops have still to visit, and so how far the subscriptions   *)
(* have got from one quiescent state to the next.                          *)
(***************************************************************************)
EXTENDS RouterActivation, TLAPS

\* What the loops of f over the names of source still have to visit.
Remaining(f, source) == f.todo \cup {n \in source : KindOf[n] > f.kind}
InLoop(f, source) == \A n \in f.todo : n \in source /\ KindOf[n] = f.kind

\* How far a suspended operation has got.
Subscribing(f) ==
    /\ server # NoServer /\ activated = {} /\ f.names = registry
    /\ f.call = <<server, f.call[2]>> /\ InLoop(f, registry) /\ f.call[2] \notin Remaining(f, registry)
    /\ f.call[2] \in registry
    /\ subs = {server} \X (registry \ (Remaining(f, registry) \cup {f.call[2]}))
Unsubscribing(f) ==
    /\ server # NoServer /\ activated = registry
    /\ f.call = <<server, f.call[2]>> /\ InLoop(f, registry) /\ f.call[2] \notin Remaining(f, registry)
    /\ f.call[2] \in registry
    /\ subs = {server} \X (Remaining(f, registry) \cup {f.call[2]})
Quiet == /\ activated = IF server = NoServer THEN {} ELSE registry
         /\ subs = IF server = NoServer THEN {} ELSE {server} \X registry

\* Without overlap and failure there is one operation at most.
OneOperation == raises = 0 /\ ~overlapped =>
    /\ \A t, u \in Tasks : frame[t] # Idle /\ frame[u] # Idle => t = u
    /\ \A t \in Tasks : /\ frame[t].phase = "subscribing" => Subscribing(frame[t])
                        /\ frame[t].phase = "unsubscribing" => Unsubscribing(frame[t])
    /\ (\A t \in Tasks : frame[t] = Idle) => Quiet
Suspended(f) == f = Idle \/ (f.phase # "idle" /\ f.call \in Servers \X Names)
FramesSuspended == \A t \in Tasks : Suspended(frame[t])

IInv == TypeOK /\ FramesSuspended /\ OneOperation
-----------------------------------------------------------------------------
(* The loops. *)

\* While names remain NextNames finds some, all of the same kind and before the others.
LEMMA NextNamesOrdered ==
    ASSUME NEW f, NEW source \in SUBSET Names, f.kind \in 0..3, InLoop(f, source)
    PROVE  /\ NextNames(f, source) \subseteq Remaining(f, source)
           /\ NextNames(f, source) = {} => Remaining(f, source) = {}
           /\ \A n \in NextNames(f, source) :
                /\ \A m \in NextNames(f, source) : KindOf[m] = KindOf[n]
                /\ Remaining(f, source)
                     = NextNames(f, source) \cup {m \in source : KindOf[m] > KindOf[n]}
<1> DEFINE later == {n \in source : KindOf[n] > f.kind}
           first == {n \in later : \A m \in later : KindOf[n] <= KindOf[m]}
<1>1. \A n \in source : KindOf[n] \in 1..3
  BY KindAssumption
<1>2. CASE f.todo # {}
  <2>1. NextNames(f, source) = f.todo
    BY <1>2 DEF NextNames
  <2>2. QED BY <1>1, <1>2, <2>1 DEF InLoop, Remaining
<1>3. CASE f.todo = {}
  <2>1. NextNames(f, source) = first /\ Remaining(f, source) = later
    BY <1>3 DEF NextNames, Remaining
  <2>2. first = {} => later = {}
    <3>1. SUFFICES ASSUME NEW n \in later PROVE first # {}
      OBVIOUS
    <3>2. CASE \E m \in later : KindOf[m] = 1
      BY <1>1, <3>2
    <3>3. CASE ~(\E m \in later : KindOf[m] = 1) /\ \E m \in later : KindOf[m] = 2
      BY <1>1, <3>3
    <3>4. CASE \A m \in later : KindOf[m] = 3
      BY <3>1, <3>4
    <3>5. QED BY <1>1, <3>2, <3>3, <3>4
  <2>3. ASSUME NEW n \in first
        PROVE  /\ \A m \in first : KindOf[m] = KindOf[n]
               /\ later = first \cup {m \in source : KindOf[m] > KindOf[n]}
    BY <1>1, <2>3
  <2>4. QED BY <2>1, <2>2, <2>3
<1>4. QED BY <1>2, <1>3

\* One name less remains after the next call.
LEMMA CallingAdvances ==
    ASSUME NEW f \in Frames, NEW source \in SUBSET Names, InLoop(f, source), NEW s,
           NEW n \in NextNames(f, source)
    PROVE  LET g == Calling(f, NextNames(f, source), n, s)
           IN  /\ g.phase = f.phase /\ g.names = f.names /\ g.target = f.target
               /\ g.call = <<s, n>>
               /\ InLoop(g, source)
               /\ Remaining(f, source) = Remaining(g, source) \cup {n}
               /\ n \notin Remaining(g, source) /\ n \in source
<1> DEFINE names == NextNames(f, source)
           g == Calling(f, names, n, s)
<1>1. f.kind \in 0..3
  BY DEF Frames
<1>2. /\ names \subseteq Remaining(f, source)
      /\ \A m \in names : KindOf[m] = KindOf[n]
      /\ Remaining(f, source) = names \cup {m \in source : KindOf[m] > KindOf[n]}
  BY <1>1, NextNamesOrdered
<1>3. /\ g.phase = f.phase /\ g.names = f.names /\ g.target = f.target
      /\ g.call = <<s, n>> /\ g.kind = KindOf[n] /\ g.todo = names \ {n}
  BY DEF Calling, Frames
<1>4. Remaining(f, source) \subseteq source
  BY DEF Remaining, InLoop
<1>5. KindOf[n] \in 1..3
  BY <1>2, <1>4, KindAssumption
<1>6. QED BY <1>2, <1>3, <1>4, <1>5 DEF InLoop, Remaining
-----------------------------------------------------------------------------
(* Types. *)

LEMMA NextNamesTyped ==
    ASSUME NEW f \in Frames, NEW source \in SUBSET Names
    PROVE  NextNames(f, source) \subseteq Names
BY DEF NextNames, Frames

LEMMA CallingTyped ==
    ASSUME NEW f \in Frames, NEW names \in SUBSET Names, NEW n \in names, NEW s \in Servers
    PROVE  /\ Calling(f, names, n, s) \in Frames
           /\ f.phase # "idle" => Suspended(Calling(f, names, n, s))
<1>1. KindOf[n] \in 0..3
  BY KindAssumption
<1>2. names \ {n} \in SUBSET Names /\ <<s, n>> \in (Servers \X Names) \cup {Nothing}
  OBVIOUS
<1>3. Calling(f, names, n, s) \in Frames
  BY <1>1, <1>2 DEF Calling, Frames
<1>4. Calling(f, names, n, s).phase = f.phase /\ Calling(f, names, n, s).call = <<s, n>>
  BY DEF Calling, Frames
<1>5. QED BY <1>3, <1>4 DEF Suspended

LEMMA IdleTyped == Idle \in Frames /\ Idle.phase = "idle"
BY DEF Idle, Frames

\* What an operation sets, wherever it starts or goes on from.
Sets(t) == /\ server' \in Servers \cup {NoServer} /\ activated' \subseteq Names
           /\ returned' \in ({"activate", "deactivate"} \X (Servers \cup {NoServer})) \cup {Nothing}
           /\ \E f \in Frames : Suspend(t, f) /\ Suspended(f)

LEMMA ReturnSets ==
    ASSUME NEW t, NEW what, Return(t, what),
           what \in ({"activate", "deactivate"} \X (Servers \cup {NoServer})) \cup {Nothing},
           server' \in Servers \cup {NoServer}, activated' \subseteq Names
    PROVE  Sets(t)
BY IdleTyped DEF Return, Sets, Suspended

LEMMA AssignSets ==
    ASSUME TypeOK, NEW t, NEW s \in Servers \cup {NoServer}, NEW lists \in SUBSET Names,
           Assign(t, s, lists)
    PROVE  Sets(t)
<1> DEFINE f == [Idle EXCEPT !.phase = "subscribing", !.names = registry]
           first == NextNames(f, registry)
<1>1. f \in Frames /\ f.phase = "subscribing"
  <2>1. Idle \in Frames /\ registry \in SUBSET Names
    BY IdleTyped DEF TypeOK
  <2>2. QED BY <2>1 DEF Frames
<1>2. CASE s = NoServer \/ first = {}
  BY <1>2, ReturnSets DEF Assign
<1>3. CASE s # NoServer /\ first # {}
  <2>1. PICK n \in first : Suspend(t, Calling(f, first, n, s))
    BY <1>3 DEF Assign
  <2>2. first \subseteq Names
    BY <1>1, NextNamesTyped DEF TypeOK
  <2>3. f.phase # "idle" /\ s \in Servers
    BY <1>1, <1>3
  <2>4. Calling(f, first, n, s) \in Frames /\ Suspended(Calling(f, first, n, s))
    BY <1>1, <2>2, <2>3, CallingTyped
  <2>5. server' = s /\ activated' = lists /\ returned' = Nothing
    BY <1>3 DEF Assign
  <2>6. QED BY <2>1, <2>4, <2>5 DEF Sets
<1>4. QED BY <1>2, <1>3

LEMMA ContinueSets ==
    ASSUME TypeOK, NEW t, NEW f \in Frames, f.phase # "idle", Continue(t, f)
    PROVE  Sets(t)
<1> DEFINE source == IF f.phase = "subscribing" THEN f.names ELSE activated
           names == NextNames(f, source)
<1>1. source \in SUBSET Names /\ names \subseteq Names
  BY NextNamesTyped DEF TypeOK, Frames
<1>2. CASE names = {} /\ f.phase = "subscribing"
  BY <1>1, <1>2, ReturnSets DEF Continue, EndActivate, TypeOK
<1>3. CASE names = {} /\ f.phase # "subscribing"
  <2>1. EndDeactivate(t, f.target)
    BY <1>3 DEF Continue
  <2>2. CASE f.target = Nothing
    BY <2>1, <2>2, ReturnSets DEF EndDeactivate
  <2>3. CASE f.target # Nothing
    BY <2>1, <2>3, AssignSets DEF EndDeactivate, Frames
  <2>4. QED BY <2>2, <2>3
<1>4. CASE names # {} /\ server = NoServer
  BY <1>4, ReturnSets DEF Continue, TypeOK
<1>5. CASE names # {} /\ server # NoServer
  <2>1. PICK n \in names : Suspend(t, Calling(f, names, n, server))
    BY <1>5 DEF Continue
  <2>2. Calling(f, names, n, server) \in Frames /\ Suspended(Calling(f, names, n, server))
    BY <1>1, <1>5, CallingTyped DEF TypeOK
  <2>3. UNCHANGED <<server, activated>> /\ returned' = Nothing
    BY <1>5 DEF Continue
  <2>4. QED BY <2>1, <2>2, <2>3 DEF Sets, TypeOK
<1>6. QED BY <1>2, <1>3, <1>4, <1>5

LEMMA UnsubscribeSets ==
    ASSUME TypeOK, NEW t, NEW target \in Servers \cup {NoServer, Nothing}, Unsubscribe(t, target)
    PROVE  Sets(t)
<1> DEFINE f == [Idle EXCEPT !.phase = "unsubscribing", !.target = target]
<1>1. f \in Frames /\ f.phase = "unsubscribing"
  BY IdleTyped DEF Frames
<1>2. Continue(t, f)
  BY DEF Unsubscribe
<1>3. QED BY <1>1, <1>2, ContinueSets

LEMMA TypePreserved == TypeOK /\ FramesSuspended /\ [Next]_vars => TypeOK' /\ FramesSuspended'
<1> SUFFICES ASSUME TypeOK, FramesSuspended, [Next]_vars PROVE TypeOK' /\ FramesSuspended'
  OBVIOUS
<1>1. ASSUME NEW t \in Tasks, Sets(t), registry' \subseteq Names, subs' \subseteq Servers \X Names,
             raises' \in 0..MaxRaises, overlapped' \in BOOLEAN
      PROVE  TypeOK' /\ FramesSuspended'
  <2>1. PICK f \in Frames : frame' = [frame EXCEPT ![t] = f] /\ Suspended(f)
    BY <1>1 DEF Sets, Suspend
  <2>2. frame' \in [Tasks -> Frames] /\ FramesSuspended'
    BY <2>1 DEF TypeOK, FramesSuspended
  <2>3. QED BY <1>1, <2>2 DEF Sets, TypeOK
<1>2. ASSUME NEW t \in Tasks, NEW s \in Servers \cup {NoServer}, Activate(t, s)
      PROVE  TypeOK' /\ FramesSuspended'
  <2>1. /\ overlapped' \in BOOLEAN /\ registry' \subseteq Names
        /\ subs' \subseteq Servers \X Names /\ raises' \in 0..MaxRaises
    BY <1>2 DEF Activate, Begin, TypeOK
  <2>2. CASE server = s
    BY <1>2, <2>2, ReturnSets, <2>1, <1>1 DEF Activate, TypeOK
  <2>3. CASE server # s /\ server # NoServer
    BY <1>2, <2>3, UnsubscribeSets, <2>1, <1>1 DEF Activate
  <2>4. CASE server # s /\ server = NoServer
    <3>1. Assign(t, s, activated) /\ activated \in SUBSET Names
      BY <1>2, <2>4 DEF Activate, TypeOK
    <3>2. QED BY <3>1, AssignSets, <2>1, <1>1
  <2>5. QED BY <2>2, <2>3, <2>4
<1>3. ASSUME NEW t \in Tasks, Deactivate(t) PROVE TypeOK' /\ FramesSuspended'
  <2>1. /\ overlapped' \in BOOLEAN /\ registry' \subseteq Names
        /\ subs' \subseteq Servers \X Names /\ raises' \in 0..MaxRaises
    BY <1>3 DEF Deactivate, Begin, TypeOK
  <2>2. CASE server = NoServer
    BY <1>3, <2>2, ReturnSets, <2>1, <1>1 DEF Deactivate, TypeOK
  <2>3. CASE server # NoServer
    BY <1>3, <2>3, UnsubscribeSets, <2>1, <1>1 DEF Deactivate
  <2>4. QED BY <2>2, <2>3
<1>4. ASSUME NEW t \in Tasks, CallReturns(t) PROVE TypeOK' /\ FramesSuspended'
  <2>1. frame[t] \in Frames /\ frame[t] # Idle /\ Continue(t, frame[t])
    BY <1>4 DEF CallReturns, TypeOK
  <2>2. frame[t].phase # "idle" /\ frame[t].call \in Servers \X Names
    BY <2>1 DEF FramesSuspended, Suspended
  <2>3. subs' \subseteq Servers \X Names
    BY <1>4, <2>2 DEF CallReturns, TypeOK
  <2>4. Sets(t)
    BY <2>1, <2>2, ContinueSets
  <2>5. QED BY <1>1, <1>4, <2>3, <2>4 DEF CallReturns, TypeOK
<1>5. ASSUME NEW t \in Tasks, CallRaises(t) PROVE TypeOK' /\ FramesSuspended'
  <2>1. raises' \in 0..MaxRaises
    BY <1>5, RaisesAssumption DEF CallRaises, TypeOK
  <2>2. Sets(t)
    BY <1>5, ReturnSets DEF CallRaises, TypeOK
  <2>3. QED BY <1>1, <1>5, <2>1, <2>2 DEF CallRaises, TypeOK
<1>6. ASSUME NEW n \in Names, Register(n) PROVE TypeOK' /\ FramesSuspended'
  BY <1>6 DEF Register, TypeOK, FramesSuspended
<1>7. CASE UNCHANGED vars
  BY <1>7 DEF vars, TypeOK, FramesSuspended
<1>8. QED BY <1>2, <1>3, <1>4, <1>5, <1>6, <1>7 DEF Next
-----------------------------------------------------------------------------
(* One operation. *)

\* Where a step that sets the frame to g has got to.
Reached(g) == \/ g = Idle /\ Quiet'
              \/ g.phase = "subscribing" /\ Subscribing(g)'
              \/ g.phase = "unsubscribing" /\ Unsubscribing(g)'

\* With nothing subscribed, an activation begins.
LEMMA AssignReaches ==
    ASSUME TypeOK, NEW t, NEW s \in Servers \cup {NoServer}, Assign(t, s, {}),
           UNCHANGED registry, subs' = {}
    PROVE  \E g \in Frames : Suspend(t, g) /\ Reached(g)
<1> DEFINE f == [Idle EXCEPT !.phase = "subscribing", !.names = registry]
           first == NextNames(f, registry)
<1>1. f \in Frames /\ f.phase = "subscribing" /\ f.names = registry
  <2>1. Idle \in Frames /\ registry \in SUBSET Names
    BY IdleTyped DEF TypeOK
  <2>2. QED BY <2>1 DEF Frames
<1>2. f.kind = 0 /\ f.todo = {}
  BY DEF Idle
<1> HIDE DEF f
<1>3. InLoop(f, registry) /\ Remaining(f, registry) = registry
  <2>1. \A n \in registry : KindOf[n] \in 1..3
    BY KindAssumption DEF TypeOK
  <2>2. \A n \in registry : KindOf[n] > 0
    BY <2>1
  <2>3. {n \in registry : KindOf[n] > f.kind} = registry
    BY <1>2, <2>2
  <2>4. QED BY <1>2, <2>3 DEF InLoop, Remaining
<1> USE DEF f
<1>4. CASE s = NoServer
  <2>1. Suspend(t, Idle) /\ server' = NoServer /\ activated' = {}
    BY <1>4 DEF Assign, Return
  <2>2. QED BY <2>1, IdleTyped DEF Reached, Quiet
<1>5. CASE s # NoServer /\ first = {}
  <2>1. Suspend(t, Idle) /\ server' = s /\ activated' = {}
    BY <1>5 DEF Assign, Return
  <2>2. registry = {}
    BY <1>1, <1>3, <1>5, NextNamesOrdered DEF TypeOK, Frames
  <2>3. QED BY <1>5, <2>1, <2>2, IdleTyped DEF Reached, Quiet
<1>6. CASE s # NoServer /\ first # {}
  <2>1. PICK n \in first : Suspend(t, Calling(f, first, n, s))
    BY <1>6 DEF Assign
  <2>2. server' = s /\ activated' = {}
    BY <1>6 DEF Assign
  <2>3. PICK g \in Frames : g = Calling(f, first, n, s)
    BY <1>1, <1>6, CallingTyped, NextNamesTyped DEF TypeOK
  <2> HIDE DEF f
  <2>4. /\ g.phase = "subscribing" /\ g.names = registry /\ g.call = <<s, n>>
        /\ InLoop(g, registry) /\ registry = Remaining(g, registry) \cup {n}
        /\ n \notin Remaining(g, registry) /\ n \in registry
    BY <1>1, <1>3, <2>3, CallingAdvances DEF TypeOK
  <2>5. Subscribing(g)'
    BY <1>6, <2>2, <2>4 DEF Subscribing, InLoop, Remaining
  <2>6. QED BY <2>1, <2>3, <2>4, <2>5 DEF Reached
<1>7. QED BY <1>4, <1>5, <1>6

\* The loop of an activation goes on after a subscription.
LEMMA SubscribingReaches ==
    ASSUME TypeOK, NEW t, NEW f \in Frames, f.phase = "subscribing", Continue(t, f),
           server # NoServer, activated = {}, f.names = registry, InLoop(f, registry),
           UNCHANGED registry, subs' = {server} \X (registry \ Remaining(f, registry))
    PROVE  \E g \in Frames : Suspend(t, g) /\ Reached(g)
<1> DEFINE names == NextNames(f, registry)
<1>1. CASE names = {}
  <2>1. Remaining(f, registry) = {}
    BY <1>1, NextNamesOrdered DEF TypeOK, Frames
  <2>2. Suspend(t, Idle) /\ server' = server /\ activated' = registry
    BY <1>1 DEF Continue, EndActivate, Return
  <2>3. QED BY <2>1, <2>2, IdleTyped DEF Reached, Quiet
<1>2. CASE names # {}
  <2>1. PICK n \in names : Suspend(t, Calling(f, names, n, server))
    BY <1>2 DEF Continue
  <2>2. server' = server /\ activated' = {}
    BY <1>2 DEF Continue
  <2>3. PICK g \in Frames : g = Calling(f, names, n, server)
    BY <1>2, CallingTyped, NextNamesTyped DEF TypeOK
  <2>4. /\ g.phase = "subscribing" /\ g.names = registry /\ g.call = <<server, n>>
        /\ InLoop(g, registry) /\ Remaining(f, registry) = Remaining(g, registry) \cup {n}
        /\ n \notin Remaining(g, registry) /\ n \in registry
    BY <2>3, CallingAdvances DEF TypeOK
  <2>5. Subscribing(g)'
    BY <2>2, <2>4 DEF Subscribing, InLoop, Remaining
  <2>6. QED BY <2>1, <2>3, <2>4, <2>5 DEF Reached
<1>3. QED BY <1>1, <1>2

\* The loop of a deactivation begins, or goes on, and may lead to another activation.
LEMMA UnsubscribingReaches ==
    ASSUME TypeOK, NEW t, NEW f \in Frames, f.phase = "unsubscribing", Continue(t, f),
           server # NoServer, activated = registry, InLoop(f, registry),
           UNCHANGED registry, subs' = {server} \X Remaining(f, registry)
    PROVE  \E g \in Frames : Suspend(t, g) /\ Reached(g)
<1> DEFINE names == NextNames(f, registry)
<1>1. CASE names = {}
  <2>1. subs' = {}
    BY <1>1, NextNamesOrdered DEF TypeOK, Frames
  <2>2. EndDeactivate(t, f.target)
    BY <1>1 DEF Continue
  <2>3. CASE f.target = Nothing
    <3>1. Suspend(t, Idle) /\ server' = NoServer /\ activated' = {}
      BY <2>2, <2>3 DEF EndDeactivate, Return
    <3>2. QED BY <2>1, <3>1, IdleTyped DEF Reached, Quiet
  <2>4. CASE f.target # Nothing
    BY <2>1, <2>2, <2>4, AssignReaches DEF EndDeactivate, Frames
  <2>5. QED BY <2>3, <2>4
<1>2. CASE names # {}
  <2>1. PICK n \in names : Suspend(t, Calling(f, names, n, server))
    BY <1>2 DEF Continue
  <2>2. server' = server /\ activated' = registry
    BY <1>2 DEF Continue
  <2>3. PICK g \in Frames : g = Calling(f, names, n, server)
    BY <1>2, CallingTyped, NextNamesTyped DEF TypeOK
  <2>4. /\ g.phase = "unsubscribing" /\ g.call = <<server, n>>
        /\ InLoop(g, registry) /\ Remaining(f, registry) = Remaining(g, registry) \cup {n}
        /\ n \notin Remaining(g, registry) /\ n \in registry
    BY <2>3, CallingAdvances DEF TypeOK
  <2>5. Unsubscribing(g)'
    BY <2>2, <2>4 DEF Unsubscribing, InLoop, Remaining
  <2>6. QED BY <2>1, <2>3, <2>4, <2>5 DEF Reached
<1>3. QED BY <1>1, <1>2

LEMMA UnsubscribeReaches ==
    ASSUME TypeOK, NEW t, NEW target \in Servers \cup {NoServer, Nothing}, Unsubscribe(t, target),
           server # NoServer, Quiet, UNCHANGED <<registry, subs>>
    PROVE  \E g \in Frames : Suspend(t, g) /\ Reached(g)
<1>1. PICK f \in Frames : f = [Idle EXCEPT !.phase = "unsubscribing", !.target = target]
  BY IdleTyped DEF Frames
<1>2. f.phase = "unsubscribing" /\ f.kind = 0 /\ f.todo = {}
  BY <1>1 DEF Idle
<1>3. Continue(t, f)
  BY <1>1 DEF Unsubscribe
<1>4. \A n \in registry : KindOf[n] \in 1..3
  BY KindAssumption DEF TypeOK
<1>5. InLoop(f, registry) /\ Remaining(f, registry) = registry
  BY <1>2, <1>4 DEF InLoop, Remaining
<1>6. subs' = {server} \X Remaining(f, registry) /\ activated = registry
  BY <1>5 DEF Quiet
<1>7. QED BY <1>2, <1>3, <1>5, <1>6, UnsubscribingReaches

\* What the single operation has reached is the state of the router.
LEMMA ReachedKeeps ==
    ASSUME TypeOK, NEW t \in Tasks, \A u \in Tasks \ {t} : frame[u] = Idle,
           NEW g \in Frames, Suspend(t, g), Reached(g)
    PROVE  OneOperation'
<1>1. frame'[t] = g /\ \A u \in Tasks \ {t} : frame'[u] = Idle
  BY DEF Suspend, TypeOK
<1>2. Idle.phase = "idle"
  BY IdleTyped
<1>3. \A u, v \in Tasks : frame'[u] # Idle /\ frame'[v] # Idle => u = v
  BY <1>1
<1>4. ASSUME NEW u \in Tasks
      PROVE  /\ frame'[u].phase = "subscribing" => Subscribing(frame[u])'
             /\ frame'[u].phase = "unsubscribing" => Unsubscribing(frame[u])'
  <2>1. CASE u = t
    <3>1. g.phase = "subscribing" => Subscribing(g)'
      BY <1>2 DEF Reached
    <3>2. g.phase = "unsubscribing" => Unsubscribing(g)'
      BY <1>2 DEF Reached
    <3>3. QED BY <1>1, <2>1, <3>1, <3>2 DEF Subscribing, Unsubscribing, Remaining, InLoop
  <2>2. CASE u # t
    BY <1>1, <1>2, <2>2
  <2>3. QED BY <2>1, <2>2
<1>5. (\A u \in Tasks : frame'[u] = Idle) => Quiet'
  BY <1>1, <1>2 DEF Reached
<1>6. QED BY <1>3, <1>4, <1>5 DEF OneOperation

LEMMA OneOperationPreserved == IInv /\ [Next]_vars => OneOperation'
<1> SUFFICES ASSUME IInv, [Next]_vars, raises' = 0, ~overlapped' PROVE OneOperation'
  BY DEF OneOperation
<1>1. TypeOK /\ FramesSuspended /\ OneOperation /\ Idle.phase = "idle"
  BY IdleTyped DEF IInv
<1>2. ASSUME NEW t \in Tasks, frame[t] = Idle, Begin(t), UNCHANGED <<registry, subs, raises>>
      PROVE  (\A u \in Tasks : frame[u] = Idle) /\ Quiet
  BY <1>1, <1>2 DEF Begin, OneOperation
<1>3. ASSUME NEW t \in Tasks, NEW s \in Servers \cup {NoServer}, Activate(t, s) PROVE OneOperation'
  <2>1. /\ \A u \in Tasks : frame[u] = Idle
        /\ Quiet /\ UNCHANGED <<registry, subs>>
    BY <1>2, <1>3 DEF Activate
  <2>2. CASE server = s
    <3>1. Suspend(t, Idle) /\ UNCHANGED <<server, activated>>
      BY <1>3, <2>2 DEF Activate, Return
    <3>2. Reached(Idle)
      BY <2>1, <3>1 DEF Reached, Quiet
    <3>3. QED BY <1>1, <2>1, <3>1, <3>2, IdleTyped, ReachedKeeps
  <2>3. CASE server # s /\ server # NoServer
    <3>1. Unsubscribe(t, s)
      BY <1>3, <2>3 DEF Activate
    <3>2. \E g \in Frames : Suspend(t, g) /\ Reached(g)
      BY <1>1, <2>1, <2>3, <3>1, UnsubscribeReaches
    <3>3. QED BY <1>1, <2>1, <3>2, ReachedKeeps
  <2>4. CASE server # s /\ server = NoServer
    <3>1. Assign(t, s, {}) /\ subs' = {}
      BY <1>3, <2>1, <2>4 DEF Activate, Quiet
    <3>2. \E g \in Frames : Suspend(t, g) /\ Reached(g)
      BY <1>1, <2>1, <3>1, AssignReaches
    <3>3. QED BY <1>1, <2>1, <3>2, ReachedKeeps
  <2>5. QED BY <2>2, <2>3, <2>4
<1>4. ASSUME NEW t \in Tasks, Deactivate(t) PROVE OneOperation'
  <2>1. /\ \A u \in Tasks : frame[u] = Idle
        /\ Quiet /\ UNCHANGED <<registry, subs>>
    BY <1>2, <1>4 DEF Deactivate
  <2>2. CASE server = NoServer
    <3>1. Suspend(t, Idle) /\ UNCHANGED <<server, activated>>
      BY <1>4, <2>2 DEF Deactivate, Return
    <3>2. Reached(Idle)
      BY <2>1, <3>1 DEF Reached, Quiet
    <3>3. QED BY <1>1, <2>1, <3>1, <3>2, IdleTyped, ReachedKeeps
  <2>3. CASE server # NoServer
    <3>1. Unsubscribe(t, Nothing)
      BY <1>4, <2>3 DEF Deactivate
    <3>2. \E g \in Frames : Suspend(t, g) /\ Reached(g)
      BY <1>1, <2>1, <2>3, <3>1, UnsubscribeReaches
    <3>3. QED BY <1>1, <2>1, <3>2, ReachedKeeps
  <2>4. QED BY <2>2, <2>3
<1>5. ASSUME NEW t \in Tasks, CallReturns(t) PROVE OneOperation'
  <2> DEFINE f == frame[t]
  <2>1. /\ f \in Frames /\ f # Idle /\ Continue(t, f) /\ raises = 0 /\ ~overlapped
        /\ UNCHANGED registry
        /\ subs' = IF f.phase = "subscribing" THEN subs \cup {f.call} ELSE subs \ {f.call}
    BY <1>1, <1>5 DEF CallReturns, TypeOK
  <2>2. \A u \in Tasks \ {t} : frame[u] = Idle
    BY <1>1, <2>1 DEF OneOperation
  <2>3. f.phase \in {"subscribing", "unsubscribing"}
    BY <1>1, <2>1 DEF FramesSuspended, Suspended, Frames
  <2>4. PICK e \in Frames : e = f
    BY <2>1
  <2>5. CASE e.phase = "subscribing"
    <3>1. Subscribing(e)
      BY <1>1, <2>1, <2>4, <2>5 DEF OneOperation
    <3>2. subs' = {server} \X (registry \ Remaining(e, registry))
      BY <2>1, <2>4, <2>5, <3>1 DEF Subscribing
    <3>3. \E g \in Frames : Suspend(t, g) /\ Reached(g)
      BY <1>1, <2>1, <2>4, <2>5, <3>1, <3>2, SubscribingReaches DEF Subscribing
    <3>4. QED BY <1>1, <2>2, <3>3, ReachedKeeps
  <2>6. CASE e.phase = "unsubscribing"
    <3>1. Unsubscribing(e)
      BY <1>1, <2>1, <2>4, <2>6 DEF OneOperation
    <3>2. subs' = {server} \X Remaining(e, registry)
      BY <2>1, <2>4, <2>6, <3>1 DEF Unsubscribing
    <3>3. \E g \in Frames : Suspend(t, g) /\ Reached(g)
      BY <1>1, <2>1, <2>4, <2>6, <3>1, <3>2, UnsubscribingReaches DEF Unsubscribing
    <3>4. QED BY <1>1, <2>2, <3>3, ReachedKeeps
  <2>7. QED BY <2>3, <2>4, <2>5, <2>6
<1>6. ASSUME NEW t \in Tasks, CallRaises(t) PROVE OneOperation'
  BY <1>1, <1>6 DEF CallRaises, TypeOK
<1>7. ASSUME NEW n \in Names, Register(n) PROVE OneOperation'
  <2>1. server = NoServer /\ UNCHANGED <<server, activated, subs, frame, raises, overlapped>>
    BY <1>7 DEF Register
  <2>2. \A t \in Tasks : frame[t] = Idle
    BY <1>1, <2>1 DEF OneOperation, Subscribing, Unsubscribing, FramesSuspended, Suspended,
                       TypeOK, Frames
  <2>3. Quiet'
    BY <1>1, <2>1, <2>2 DEF OneOperation, Quiet
  <2>4. QED BY <1>1, <2>1, <2>2, <2>3 DEF OneOperation
<1>8. CASE UNCHANGED vars
  BY <1>1, <1>8 DEF vars, OneOperation, Quiet, Subscribing, Unsubscribing, Remaining, InLoop
<1>9. QED BY <1>3, <1>4, <1>5, <1>6, <1>7, <1>8 DEF Next
-----------------------------------------------------------------------------
(* Progress. *)

\* The list a loop is in holds names of one kind.
OfOneKind(f) == \A n \in f.todo : KindOf[n] = f.kind
ListsOfOneKind == \A t \in Tasks : OfOneKind(frame[t])

\* g is nearer to the end of its operation than f: it is over, it is in the activation that
\* follows a deactivation, in the list of a later kind, or further in the same list.
Closer(f, g) ==
    \/ g = Idle
    \/ f.phase = "unsubscribing" /\ g.phase = "subscribing"
    \/ /\ g.phase = f.phase
       /\ \/ g.kind > f.kind
          \/ g.kind = f.kind /\ g.todo \subseteq f.todo /\ g.todo # f.todo

\* The next call is for a name of the same list, or of a later one.
LEMMA CallingCloser ==
    ASSUME NEW f \in Frames, OfOneKind(f), NEW source \in SUBSET Names, NEW s,
           NEW n \in NextNames(f, source)
    PROVE  LET g == Calling(f, NextNames(f, source), n, s)
           IN  g.phase = f.phase /\ OfOneKind(g) /\ Closer(f, g)
<1> DEFINE names == NextNames(f, source)
           g == Calling(f, names, n, s)
<1>1. g.phase = f.phase /\ g.kind = KindOf[n] /\ g.todo = names \ {n}
  BY DEF Calling, Frames
<1>2. CASE f.todo # {}
  <2>1. names = f.todo
    BY <1>2 DEF NextNames
  <2>2. KindOf[n] = f.kind /\ \A m \in names : KindOf[m] = f.kind
    BY <2>1 DEF OfOneKind
  <2>3. g.todo \subseteq f.todo /\ g.todo # f.todo
    BY <1>1, <2>1
  <2>4. QED BY <1>1, <2>2, <2>3 DEF OfOneKind, Closer
<1>3. CASE f.todo = {}
  <2>1. \A m \in names : m \in source /\ KindOf[m] > f.kind /\ KindOf[n] <= KindOf[m]
                                      /\ KindOf[m] <= KindOf[n]
    BY <1>3 DEF NextNames
  <2>2. \A m \in source : KindOf[m] \in 1..3
    BY KindAssumption
  <2>3. \A m \in names : KindOf[m] = KindOf[n]
    BY <2>1, <2>2
  <2>4. QED BY <1>1, <2>1, <2>3 DEF OfOneKind, Closer
<1>4. QED BY <1>2, <1>3

\* Where t is after the step, and how its list is kept.
Advances(t, f) == \E g \in Frames : Suspend(t, g) /\ OfOneKind(g) /\ Closer(f, g)

LEMMA EndingAdvances == ASSUME NEW t, NEW f, Suspend(t, Idle) PROVE Advances(t, f)
<1>1. Idle \in Frames /\ Idle.todo = {}
  BY IdleTyped DEF Idle
<1>2. QED BY <1>1 DEF Advances, OfOneKind, Closer

\* The activation that follows a deactivation, or begins.
LEMMA AssignAdvances ==
    ASSUME TypeOK, NEW t, NEW s \in Servers \cup {NoServer}, NEW lists, Assign(t, s, lists),
           NEW e, e.phase = "unsubscribing"
    PROVE  Advances(t, e)
<1> DEFINE f == [Idle EXCEPT !.phase = "subscribing", !.names = registry]
           first == NextNames(f, registry)
<1>1. f \in Frames /\ f.phase = "subscribing" /\ OfOneKind(f)
  <2>1. Idle \in Frames /\ registry \in SUBSET Names
    BY IdleTyped DEF TypeOK
  <2>2. f \in Frames
    BY <2>1 DEF Frames
  <2>3. f.phase = "subscribing" /\ f.todo = {}
    BY DEF Idle
  <2>4. QED BY <2>2, <2>3 DEF OfOneKind
<1>2. CASE s = NoServer \/ first = {}
  BY <1>2, EndingAdvances DEF Assign, Return
<1>3. CASE s # NoServer /\ first # {}
  <2>1. PICK n \in first : Suspend(t, Calling(f, first, n, s))
    BY <1>3 DEF Assign
  <2>2. Calling(f, first, n, s) \in Frames
    BY <1>1, <1>3, CallingTyped, NextNamesTyped DEF TypeOK
  <2>3. OfOneKind(Calling(f, first, n, s)) /\ Calling(f, first, n, s).phase = "subscribing"
    BY <1>1, CallingCloser DEF TypeOK
  <2>4. QED BY <2>1, <2>2, <2>3 DEF Advances, Closer
<1>4. QED BY <1>2, <1>3

\* The loops go on, whatever other tasks made of server and _activated.
LEMMA ContinueAdvances ==
    ASSUME TypeOK, NEW t, NEW f \in Frames, f.phase # "idle", OfOneKind(f), Continue(t, f)
    PROVE  Advances(t, f)
<1> DEFINE source == IF f.phase = "subscribing" THEN f.names ELSE activated
           names == NextNames(f, source)
<1>1. source \in SUBSET Names
  BY DEF TypeOK, Frames
<1>2. CASE names = {} /\ f.phase = "subscribing"
  BY <1>2, EndingAdvances DEF Continue, EndActivate, Return
<1>3. CASE names = {} /\ f.phase # "subscribing"
  <2>1. EndDeactivate(t, f.target) /\ f.phase = "unsubscribing"
    BY <1>3 DEF Continue, Frames
  <2>2. CASE f.target = Nothing
    BY <2>1, <2>2, EndingAdvances DEF EndDeactivate, Return
  <2>3. CASE f.target # Nothing
    BY <2>1, <2>3, AssignAdvances DEF EndDeactivate, Frames
  <2>4. QED BY <2>2, <2>3
<1>4. CASE names # {} /\ server = NoServer
  BY <1>4, EndingAdvances DEF Continue, Return
<1>5. CASE names # {} /\ server # NoServer
  <2>1. PICK n \in names : Suspend(t, Calling(f, names, n, server))
    BY <1>5 DEF Continue
  <2>2. Calling(f, names, n, server) \in Frames
    BY <1>1, <1>5, CallingTyped, NextNamesTyped DEF TypeOK
  <2>3. OfOneKind(Calling(f, names, n, server)) /\ Closer(f, Calling(f, names, n, server))
    BY <1>1, CallingCloser
  <2>4. QED BY <2>1, <2>2, <2>3 DEF Advances
<1>6. QED BY <1>2, <1>3, <1>4, <1>5

\* Beginning an operation starts its first list.
LEMMA UnsubscribeAdvances ==
    ASSUME TypeOK, NEW t, NEW target \in Servers \cup {NoServer, Nothing}, Unsubscribe(t, target)
    PROVE  \E g \in Frames : Suspend(t, g) /\ OfOneKind(g)
<1> DEFINE f == [Idle EXCEPT !.phase = "unsubscribing", !.target = target]
<1>1. f \in Frames /\ f.phase = "unsubscribing"
  BY IdleTyped DEF Frames
<1>2. f.todo = {}
  BY DEF Idle
<1>3. Continue(t, f) /\ OfOneKind(f)
  BY <1>2 DEF Unsubscribe, OfOneKind
<1>4. QED BY <1>1, <1>3, ContinueAdvances DEF Advances

\* One step: a call that returns advances its operation; nobody else touches it.
LEMMA StepAdvances ==
    ASSUME IInv, ListsOfOneKind, [Next]_vars
    PROVE  /\ ListsOfOneKind'
           /\ \A t \in Tasks : /\ CallReturns(t) => Closer(frame[t], frame'[t])
                               /\ frame[t] # Idle /\ frame'[t] # frame[t]
                                    => Closer(frame[t], frame'[t])
<1> DEFINE Good == /\ ListsOfOneKind'
                   /\ \A t \in Tasks : frame[t] # Idle /\ frame'[t] # frame[t]
                                         => Closer(frame[t], frame'[t])
<1>1. TypeOK /\ FramesSuspended
  BY DEF IInv
<1>2. ASSUME NEW t \in Tasks, frame[t] = Idle, NEW g \in Frames, Suspend(t, g), OfOneKind(g)
      PROVE  Good
  BY <1>1, <1>2 DEF Suspend, TypeOK, ListsOfOneKind, OfOneKind
<1>3. ASSUME NEW t \in Tasks, Advances(t, frame[t]) PROVE Good /\ Closer(frame[t], frame'[t])
  <2>1. PICK g \in Frames : Suspend(t, g) /\ OfOneKind(g) /\ Closer(frame[t], g)
    BY <1>3 DEF Advances
  <2>2. frame'[t] = g /\ \A u \in Tasks \ {t} : frame'[u] = frame[u]
    BY <1>1, <2>1 DEF Suspend, TypeOK
  <2>3. ListsOfOneKind'
    BY <2>1, <2>2 DEF ListsOfOneKind, OfOneKind
  <2>4. QED BY <2>1, <2>2, <2>3
<1>4. Idle \in Frames /\ OfOneKind(Idle)
  BY IdleTyped DEF OfOneKind, Idle
<1>5. ASSUME NEW t \in Tasks, NEW s \in Servers \cup {NoServer}, Activate(t, s) PROVE Good
  <2>1. frame[t] = Idle
    BY <1>5 DEF Activate
  <2>2. CASE server = s
    BY <1>2, <1>4, <1>5, <2>1, <2>2 DEF Activate, Return
  <2>3. CASE server # s /\ server # NoServer
    BY <1>1, <1>2, <1>5, <2>1, <2>3, UnsubscribeAdvances DEF Activate
  <2>4. CASE server # s /\ server = NoServer
    <3>1. PICK e : e = [phase |-> "unsubscribing"]
      OBVIOUS
    <3>2. Advances(t, e)
      BY <1>1, <1>5, <2>4, <3>1, AssignAdvances DEF Activate
    <3>3. QED BY <1>2, <2>1, <3>2 DEF Advances
  <2>5. QED BY <2>2, <2>3, <2>4
<1>6. ASSUME NEW t \in Tasks, Deactivate(t) PROVE Good
  <2>1. frame[t] = Idle
    BY <1>6 DEF Deactivate
  <2>2. CASE server = NoServer
    BY <1>2, <1>4, <1>6, <2>1, <2>2 DEF Deactivate, Return
  <2>3. CASE server # NoServer
    BY <1>1, <1>2, <1>6, <2>1, <2>3, UnsubscribeAdvances DEF Deactivate
  <2>4. QED BY <2>2, <2>3
<1>7. ASSUME NEW t \in Tasks, CallReturns(t) PROVE Good /\ Closer(frame[t], frame'[t])
  <2>1. frame[t] \in Frames /\ frame[t] # Idle /\ Continue(t, frame[t]) /\ OfOneKind(frame[t])
    BY <1>1, <1>7 DEF CallReturns, TypeOK, ListsOfOneKind
  <2>2. frame[t].phase # "idle"
    BY <1>1, <2>1 DEF FramesSuspended, Suspended
  <2>3. QED BY <1>1, <1>3, <2>1, <2>2, ContinueAdvances
<1>8. ASSUME NEW t \in Tasks, CallRaises(t) PROVE Good
  BY <1>3, <1>8, EndingAdvances DEF CallRaises, Return
<1>9. ASSUME NEW n \in Names, Register(n) PROVE Good
  BY <1>9 DEF Register, ListsOfOneKind
<1>10. ASSUME UNCHANGED vars PROVE Good
  BY <1>10 DEF vars, ListsOfOneKind
<1>11. Good
  BY <1>5, <1>6, <1>7, <1>8, <1>9, <1>10 DEF Next
<1>12. \A t \in Tasks : CallReturns(t) => Closer(frame[t], frame'[t])
  <2>1. SUFFICES ASSUME NEW t \in Tasks, CallReturns(t) PROVE Closer(frame[t], frame'[t])
    OBVIOUS
  <2>2. QED BY <1>7, <2>1
<1> HIDE DEF Good
<1>13. ListsOfOneKind' /\ \A t \in Tasks : frame[t] # Idle /\ frame'[t] # frame[t]
                                            => Closer(frame[t], frame'[t])
  BY <1>11 DEF Good
<1>14. QED BY <1>12, <1>13
-----------------------------------------------------------------------------
(* The theorems. *)

LEMMA InitEstablishes == Init => IInv
<1> SUFFICES ASSUME Init PROVE IInv
  OBVIOUS
<1>1. frame \in [Tasks -> Frames] /\ \A t \in Tasks : frame[t] = Idle
  BY IdleTyped DEF Init
<1>2. TypeOK
  <2>1. raises \in 0..MaxRaises
    BY RaisesAssumption DEF Init
  <2>2. server = NoServer /\ activated = {} /\ registry = {} /\ subs = {}
    BY DEF Init
  <2>3. returned = Nothing /\ overlapped \in BOOLEAN
    BY DEF Init
  <2>4. QED BY <1>1, <2>1, <2>2, <2>3 DEF TypeOK
<1>3. FramesSuspended
  BY <1>1 DEF FramesSuspended, Suspended
<1>4. OneOperation
  BY <1>1, IdleTyped DEF Init, OneOperation, Quiet
<1>5. QED BY <1>2, <1>3, <1>4 DEF IInv

LEMMA Invariance == Spec => []IInv
<1>1. IInv /\ [Next]_vars => IInv'
  BY TypePreserved, OneOperationPreserved DEF IInv
<1>2. QED BY <1>1, InitEstablishes, PTL DEF Spec

\* Every variable of the router keeps its type, and no task forgets where it was.
THEOREM TypeCorrect == Spec => []TypeOK
<1>1. IInv => TypeOK
  BY DEF IInv
<1>2. QED BY <1>1, Invariance, PTL

\* Between operations that did not overlap or fail, the subscriptions are exactly those the
\* router's state stands for, for any number of transports, names and kinds.
THEOREM SubscriptionsMatch == Spec => []QuiescentMatches
<1>1. IInv => QuiescentMatches
  BY DEF IInv, OneOperation, Quiet, QuiescentMatches
<1>2. QED BY <1>1, Invariance, PTL

\* activate() and deactivate() terminate: each transport call that returns brings its
\* operation closer to its end - to the activation that follows, to a later list, or on in
\* the same list, the three of them well-founded since a list is finite - although other
\* tasks replace self.server and self._activated while it waits; and no step of another
\* task takes an operation anywhere but closer.  With transport calls that return, this is
\* OperationsEnd without the fairness.
OperationsAdvance ==
    [][\A t \in Tasks : /\ CallReturns(t) => Closer(frame[t], frame'[t])
                        /\ frame[t] # Idle /\ frame'[t] # frame[t]
                             => Closer(frame[t], frame'[t])]_vars
THEOREM OperationsTerminate == Spec => OperationsAdvance
<1>1. Init => ListsOfOneKind
  BY IdleTyped DEF Init, ListsOfOneKind, OfOneKind, Idle
<1>2. IInv /\ ListsOfOneKind /\ [Next]_vars => ListsOfOneKind'
  BY StepAdvances
<1>3. IInv /\ ListsOfOneKind /\ [Next]_vars =>
        [\A t \in Tasks : /\ CallReturns(t) => Closer(frame[t], frame'[t])
                          /\ frame[t] # Idle /\ frame'[t] # frame[t]
                               => Closer(frame[t], frame'[t])]_vars
  BY StepAdvances
<1>4. QED BY <1>1, <1>2, <1>3, Invariance, PTL DEF Spec, OperationsAdvance
=============================================================================
