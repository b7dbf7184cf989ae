--------------------------- MODULE LoopbackProofs ---------------------------
(***************************************************************************)
(* Theorems about Loopback, for any functions, names, calls and routers.   *)
(* The inductive invariant ties the transport's tables, what the router    *)
(* activated and the registry together while there is one router, and      *)
(* keeps the name of every call in flight registered.                      *)
(* That calls keep the contract of send_request, and that a broadcast      *)
(* reaches every subscriber once, rests on invariants about single calls,  *)
(* stated where they are needed.                                           *)
(***************************************************************************)
EXTENDS Loopback, TLAPS

\* Before the first router there is nothing; a router that has a server has been made.
RoutersMade == /\ router = 0 => registry = NoItems
               /\ \A r \in Routers : server[r] => r <= router

\* What the only router recorded is what it subscribed.
Recorded == OneRouter => \A r \in Routers :
    activated[r] = {k \in Keys : server[r] /\ registry[k] # None}

\* A call that has begun has a key, and one that found a callback a registered one.
CallsHaveKeys == \A c \in Calls :
    /\ call[c].pc # "idle" => call[c].key \in Keys
    /\ call[c].pc \in {"idle", "sending"} => call[c].ran = <<>>
KeysRegistered == OneRouter => \A c \in Calls :
    call[c].pc \in {"decoding", "running", "encoding"} => registry[call[c].key] # None

IInv == /\ TypeOK /\ RoutersMade /\ ServesTheDeclared /\ Recorded
        /\ CallsHaveKeys /\ KeysRegistered /\ RunsTheDeclared /\ FailuresAreOwn

LEMMA KeysOfFunctions == \A f \in Functions : KeyOf[f] \in Keys /\ f # None
BY KeyAssumption DEF Keys

\* The initial states satisfy the invariant.
LEMMA InitEstablishes == Init => IInv
<1>1. SUFFICES ASSUME Init PROVE IInv
  OBVIOUS
<1>2. NoCall \in CallRecords
  BY DEF NoCall, CallRecords
<1>3. TypeOK
  <2>1. /\ router \in 0..MaxRouters /\ registry \in [Keys -> Functions \cup {None}]
        /\ server \in [Routers -> BOOLEAN] /\ wiped \in BOOLEAN
    <3>1. router \in 0..MaxRouters
      BY <1>1, RoutersAssumption, 0 \in Nat DEF Init, SpaceInit
    <3>2. registry \in [Keys -> Functions \cup {None}]
      BY <1>1 DEF Init, SpaceInit, NoItems
    <3>3. server \in [Routers -> BOOLEAN] /\ wiped \in BOOLEAN
      BY <1>1 DEF Init, SpaceInit
    <3>4. QED BY <3>1, <3>2, <3>3
  <2>2. callbacks \in [Keys -> Seq(Routers)] /\ \A k \in Keys : Len(callbacks[k]) <= 1
    <3>1. <<>> \in Seq(Routers) /\ Len(<<>>) <= 1
      OBVIOUS
    <3>2. callbacks = [k \in Keys |-> <<>>]
      BY <1>1 DEF Init
    <3>3. QED BY <3>1, <3>2
  <2>3. activated \in [Routers -> SUBSET Keys]
    BY <1>1 DEF Init
  <2>4. \A c \in Calls : call[c] = NoCall /\ call \in [Calls -> CallRecords]
    BY <1>1, <1>2 DEF Init
  <2>5. NoCall.pc # "decoding"
    BY DEF NoCall
  <2>6. QED BY <1>1, <1>2, <2>1, <2>2, <2>3, <2>4, <2>5 DEF TypeOK, Init
<1>4. RoutersMade /\ ServesTheDeclared /\ Recorded
  BY <1>1 DEF Init, SpaceInit, RoutersMade, ServesTheDeclared, Recorded, NoItems, OneRouter
<1>5. CallsHaveKeys /\ KeysRegistered /\ RunsTheDeclared /\ FailuresAreOwn
  BY <1>1 DEF Init, NoCall, CallsHaveKeys, KeysRegistered, RunsTheDeclared, FailuresAreOwn
<1>6. QED BY <1>3, <1>4, <1>5 DEF IInv
-----------------------------------------------------------------------------
(* Types. *)

\* A call that becomes a well-typed record leaves the others as they are.
LEMMA BecomesTyped ==
    ASSUME TypeOK, NEW c \in Calls, NEW f \in CallRecords, Becomes(c, f),
           f.pc = "decoding" => f.todo # <<>>
    PROVE  /\ call' \in [Calls -> CallRecords]
           /\ \A d \in Calls : call'[d].pc = "decoding" => call'[d].todo # <<>>
           /\ call'[c] = f /\ \A d \in Calls \ {c} : call'[d] = call[d]
BY DEF Becomes, TypeOK

\* What each step of a call makes of its record.
LEMMA SpaceTyped == ASSUME TypeOK, SpaceNext PROVE
    /\ router' \in 0..MaxRouters /\ registry' \in [Keys -> Functions \cup {None}]
    /\ server' \in [Routers -> BOOLEAN]
<1>1. CASE NewRouter
  BY <1>1, RoutersAssumption DEF NewRouter, TypeOK, NoItems
<1>2. ASSUME NEW f \in Functions, Declare(f) PROVE
          /\ router' \in 0..MaxRouters /\ registry' \in [Keys -> Functions \cup {None}]
          /\ server' \in [Routers -> BOOLEAN]
  BY <1>2, KeysOfFunctions, RoutersAssumption
  DEF Declare, RegisterAtask, Register, GetRouter, TypeOK
<1>3. QED BY <1>1, <1>2 DEF SpaceNext

LEMMA TypePreserved == TypeOK /\ CallsHaveKeys /\ [Next]_vars => TypeOK'
<1> SUFFICES ASSUME TypeOK, CallsHaveKeys, [Next]_vars PROVE TypeOK'
  OBVIOUS
<1>1. CASE UNCHANGED vars
  BY <1>1 DEF vars, spaceVars, TypeOK
<1>2. CASE SpaceStep
  BY <1>2, SpaceTyped DEF SpaceStep, TypeOK
<1>3. ASSUME NEW r \in Routers, Activate(r) PROVE TypeOK'
  <2>1. callbacks' \in [Keys -> Seq(Routers)]
    BY <1>3 DEF Activate, AddCallback, TypeOK
  <2>2. \A k \in Keys : k[1] # "broadcast" => Len(callbacks'[k]) <= 1
    BY <1>3 DEF Activate, AddCallback, TypeOK
  <2>3. QED BY <1>3, <2>1, <2>2 DEF Activate, TypeOK
<1>4. ASSUME NEW r \in Routers, Deactivate(r) PROVE TypeOK'
  BY <1>4 DEF Deactivate, Dropped, TypeOK
<1>5. ASSUME NEW c \in Calls, NEW k \in Keys, Send(c, k) PROVE TypeOK'
  <2> DEFINE f == [call[c] EXCEPT !.pc = "sending", !.key = k]
  <2>1. f \in CallRecords /\ f.pc = "sending"
    BY ZenonT(40) DEF TypeOK, CallRecords
  <2>2. Becomes(c, f) /\ router' \in 0..MaxRouters
    BY <1>5, RoutersAssumption DEF Send, GetRouter, TypeOK
  <2>3. QED BY <1>5, <2>1, <2>2, BecomesTyped DEF Send, TypeOK
<1>6. ASSUME NEW c \in Calls, NEW f \in CallRecords, Becomes(c, f), Step(c),
             f.pc = "decoding" => f.todo # <<>>
      PROVE  TypeOK'
  BY <1>6, BecomesTyped DEF Step, spaceVars, TypeOK
<1>7. ASSUME NEW c \in Calls, Dispatch(c) PROVE TypeOK'
  <2> DEFINE k == call[c].key
             f == [call[c] EXCEPT
                     !.todo = callbacks[k],
                     !.due = {r \in Routers : server[r] /\ k \in activated[r]},
                     !.wiped = wiped,
                     !.pc = IF callbacks[k] = <<>> THEN Unserved(k) ELSE "decoding"]
  <2>1. k \in Keys
    BY <1>7 DEF Dispatch, CallsHaveKeys
  <2>2. call[c] \in CallRecords /\ callbacks[k] \in Seq(Routers) /\ wiped \in BOOLEAN
    BY <2>1 DEF TypeOK
  <2>3. f \in CallRecords /\ (f.pc = "decoding" => f.todo # <<>>)
    <3> DEFINE due == {r \in Routers : server[r] /\ k \in activated[r]}
               pc == IF callbacks[k] = <<>> THEN Unserved(k) ELSE "decoding"
    <3>1. due \in SUBSET Routers /\ pc \in {"noroute", "dropped", "decoding"}
      BY DEF Unserved
    <3>2. pc = "decoding" => callbacks[k] # <<>>
      BY DEF Unserved
    <3> HIDE DEF due, pc
    <3>3. f = [call[c] EXCEPT !.todo = callbacks[k], !.due = due, !.wiped = wiped, !.pc = pc]
      BY DEF due, pc
    <3> DEFINE e == call[c]
               s == callbacks[k]
    <3>4. /\ e \in CallRecords /\ s \in Seq(Routers) /\ (pc = "decoding" => s # <<>>)
          /\ f = [e EXCEPT !.todo = s, !.due = due, !.wiped = wiped, !.pc = pc]
      BY <2>2, <3>2, <3>3
    <3> HIDE DEF e, s, f, k
    <3>5. pc \in {"idle", "sending", "decoding", "running", "encoding"} \cup Outcomes
      BY <3>1 DEF Outcomes
    <3>6. f \in CallRecords
      BY <2>2, <3>1, <3>4, <3>5 DEF CallRecords
    <3>7. f.pc = pc /\ f.todo = s
      BY <3>4 DEF CallRecords
    <3>8. QED BY <3>4, <3>6, <3>7
  <2>4. Becomes(c, f) /\ Step(c)
    BY <1>7 DEF Dispatch
  <2>5. QED BY <1>6, <2>3, <2>4
<1>8. ASSUME NEW c \in Calls, Lookup(c) PROVE TypeOK'
  <2> DEFINE e == call[c]
             item == registry[e.key]
             f == IF item = None THEN [e EXCEPT !.pc = "raised"]
                  ELSE [e EXCEPT !.pc = "running", !.todo = Tail(@),
                                 !.ran = Append(@, <<Head(e.todo), item>>)]
  <2>1. e \in CallRecords /\ e.pc = "decoding" /\ e.todo # <<>> /\ e.key \in Keys
    BY <1>8 DEF Lookup, TypeOK, CallsHaveKeys
  <2>2. item \in Functions \cup {None}
    BY <2>1 DEF TypeOK
  <2>3. e.todo \in Seq(Routers) /\ e.ran \in Seq(Routers \X Functions)
    BY <2>1 DEF CallRecords
  <2>4. Head(e.todo) \in Routers /\ Tail(e.todo) \in Seq(Routers)
    BY <2>1, <2>3
  <2>5. item # None => Append(e.ran, <<Head(e.todo), item>>) \in Seq(Routers \X Functions)
    BY <2>2, <2>3, <2>4
  <2>6. f \in CallRecords /\ f.pc # "decoding"
    BY <2>1, <2>4, <2>5 DEF CallRecords, Outcomes
  <2>7. Becomes(c, f) /\ Step(c)
    BY <1>8 DEF Lookup
  <2>8. QED BY <1>6, <2>6, <2>7
<1>9. ASSUME NEW c \in Calls, HandlerEnds(c) PROVE TypeOK'
  <2>1. AfterHandler(call[c]) \in CallRecords
    BY ZenonT(40) DEF AfterHandler, CallRecords, Outcomes, TypeOK
  <2>2. AfterHandler(call[c]).pc = "decoding" => AfterHandler(call[c]).todo # <<>>
    BY DEF AfterHandler, CallRecords, TypeOK
  <2>3. QED BY <1>6, <1>9, <2>1, <2>2 DEF HandlerEnds
<1>10. ASSUME NEW c \in Calls,
              \/ DecodeFails(c) \/ Respond(c) \/ TimerFires(c)
              \/ Cancel(c) \/ Unwind(c) \/ Swallow(c)
       PROVE  TypeOK'
  <2> DEFINE e == call[c]
  <2>1. e \in CallRecords /\ (e.pc = "decoding" => e.todo # <<>>)
    BY DEF TypeOK
  <2>2. /\ \A how \in {"result", "garbled"} : [e EXCEPT !.pc = how] \in CallRecords
        /\ [e EXCEPT !.cause = "timeout", !.fired = TRUE] \in CallRecords
        /\ [e EXCEPT !.cause = "cancelled", !.asked = TRUE] \in CallRecords
        /\ [e EXCEPT !.cause = "none", !.swallowed = TRUE] \in CallRecords
    BY <2>1 DEF CallRecords, Outcomes
  <2>3. e.cause # "none" => /\ [e EXCEPT !.pc = e.cause, !.cause = "none"] \in CallRecords
                            /\ e.cause # "decoding"
    BY <2>1 DEF CallRecords, Outcomes
  <2>4. CASE DecodeFails(c) \/ Respond(c)
    <3>1. PICK how \in {"result", "garbled"} : Becomes(c, [e EXCEPT !.pc = how]) /\ Step(c)
      BY <2>4 DEF DecodeFails, Respond
    <3>2. [e EXCEPT !.pc = how].pc # "decoding"
      BY <2>1 DEF CallRecords
    <3>3. QED BY <1>6, <2>2, <3>1, <3>2
  <2>5. ASSUME NEW f \in CallRecords, Becomes(c, f), Step(c), f.pc = e.pc, f.todo = e.todo
        PROVE  TypeOK'
    BY <1>6, <2>1, <2>5
  <2>6. CASE TimerFires(c)
    <3> DEFINE f == [e EXCEPT !.cause = "timeout", !.fired = TRUE]
    <3>1. f.pc = e.pc /\ f.todo = e.todo
      BY <2>1 DEF CallRecords
    <3>2. QED BY <2>2, <2>5, <2>6, <3>1 DEF TimerFires
  <2>7. CASE Cancel(c)
    <3> DEFINE f == [e EXCEPT !.cause = "cancelled", !.asked = TRUE]
    <3>1. f.pc = e.pc /\ f.todo = e.todo
      BY <2>1 DEF CallRecords
    <3>2. QED BY <2>2, <2>5, <2>7, <3>1 DEF Cancel
  <2>8. CASE Swallow(c)
    <3> DEFINE f == [e EXCEPT !.cause = "none", !.swallowed = TRUE]
    <3>1. f.pc = e.pc /\ f.todo = e.todo
      BY <2>1 DEF CallRecords
    <3>2. QED BY <2>2, <2>5, <2>8, <3>1 DEF Swallow
  <2>9. CASE Unwind(c)
    BY <2>9, <2>1, <2>3, <1>6 DEF Unwind, CallRecords
  <2>10. QED BY <1>10, <2>4, <2>6, <2>7, <2>8, <2>9
<1>11. QED BY <1>1, <1>2, <1>3, <1>4, <1>5, <1>7, <1>8, <1>9, <1>10 DEF Next, CallStep
-----------------------------------------------------------------------------
(* The router's tables. *)

LEMMA RoutersMadePreserved == TypeOK /\ RoutersMade /\ [Next]_vars => RoutersMade'
<1> SUFFICES ASSUME TypeOK, RoutersMade, [Next]_vars PROVE RoutersMade'
  OBVIOUS
<1>1. router \in Nat /\ Routers \subseteq Nat \ {0}
  BY RoutersAssumption DEF TypeOK, Routers
<1>2. CASE SpaceStep
  BY <1>1, <1>2 DEF SpaceStep, SpaceNext, NewRouter, Declare, RegisterAtask, GetRouter, RoutersMade
<1>3. ASSUME NEW r \in Routers, Activate(r) \/ Deactivate(r) PROVE RoutersMade'
  BY <1>1, <1>3 DEF Activate, Deactivate, RoutersMade, TypeOK
<1>4. ASSUME NEW c \in Calls, NEW k \in Keys, Send(c, k) PROVE RoutersMade'
  BY <1>1, <1>4 DEF Send, GetRouter, RoutersMade
<1>5. ASSUME NEW c \in Calls, Step(c) PROVE RoutersMade'
  BY <1>5 DEF Step, spaceVars, RoutersMade
<1>6. CASE UNCHANGED vars
  BY <1>6 DEF vars, spaceVars, RoutersMade
<1>7. QED BY <1>2, <1>3, <1>4, <1>5, <1>6
  DEF Next, CallStep, Dispatch, Lookup, DecodeFails, Respond, TimerFires, Unwind, HandlerEnds,
      Cancel, Swallow

\* With one router, a step either leaves the registry alone or adds a name while the router
\* has no server; it cannot have been the second Router().
LEMMA OneRouterSteps ==
    ASSUME TypeOK, RoutersMade, [Next]_vars, OneRouter'
    PROVE  /\ OneRouter /\ (router' = router \/ router = 0)
           /\ \/ registry' = registry
              \/ /\ UNCHANGED <<server, callbacks, activated, call>>
                 /\ \A r \in Routers : ~server[r]
                 /\ \E f \in Functions : Register(f)
<1>1. router \in Nat /\ Routers \subseteq Nat \ {0}
  BY RoutersAssumption DEF TypeOK, Routers
<1>2. CASE NewRouter /\ SpaceStep
  <2>1. router = 0
    BY <1>1, <1>2 DEF NewRouter, OneRouter
  <2>2. QED BY <1>2, <2>1 DEF NewRouter, OneRouter, RoutersMade
<1>3. ASSUME NEW f \in Functions, Declare(f), SpaceStep
      PROVE  /\ OneRouter /\ (router' = router \/ router = 0) /\ Register(f)
             /\ UNCHANGED <<server, callbacks, activated, call>>
             /\ \A r \in Routers : ~server[r]
  <2>1. OneRouter
    BY <1>1, <1>3 DEF Declare, GetRouter, OneRouter
  <2>2. \A r \in Routers : server[r] => r = router
    <3>1. SUFFICES ASSUME NEW r \in Routers, server[r] PROVE r = router
      OBVIOUS
    <3>2. r <= router /\ router <= 1 /\ r \in Nat \ {0}
      BY <1>1, <2>1, <3>1 DEF RoutersMade, OneRouter
    <3>3. QED BY <1>1, <3>2
  <2>3. \A r \in Routers : ~server[r]
    <3>1. router # 0 => ~server[router]
      BY <1>3 DEF Declare, RegisterAtask
    <3>2. QED BY <1>1, <2>2, <3>1
  <2>4. QED BY <1>3, <2>1, <2>3 DEF Declare, RegisterAtask, GetRouter, SpaceStep
<1>4. ASSUME NEW c \in Calls, NEW k \in Keys, Send(c, k)
      PROVE  OneRouter /\ (router' = router \/ router = 0) /\ registry' = registry
  BY <1>1, <1>4 DEF Send, GetRouter, OneRouter
<1>5. ASSUME router' = router, registry' = registry
      PROVE  OneRouter /\ (router' = router \/ router = 0) /\ registry' = registry
  BY <1>5 DEF OneRouter
<1>6. ASSUME NEW r \in Routers, Activate(r) \/ Deactivate(r)
      PROVE  router' = router /\ registry' = registry
  BY <1>6 DEF Activate, Deactivate
<1>7. ASSUME NEW c \in Calls, CallStep(c) \/ HandlerEnds(c) \/ Cancel(c) \/ Swallow(c)
      PROVE  router' = router /\ registry' = registry
  BY <1>7 DEF CallStep, Dispatch, Lookup, DecodeFails, Respond, TimerFires, Unwind,
              HandlerEnds, Cancel, Swallow, Step, spaceVars
<1>8. CASE SpaceStep
  <2>1. NewRouter \/ \E f \in Functions : Declare(f)
    BY <1>8 DEF SpaceStep, SpaceNext
  <2>2. QED BY <1>2, <1>3, <1>8, <2>1
<1>9. CASE UNCHANGED vars
  BY <1>5, <1>9 DEF vars, spaceVars
<1>10. QED BY <1>4, <1>5, <1>6, <1>7, <1>8, <1>9 DEF Next

LEMMA ServicePreserved ==
    TypeOK /\ CallsHaveKeys /\ RoutersMade /\ ServesTheDeclared /\ Recorded /\ [Next]_vars
        => ServesTheDeclared' /\ Recorded'
<1> SUFFICES ASSUME TypeOK, CallsHaveKeys, RoutersMade, ServesTheDeclared, Recorded,
                    [Next]_vars, OneRouter'
             PROVE  ServesTheDeclared' /\ Recorded'
  BY DEF ServesTheDeclared, Recorded
<1>1. OneRouter /\ router \in 0..1 /\ Routers \subseteq Nat \ {0}
  BY OneRouterSteps, RoutersAssumption DEF TypeOK, Routers, OneRouter
<1>2. \A r \in Routers : server[r] => r = router /\ router = 1
  BY <1>1 DEF RoutersMade
<1>3. ASSUME NEW f \in Functions, Register(f), UNCHANGED <<server, callbacks, activated, call>>,
             \A r \in Routers : ~server[r]
      PROVE  ServesTheDeclared' /\ Recorded'
  <2>1. \A k \in Keys : callbacks[k] = <<>>
    BY <1>1, <1>3, RoutersAssumption DEF ServesTheDeclared, Routers
  <2>2. \A r \in Routers : activated[r] = {}
    BY <1>1, <1>3 DEF Recorded
  <2>3. router' # 0 => router' \in Routers
    BY <1>1, RoutersAssumption, TypePreserved DEF Routers, TypeOK
  <2>4. ServesTheDeclared'
    <3>1. router' # 0 => ~server'[router']
      BY <1>3, <2>3
    <3>2. \A k \in Keys : callbacks'[k] = <<>>
      BY <1>3, <2>1
    <3>3. QED BY <3>1, <3>2 DEF ServesTheDeclared
  <2>5. \A r \in Routers : activated'[r] = {} /\ ~server'[r]
    BY <1>3, <2>2
  <2>6. Recorded'
    BY <2>5 DEF Recorded
  <2>7. QED BY <2>4, <2>6
<1>4. ASSUME NEW r \in Routers, Activate(r) PROVE ServesTheDeclared' /\ Recorded'
  <2>1. r = 1 /\ router = 1 /\ ~server[1] /\ server' = [server EXCEPT ![1] = TRUE]
    <3>1. r <= router /\ ~server[r] /\ server' = [server EXCEPT ![r] = TRUE]
      BY <1>4 DEF Activate
    <3>2. r \in Nat \ {0}
      BY <1>1
    <3>3. r = 1 /\ router = 1
      BY <1>1, <3>1, <3>2
    <3>4. QED BY <3>1, <3>3
  <2>2. \A k \in Keys : callbacks[k] = <<>>
    BY <1>1, <2>1 DEF ServesTheDeclared
  <2>3. \A k \in Keys : callbacks'[k] = IF registry[k] # None THEN <<1>> ELSE <<>>
    <3>1. Append(<<>>, 1) = <<1>>
      OBVIOUS
    <3>2. ASSUME NEW k \in Keys PROVE callbacks'[k] = IF registry[k] # None THEN <<1>> ELSE <<>>
      <4>1. AddCallback(k, 1) = <<1>>
        BY <2>2, <3>1 DEF AddCallback
      <4>2. callbacks'[k] = IF registry[k] # None THEN AddCallback(k, 1) ELSE callbacks[k]
        BY <1>4, <2>1 DEF Activate
      <4>3. QED BY <2>2, <4>1, <4>2
    <3>3. QED BY <3>2
  <2>4. server'[1] /\ registry' = registry /\ router' = 1
    BY <1>4, <2>1 DEF Activate, TypeOK
  <2>5. ServesTheDeclared'
    BY <2>3, <2>4 DEF ServesTheDeclared
  <2>6. activated'[1] = {k \in Keys : registry[k] # None}
    BY <1>4, <2>1 DEF Activate, TypeOK
  <2>7. ASSUME NEW q \in Routers, q # 1
        PROVE  activated'[q] = {k \in Keys : server'[q] /\ registry'[k] # None}
    BY <1>1, <1>4, <2>1, <2>7 DEF Activate, TypeOK, Recorded
  <2>8. QED BY <2>4, <2>5, <2>6, <2>7 DEF Recorded
<1>5. ASSUME NEW r \in Routers, Deactivate(r) PROVE ServesTheDeclared' /\ Recorded'
  <2>1. r = 1 /\ router = 1 /\ server[1] /\ server' = [server EXCEPT ![1] = FALSE]
    BY <1>2, <1>5 DEF Deactivate
  <2>2. router' = 1 /\ registry' = registry /\ ~server'[1]
    BY <1>5, <2>1 DEF Deactivate, TypeOK
  <2>3. \A k \in Keys : callbacks'[k] = <<>>
    BY <1>1, <1>5, <2>1 DEF Deactivate, Dropped, ServesTheDeclared, Recorded
  <2>4. ServesTheDeclared'
    BY <2>2, <2>3 DEF ServesTheDeclared
  <2>5. activated'[1] = {}
    BY <1>5, <2>1 DEF Deactivate, TypeOK
  <2>6. ASSUME NEW q \in Routers, q # 1
        PROVE  activated'[q] = {k \in Keys : server'[q] /\ registry'[k] # None}
    BY <1>1, <1>5, <2>1, <2>6 DEF Deactivate, TypeOK, Recorded
  <2>7. QED BY <2>2, <2>4, <2>5, <2>6 DEF Recorded
<1>6. ASSUME registry' = registry, UNCHANGED <<server, callbacks, activated>>
      PROVE  ServesTheDeclared' /\ Recorded'
  <2>1. ServesTheDeclared'
    <3>1. CASE router' = router
      BY <1>1, <1>6, <3>1 DEF ServesTheDeclared
    <3>2. CASE router' # router
      <4>1. router = 0 /\ \A r \in Routers : ~server[r]
        BY <1>2, <3>2, OneRouterSteps
      <4>2. \A k \in Keys : callbacks'[k] = <<>>
        BY <1>1, <1>6, <4>1 DEF ServesTheDeclared
      <4>3. router' \in 0..MaxRouters
        BY TypePreserved DEF TypeOK
      <4>4. router' # 0 => ~server'[router']
        BY <1>6, <4>1, <4>3, RoutersAssumption DEF Routers
      <4>5. QED BY <4>2, <4>4 DEF ServesTheDeclared
    <3>3. QED BY <3>1, <3>2
  <2>2. Recorded'
    BY <1>1, <1>6 DEF Recorded
  <2>3. QED BY <2>1, <2>2
<1>7. ASSUME NEW c \in Calls, Step(c) PROVE ServesTheDeclared' /\ Recorded'
  BY <1>6, <1>7 DEF Step, spaceVars
<1>8. ASSUME NEW c \in Calls, NEW k \in Keys, Send(c, k) PROVE ServesTheDeclared' /\ Recorded'
  BY <1>6, <1>8 DEF Send
<1>9. CASE UNCHANGED vars
  BY <1>6, <1>9 DEF vars, spaceVars
<1>10. CASE SpaceStep
  BY <1>3, <1>6, <1>10, OneRouterSteps DEF SpaceStep, SpaceNext, NewRouter, Declare
<1>11. QED BY <1>4, <1>5, <1>7, <1>8, <1>9, <1>10
  DEF Next, CallStep, Dispatch, Lookup, DecodeFails, Respond, TimerFires, Unwind, HandlerEnds,
      Cancel, Swallow
-----------------------------------------------------------------------------
(* Calls. *)

\* The routers whose name it is by their own account.
Subscribed(k) == {r \in Routers : server[r] /\ k \in activated[r]}

\* What a step makes of a call: it gets a key when it begins, goes on to decode with a
\* callback from the table or after a handler, and runs what is registered then.
Begins(e, f) == e.pc = "idle" /\ f.pc = "sending" /\ f.key \in Keys /\ f.ran = e.ran
Dispatches(e, f) == /\ e.pc = "sending" /\ f.key = e.key /\ f.ran = e.ran
                    /\ \/ f.pc \in {"sending", "timeout", "cancelled"}
                       \/ /\ f.pc \in {"noroute", "dropped"}
                          /\ callbacks[e.key] = <<>> /\ f.due = Subscribed(e.key)
                       \/ f.pc = "decoding" /\ callbacks[e.key] # <<>>
LooksUp(e, f) == /\ e.pc = "decoding" /\ f.key = e.key
                 /\ \/ registry[e.key] = None /\ f.pc = "raised" /\ f.ran = e.ran
                    \/ /\ registry[e.key] # None /\ f.pc = "running"
                       /\ \E r \in Routers : f.ran = Append(e.ran, <<r, registry[e.key]>>)
GoesOn(e, f) == /\ e.pc \in {"decoding", "running", "encoding"}
                /\ f.key = e.key /\ f.ran = e.ran
                /\ f.pc \in {"decoding", "running", "encoding",
                             "result", "done", "garbled", "timeout", "cancelled"}
CallMoves(e, f) == \/ f = e
                   \/ /\ UNCHANGED registry
                      /\ Begins(e, f) \/ Dispatches(e, f) \/ LooksUp(e, f) \/ GoesOn(e, f)

LEMMA StepsOfCalls ==
    ASSUME TypeOK, CallsHaveKeys, [Next]_vars
    PROVE  \A c \in Calls : CallMoves(call[c], call'[c])
<1>1. ASSUME NEW c \in Calls, NEW f, Becomes(c, f), CallMoves(call[c], f)
      PROVE  \A d \in Calls : CallMoves(call[d], call'[d])
  <2>1. call'[c] = f /\ \A d \in Calls \ {c} : call'[d] = call[d]
    BY <1>1 DEF Becomes, TypeOK
  <2>2. QED BY <1>1, <2>1 DEF CallMoves
<1>2. CASE UNCHANGED call
  BY <1>2 DEF CallMoves
<1>3. ASSUME NEW c \in Calls, NEW k \in Keys, Send(c, k)
      PROVE  \A d \in Calls : CallMoves(call[d], call'[d])
  <2> DEFINE f == [call[c] EXCEPT !.pc = "sending", !.key = k]
  <2>1. Begins(call[c], f) /\ Becomes(c, f) /\ UNCHANGED registry
    BY <1>3 DEF Send, Begins, TypeOK, CallRecords
  <2>2. QED BY <1>1, <2>1 DEF CallMoves
<1>4. ASSUME NEW c \in Calls, Dispatch(c)
      PROVE  \A d \in Calls : CallMoves(call[d], call'[d])
  <2> DEFINE k == call[c].key
             f == [call[c] EXCEPT
                     !.todo = callbacks[k],
                     !.due = {r \in Routers : server[r] /\ k \in activated[r]},
                     !.wiped = wiped,
                     !.pc = IF callbacks[k] = <<>> THEN Unserved(k) ELSE "decoding"]
  <2>1. Becomes(c, f) /\ UNCHANGED registry /\ call[c].pc = "sending"
    BY <1>4 DEF Dispatch, Step, spaceVars
  <2>2. /\ f.key = k /\ f.ran = call[c].ran /\ f.due = Subscribed(k)
        /\ f.pc = IF callbacks[k] = <<>> THEN Unserved(k) ELSE "decoding"
    BY DEF TypeOK, CallRecords, Subscribed
  <2>3. Dispatches(call[c], f)
    BY <2>1, <2>2 DEF Dispatches, Unserved
  <2>4. QED BY <1>1, <2>1, <2>3 DEF CallMoves
<1>5. ASSUME NEW c \in Calls, Lookup(c)
      PROVE  \A d \in Calls : CallMoves(call[d], call'[d])
  <2> DEFINE e == call[c]
             item == registry[e.key]
             f == IF item = None THEN [e EXCEPT !.pc = "raised"]
                  ELSE [e EXCEPT !.pc = "running", !.todo = Tail(@),
                                 !.ran = Append(@, <<Head(e.todo), item>>)]
  <2>1. Becomes(c, f) /\ UNCHANGED registry /\ e.pc = "decoding"
    BY <1>5 DEF Lookup, Step, spaceVars
  <2>2. e.todo \in Seq(Routers) /\ e.todo # <<>>
    BY <2>1 DEF TypeOK, CallRecords
  <2>3. Head(e.todo) \in Routers
    BY <2>2
  <2>4. e \in CallRecords
    BY DEF TypeOK
  <2>5. CASE item = None
    BY <1>1, <2>1, <2>4, <2>5 DEF LooksUp, CallMoves, CallRecords
  <2>6. CASE item # None
    <3>1. f.pc = "running" /\ f.key = e.key /\ f.ran = Append(e.ran, <<Head(e.todo), item>>)
      BY <2>4, <2>6 DEF CallRecords
    <3>2. LooksUp(e, f)
      BY <2>1, <2>3, <2>6, <3>1 DEF LooksUp
    <3>3. QED BY <1>1, <2>1, <3>2 DEF CallMoves
  <2>7. QED BY <2>5, <2>6
<1>6. ASSUME NEW c \in Calls, HandlerEnds(c) \/ DecodeFails(c) \/ Respond(c)
      PROVE  \A d \in Calls : CallMoves(call[d], call'[d])
  <2>1. /\ GoesOn(call[c], AfterHandler(call[c])) \/ call[c].pc # "running"
        /\ \A how \in {"result", "garbled"} :
              GoesOn(call[c], [call[c] EXCEPT !.pc = how])
                \/ call[c].pc \notin {"decoding", "encoding"}
    BY DEF GoesOn, AfterHandler, TypeOK, CallRecords
  <2>2. UNCHANGED registry
    BY <1>6 DEF HandlerEnds, DecodeFails, Respond, Step, spaceVars
  <2>3. CASE HandlerEnds(c)
    BY <1>1, <2>1, <2>2, <2>3 DEF HandlerEnds, CallMoves
  <2>4. CASE DecodeFails(c) \/ Respond(c)
    <3>1. PICK how \in {"result", "garbled"} : Becomes(c, [call[c] EXCEPT !.pc = how])
      BY <2>4 DEF DecodeFails, Respond
    <3>2. call[c].pc \in {"decoding", "encoding"}
      BY <2>4 DEF DecodeFails, Respond
    <3>3. CallMoves(call[c], [call[c] EXCEPT !.pc = how])
      BY <2>1, <2>2, <3>2 DEF CallMoves
    <3>4. QED BY <1>1, <3>1, <3>3
  <2>5. QED BY <1>6, <2>3, <2>4
<1>7. ASSUME NEW c \in Calls, TimerFires(c) \/ Cancel(c) \/ Unwind(c) \/ Swallow(c)
      PROVE  \A d \in Calls : CallMoves(call[d], call'[d])
  <2> DEFINE e == call[c]
             f == call'[c]
  <2>1. e \in CallRecords
    BY DEF TypeOK
  <2>2. /\ UNCHANGED registry /\ f.key = e.key /\ f.ran = e.ran
        /\ e.pc \in {"sending", "decoding", "running", "encoding"}
        /\ f.pc = e.pc \/ f.pc \in {"timeout", "cancelled"}
        /\ Becomes(c, f)
    <3> DEFINE Moved(g) == Becomes(c, g) => f = g
    <3>1. \A g : Moved(g)
      BY DEF Becomes, TypeOK
    <3>2. CASE TimerFires(c)
      BY <2>1, <3>1, <3>2 DEF TimerFires, Goes, InFlight, Step, spaceVars, CallRecords
    <3>3. CASE Cancel(c)
      BY <2>1, <3>1, <3>3 DEF Cancel, InFlight, Step, spaceVars, CallRecords
    <3>4. CASE Unwind(c)
      BY <2>1, <3>1, <3>4 DEF Unwind, InFlight, Step, spaceVars, CallRecords
    <3>5. CASE Swallow(c)
      BY <2>1, <3>1, <3>5 DEF Swallow, Step, spaceVars, CallRecords
    <3>6. QED BY <1>7, <3>2, <3>3, <3>4, <3>5
  <2>3. Dispatches(e, f) \/ GoesOn(e, f)
    BY <2>2 DEF Dispatches, GoesOn
  <2>4. QED BY <1>1, <2>2, <2>3 DEF CallMoves
<1>8. QED BY <1>2, <1>3, <1>4, <1>5, <1>6, <1>7
  DEF Next, SpaceStep, Activate, Deactivate, CallStep, vars

\* A move keeps the names and what ran in step with the registry.
LEMMA CallsPreserved ==
    TypeOK /\ CallsHaveKeys /\ RoutersMade /\ ServesTheDeclared /\ Recorded
        /\ KeysRegistered /\ RunsTheDeclared /\ FailuresAreOwn /\ [Next]_vars
        => CallsHaveKeys' /\ KeysRegistered' /\ RunsTheDeclared' /\ FailuresAreOwn'
<1> SUFFICES ASSUME TypeOK, CallsHaveKeys, RoutersMade, ServesTheDeclared, Recorded,
                    KeysRegistered, RunsTheDeclared, FailuresAreOwn, [Next]_vars
             PROVE  CallsHaveKeys' /\ KeysRegistered' /\ RunsTheDeclared' /\ FailuresAreOwn'
  OBVIOUS
<1>1. \A c \in Calls : CallMoves(call[c], call'[c])
  BY StepsOfCalls
<1>2. \A c \in Calls : call[c] \in CallRecords
  BY DEF TypeOK
<1>3. CallsHaveKeys'
  <2>1. ASSUME NEW c \in Calls
        PROVE  /\ call'[c].pc # "idle" => call'[c].key \in Keys
               /\ call'[c].pc \in {"idle", "sending"} => call'[c].ran = <<>>
    BY <1>1, <2>1 DEF CallsHaveKeys, CallMoves, Begins, Dispatches, LooksUp, GoesOn
  <2>2. QED BY <2>1 DEF CallsHaveKeys
<1>4. SUFFICES ASSUME OneRouter'
               PROVE  KeysRegistered' /\ RunsTheDeclared' /\ FailuresAreOwn'
  BY <1>3 DEF KeysRegistered, RunsTheDeclared, FailuresAreOwn
<1>5. OneRouter
  BY <1>4, OneRouterSteps
<1>6. \A k \in Keys : registry[k] # None => registry'[k] = registry[k]
  <2>1. CASE registry' = registry
    BY <2>1
  <2>2. ASSUME NEW f \in Functions, Register(f)
        PROVE  \A k \in Keys : registry[k] # None => registry'[k] = registry[k]
    BY <2>2 DEF Register, TypeOK
  <2>3. QED BY <1>4, <2>1, <2>2, OneRouterSteps
<1>7. \A k \in Keys : callbacks[k] # <<>> => registry[k] # None
  BY <1>5 DEF ServesTheDeclared
<1>8. ASSUME NEW k \in Keys, callbacks[k] = <<>> PROVE Subscribed(k) = {}
  <2>1. SUFFICES ASSUME NEW r \in Routers, server[r], k \in activated[r] PROVE FALSE
    BY DEF Subscribed
  <2>2. r = router /\ router # 0
    BY <1>5, <2>1, RoutersAssumption DEF RoutersMade, OneRouter, Routers, TypeOK
  <2>3. registry[k] # None
    BY <1>5, <2>1 DEF Recorded
  <2>4. QED BY <1>5, <1>8, <2>1, <2>2, <2>3 DEF ServesTheDeclared
<1>9. ASSUME NEW c \in Calls
      PROVE  /\ call'[c].pc \in {"decoding", "running", "encoding"}
                    => registry'[call'[c].key] # None
             /\ call'[c].pc # "raised"
             /\ call'[c].pc \in {"noroute", "dropped"} => call'[c].due = {}
             /\ \A i \in DOMAIN call'[c].ran : call'[c].ran[i][2] = registry'[call'[c].key]
  <2> DEFINE e == call[c]
             f == call'[c]
  <2>1. CallMoves(e, f)
    BY <1>1
  <2>2. /\ e.pc # "raised" /\ (e.pc \in {"noroute", "dropped"} => e.due = {})
        /\ e.pc \in {"decoding", "running", "encoding"} => registry[e.key] # None
        /\ \A i \in DOMAIN e.ran : e.ran[i][2] = registry[e.key]
    BY <1>5 DEF FailuresAreOwn, KeysRegistered, RunsTheDeclared
  <2>3. /\ e.pc # "idle" => e.key \in Keys
        /\ e.pc \in {"idle", "sending"} => e.ran = <<>>
    BY DEF CallsHaveKeys
  <2>4. CASE f = e
    <3>1. e.pc \in {"decoding", "running", "encoding"} => registry'[e.key] # None
      BY <1>6, <2>2, <2>3
    <3>2. ASSUME NEW i \in DOMAIN e.ran PROVE e.ran[i][2] = registry'[e.key]
      <4>1. e.ran \in Seq(Routers \X Functions) /\ e.ran # <<>>
        BY <1>2, <3>2 DEF CallRecords
      <4>2. e.key \in Keys
        BY <2>3, <4>1
      <4>3. e.ran[i] \in Routers \X Functions
        BY <3>2, <4>1
      <4>4. e.ran[i][2] \in Functions
        BY <4>3
      <4>5. registry[e.key] # None
        BY <2>2, <3>2, <4>4, KeysOfFunctions
      <4>6. QED BY <1>6, <2>2, <3>2, <4>2, <4>5
    <3>3. QED BY <2>2, <2>4, <3>1, <3>2
  <2>5. CASE UNCHANGED registry /\ Begins(e, f)
    BY <2>3, <2>5 DEF Begins
  <2>6. CASE UNCHANGED registry /\ Dispatches(e, f)
    <3>1. e.ran = <<>> /\ e.key \in Keys
      BY <2>3, <2>6 DEF Dispatches
    <3>2. QED BY <1>7, <1>8, <2>6, <3>1 DEF Dispatches
  <2>7. CASE UNCHANGED registry /\ LooksUp(e, f)
    <3>1. PICK r \in Routers : f.ran = Append(e.ran, <<r, registry[e.key]>>)
      BY <2>2, <2>7 DEF LooksUp
    <3>2. f.pc = "running" /\ f.key = e.key /\ registry' = registry /\ registry[e.key] # None
      BY <2>2, <2>7 DEF LooksUp
    <3>3. e.ran \in Seq(Routers \X Functions)
      BY <1>2 DEF CallRecords
    <3>4. ASSUME NEW i \in DOMAIN f.ran PROVE f.ran[i][2] = registry[e.key]
      <4>1. i \in 1..Len(e.ran) \/ i = Len(e.ran) + 1
        BY <3>1, <3>3, <3>4
      <4>2. CASE i \in 1..Len(e.ran)
        <5>1. f.ran[i] = e.ran[i] /\ i \in DOMAIN e.ran
          BY <3>1, <3>3, <4>2
        <5>2. QED BY <2>2, <5>1
      <4>3. CASE i = Len(e.ran) + 1
        BY <3>1, <3>3, <4>3
      <4>4. QED BY <4>1, <4>2, <4>3
    <3>5. QED BY <3>2, <3>4
  <2>8. CASE UNCHANGED registry /\ GoesOn(e, f)
    BY <2>2, <2>8 DEF GoesOn
  <2>9. QED BY <2>1, <2>4, <2>5, <2>6, <2>7, <2>8 DEF CallMoves
<1>10. QED BY <1>9 DEF KeysRegistered, RunsTheDeclared, FailuresAreOwn

LEMMA StepPreserves == IInv /\ [Next]_vars => IInv'
BY TypePreserved, RoutersMadePreserved, ServicePreserved, CallsPreserved DEF IInv

LEMMA Invariance == Spec => []IInv
<1>1. QED BY InitEstablishes, StepPreserves, PTL DEF Spec
-----------------------------------------------------------------------------
(* The contract of send_request. *)

\* What the contract sees of a call: Rpc(e) is IsRpc of its record, and so on.
Rpc(e) == e.key # None /\ e.key[1] = "rpc"
Live(e) == e.pc \in {"sending", "decoding", "running", "encoding"}
Seen(e) == IF ~Rpc(e) THEN "idle" ELSE IF Live(e) THEN "inflight"
           ELSE IF e.pc = "raised" THEN "noroute"
           ELSE IF e.pc = "garbled" THEN (IF e.answered THEN "result" ELSE "noroute")
           ELSE e.pc
Asked(e) == Rpc(e) /\ e.asked

\* Every step towards an outcome has its cause on record.
Evidence == \A c \in Calls : LET e == call[c] IN
    /\ e.pc = "idle" => e.key = None /\ ~e.answered /\ ~e.asked /\ e.cause = "none"
    /\ Rpc(e) /\ e.pc \in {"sending", "decoding", "running"} => ~e.answered
    /\ Rpc(e) /\ e.pc = "encoding" => e.answered
    /\ e.cause = "timeout" => Rpc(e) /\ c \in Timed
    /\ e.cause = "cancelled" => e.asked
    /\ ~Rpc(e) => ~e.answered

\* What a step may make of a call as the contract sees it.
SameSeen(e, f) == Seen(f) = Seen(e) /\ (f.answered <=> e.answered) /\ (Asked(f) <=> Asked(e))
Starts(e, f) == /\ Seen(e) = "idle" /\ Seen(f) = "inflight"
                /\ (f.answered <=> e.answered) /\ (Asked(f) <=> Asked(e))
Answers(e, f) == /\ Seen(e) = "inflight" /\ Seen(f) = "inflight"
                 /\ f.answered /\ (Asked(f) <=> Asked(e))
CancelAsked(e, f) == /\ Seen(e) = "inflight" /\ Seen(f) = "inflight"
                     /\ (f.answered <=> e.answered) /\ Asked(f)
EndsAs(c, e, f) == /\ Seen(e) = "inflight"
                   /\ (f.answered <=> e.answered) /\ (Asked(f) <=> Asked(e))
                   /\ \/ Seen(f) = "result" /\ e.answered
                      \/ Seen(f) = "noroute" /\ ~e.answered
                      \/ Seen(f) = "timeout" /\ c \in Timed
                      \/ Seen(f) = "cancelled" /\ Asked(e)
ContractMove(c, e, f) == \/ SameSeen(e, f) \/ Starts(e, f) \/ Answers(e, f)
                         \/ CancelAsked(e, f) \/ EndsAs(c, e, f)

ContractStep == [Contract!Next]_(Contract!vars)
statuses == [c \in Calls |-> Seen(call[c])]
answers == {c \in Calls : call[c].answered}
cancels == {c \in Calls : Asked(call[c])}

LEMMA ContractState == /\ Contract!vars = <<statuses, answers, cancels>>
                       /\ Contract!vars' = <<statuses', answers', cancels'>>
<1>1. \A e : SeenAs(e) = Seen(e)
  BY DEF SeenAs, Seen, Live, Rpc
<1>2. QED BY <1>1 DEF Contract!vars, statuses, answers, cancels, Rpc, Asked, IsRpc

\* A call that becomes f moves the contract's state at that call only.
LEMMA SeenAfter == ASSUME TypeOK, NEW c \in Calls, NEW f, Becomes(c, f)
    PROVE /\ statuses' = [statuses EXCEPT ![c] = Seen(f)] /\ statuses[c] = Seen(call[c])
          /\ (f.answered <=> call[c].answered) => answers' = answers
          /\ f.answered => answers' = answers \cup {c}
          /\ (Asked(f) <=> Asked(call[c])) => cancels' = cancels
          /\ Asked(f) => cancels' = cancels \cup {c}
<1>1. call'[c] = f /\ \A d \in Calls \ {c} : call'[d] = call[d]
  BY DEF Becomes, TypeOK
<1>2. statuses' = [statuses EXCEPT ![c] = Seen(f)] /\ statuses[c] = Seen(call[c])
  BY <1>1 DEF statuses
<1>3. /\ (f.answered <=> call[c].answered) => answers' = answers
      /\ f.answered => answers' = answers \cup {c}
  BY <1>1 DEF answers
<1>4. /\ (Asked(f) <=> Asked(call[c])) => cancels' = cancels
      /\ Asked(f) => cancels' = cancels \cup {c}
  BY <1>1 DEF cancels
<1>5. QED BY <1>2, <1>3, <1>4

LEMMA MoveImplements ==
    ASSUME TypeOK, NEW c \in Calls, NEW f, Becomes(c, f), ContractMove(c, call[c], f)
    PROVE  ContractStep
<1> DEFINE e == call[c]
<1>0. /\ statuses' = [statuses EXCEPT ![c] = Seen(f)] /\ statuses[c] = Seen(e)
      /\ (f.answered <=> e.answered) => answers' = answers
      /\ f.answered => answers' = answers \cup {c}
      /\ (Asked(f) <=> Asked(e)) => cancels' = cancels
      /\ Asked(f) => cancels' = cancels \cup {c}
  BY SeenAfter
<1> USE <1>0
<1> HIDE DEF e
<1>1. CASE SameSeen(e, f)
  <2>1. statuses' = [statuses EXCEPT ![c] = statuses[c]]
    BY <1>1 DEF SameSeen
  <2>2. statuses' = statuses
    BY <2>1 DEF statuses
  <2>3. answers' = answers /\ cancels' = cancels
    BY <1>1 DEF SameSeen
  <2>4. QED BY <2>2, <2>3, ContractState DEF ContractStep
<1>2. CASE Starts(e, f)
  <2>1. Contract!Start(c)
    BY <1>2, ContractState DEF Starts, Contract!Start, Contract!vars
  <2>2. QED BY <2>1 DEF ContractStep, Contract!Next
<1>3. CASE Answers(e, f)
  <2>1. statuses' = statuses
    BY <1>3 DEF Answers, statuses
  <2>2. Contract!Answer(c)
    BY <1>3, <2>1, ContractState DEF Answers, Contract!Answer, Contract!vars
  <2>3. QED BY <2>2 DEF ContractStep, Contract!Next
<1>4. CASE CancelAsked(e, f)
  <2>1. statuses' = statuses
    BY <1>4 DEF CancelAsked, statuses
  <2>2. Contract!Cancel(c)
    BY <1>4, <2>1, ContractState DEF CancelAsked, Contract!Cancel, Contract!vars
  <2>3. QED BY <2>2 DEF ContractStep, Contract!Next
<1>5. CASE EndsAs(c, e, f)
  <2>1. Contract!MayEnd(c, Seen(f)) /\ Seen(f) \in Contract!Outcomes
    BY <1>5, ContractState
    DEF EndsAs, Contract!MayEnd, Contract!Outcomes, Contract!vars, answers, cancels, e
  <2>2. Contract!End(c)
    BY <1>5, <2>1, ContractState DEF EndsAs, Contract!End, Contract!vars
  <2>3. QED BY <2>2 DEF ContractStep, Contract!Next
<1>6. QED BY <1>1, <1>2, <1>3, <1>4, <1>5 DEF ContractMove, e

\* Evidence, of a call that becomes f.
Kept(c, f) == /\ f.pc = "idle" => f.key = None /\ ~f.answered /\ ~f.asked /\ f.cause = "none"
              /\ Rpc(f) /\ f.pc \in {"sending", "decoding", "running"} => ~f.answered
              /\ Rpc(f) /\ f.pc = "encoding" => f.answered
              /\ f.cause = "timeout" => Rpc(f) /\ c \in Timed
              /\ f.cause = "cancelled" => f.asked
              /\ ~Rpc(f) => ~f.answered

\* Each step of a call is one the contract allows, and leaves evidence of what it did.
LEMMA CallImplements ==
    ASSUME TypeOK, CallsHaveKeys, Evidence, [Next]_vars
    PROVE  \/ UNCHANGED call
           \/ \E c \in Calls : \E f : Becomes(c, f) /\ ContractMove(c, call[c], f) /\ Kept(c, f)
<1> DEFINE Good(c, f) == Becomes(c, f) /\ ContractMove(c, call[c], f) /\ Kept(c, f)
<1>1. ASSUME NEW c \in Calls
      PROVE  call[c] \in CallRecords /\ Kept(c, call[c])
  BY DEF TypeOK, Evidence, Kept
<1>2. ASSUME NEW c \in Calls, NEW k \in Keys, Send(c, k) PROVE \E f : Good(c, f)
  <2> DEFINE f == [call[c] EXCEPT !.pc = "sending", !.key = k]
  <2>1. Becomes(c, f) /\ call[c].pc = "idle"
    BY <1>2 DEF Send
  <2>2. /\ f.pc = "sending" /\ f.answered = call[c].answered /\ f.asked = call[c].asked
        /\ f.cause = call[c].cause
    BY <1>1 DEF CallRecords
  <2>3. ~call[c].answered /\ ~call[c].asked /\ call[c].cause = "none" /\ call[c].key = None
    BY <1>1, <2>1 DEF Kept
  <2> HIDE DEF f
  <2>4. Kept(c, f)
    BY <2>2, <2>3 DEF Kept
  <2>5. ContractMove(c, call[c], f)
    BY <2>2, <2>3 DEF ContractMove, SameSeen, Starts, Seen, Rpc, Live, Asked
  <2>6. QED BY <2>1, <2>4, <2>5
<1>3. ASSUME NEW c \in Calls, Dispatch(c) PROVE \E f : Good(c, f)
  <2> DEFINE k == call[c].key
             f == [call[c] EXCEPT
                     !.todo = callbacks[k],
                     !.due = {r \in Routers : server[r] /\ k \in activated[r]},
                     !.wiped = wiped,
                     !.pc = IF callbacks[k] = <<>> THEN Unserved(k) ELSE "decoding"]
  <2>1. Becomes(c, f) /\ call[c].pc = "sending" /\ call[c].cause = "none"
    BY <1>3 DEF Dispatch, Goes
  <2>2. /\ f.key = k /\ f.answered = call[c].answered /\ f.asked = call[c].asked
        /\ f.cause = call[c].cause
        /\ f.pc = IF callbacks[k] = <<>> THEN Unserved(k) ELSE "decoding"
    BY <1>1 DEF CallRecords
  <2>3. f.pc = "decoding" \/ (f.pc = "noroute" /\ k[1] = "rpc") \/ (f.pc = "dropped" /\ k[1] # "rpc")
    BY <2>2 DEF Unserved
  <2> HIDE DEF f
  <2>4. Kept(c, f)
    BY <1>1, <2>1, <2>2, <2>3 DEF Kept, Rpc
  <2>5. ContractMove(c, call[c], f)
    BY <1>1, <2>1, <2>2, <2>3 DEF Kept, ContractMove, SameSeen, EndsAs, Seen, Rpc, Live, Asked
  <2>6. QED BY <2>1, <2>4, <2>5
<1>4. ASSUME NEW c \in Calls, Lookup(c) PROVE \E f : Good(c, f)
  <2> DEFINE e == call[c]
             item == registry[e.key]
             f == IF item = None THEN [e EXCEPT !.pc = "raised"]
                  ELSE [e EXCEPT !.pc = "running", !.todo = Tail(@),
                                 !.ran = Append(@, <<Head(e.todo), item>>)]
  <2>1. Becomes(c, f) /\ e.pc = "decoding" /\ e.cause = "none"
    BY <1>4 DEF Lookup, Goes
  <2>2. /\ f.key = e.key /\ f.answered = e.answered /\ f.asked = e.asked /\ f.cause = e.cause
        /\ f.pc \in {"raised", "running"}
    BY <1>1 DEF CallRecords
  <2> HIDE DEF f
  <2>3. Kept(c, f)
    BY <1>1, <2>1, <2>2 DEF Kept, Rpc
  <2>4. ContractMove(c, e, f)
    BY <1>1, <2>1, <2>2 DEF Kept, ContractMove, SameSeen, EndsAs, Seen, Rpc, Live, Asked
  <2>5. QED BY <2>1, <2>3, <2>4
<1>5. ASSUME NEW c \in Calls, HandlerEnds(c) PROVE \E f : Good(c, f)
  <2> DEFINE e == call[c]
             f == AfterHandler(e)
  <2>1. Becomes(c, f) /\ e.pc = "running" /\ e.cause = "none"
    BY <1>5 DEF HandlerEnds, Goes
  <2>2. /\ f.key = e.key /\ f.asked = e.asked /\ f.cause = e.cause
        /\ e.key[1] = "rpc" => f.pc = "encoding" /\ f.answered
        /\ e.key[1] # "rpc" => f.pc \in {"done", "decoding"} /\ f.answered = e.answered
    BY <1>1 DEF AfterHandler, CallRecords
  <2> HIDE DEF f
  <2>3. CASE Rpc(e)
    <3>1. Kept(c, f)
      BY <1>1, <2>1, <2>2, <2>3 DEF Kept, Rpc
    <3>2. Answers(e, f)
      BY <2>1, <2>2, <2>3 DEF Answers, Seen, Rpc, Live, Asked
    <3>3. QED BY <2>1, <3>1, <3>2 DEF ContractMove
  <2>4. CASE ~Rpc(e) /\ e.key[1] # "rpc"
    <3>1. Kept(c, f)
      BY <1>1, <2>1, <2>2, <2>4 DEF Kept, Rpc
    <3>2. SameSeen(e, f)
      BY <2>1, <2>2, <2>4 DEF SameSeen, Seen, Rpc, Live, Asked
    <3>3. QED BY <2>1, <3>1, <3>2 DEF ContractMove
  <2>5. e.key # None
    BY <2>1, KeyAssumption DEF CallsHaveKeys
  <2>6. QED BY <2>3, <2>4, <2>5 DEF Rpc
<1>6. ASSUME NEW c \in Calls, DecodeFails(c) \/ Respond(c) PROVE \E f : Good(c, f)
  <2> DEFINE e == call[c]
             f(how) == [e EXCEPT !.pc = how]
  <2>1. /\ e.pc \in {"decoding", "encoding"} /\ e.cause = "none"
        /\ Becomes(c, f("garbled")) \/ (e.pc = "encoding" /\ Becomes(c, f("result")))
    BY <1>6 DEF DecodeFails, Respond, Goes
  <2>2. ASSUME NEW how
        PROVE  /\ f(how).key = e.key /\ f(how).answered = e.answered /\ f(how).asked = e.asked
               /\ f(how).cause = e.cause /\ f(how).pc = how
    BY <1>1 DEF CallRecords
  <2> HIDE DEF f
  <2>3. Kept(c, f("garbled")) /\ Kept(c, f("result"))
    BY <1>1, <2>1, <2>2 DEF Kept, Rpc
  <2>4. /\ ContractMove(c, e, f("garbled"))
        /\ e.pc = "encoding" => ContractMove(c, e, f("result"))
    BY <1>1, <2>1, <2>2 DEF Kept, ContractMove, SameSeen, EndsAs, Seen, Rpc, Live, Asked
  <2>5. QED BY <2>1, <2>3, <2>4
<1>7. ASSUME NEW c \in Calls, TimerFires(c) PROVE \E f : Good(c, f)
  <2> DEFINE e == call[c]
             f == [e EXCEPT !.cause = "timeout", !.fired = TRUE]
  <2>1. Becomes(c, f) /\ Live(e) /\ Rpc(e) /\ c \in Timed
    BY <1>7 DEF TimerFires, Goes, InFlight, Live, IsRpc, Rpc, HasTimer
  <2>2. /\ f.key = e.key /\ f.answered = e.answered /\ f.asked = e.asked /\ f.cause = "timeout"
        /\ f.pc = e.pc
    BY <1>1 DEF CallRecords
  <2> HIDE DEF f
  <2>3. Kept(c, f)
    BY <1>1, <2>1, <2>2 DEF Kept, Rpc, Live
  <2>4. ContractMove(c, e, f)
    BY <2>2 DEF ContractMove, SameSeen, Seen, Rpc, Live, Asked
  <2>5. QED BY <2>1, <2>3, <2>4
<1>8. ASSUME NEW c \in Calls, Cancel(c) PROVE \E f : Good(c, f)
  <2> DEFINE e == call[c]
             f == [e EXCEPT !.cause = "cancelled", !.asked = TRUE]
  <2>1. Becomes(c, f) /\ Live(e)
    BY <1>8 DEF Cancel, InFlight, Live
  <2>2. /\ f.key = e.key /\ f.answered = e.answered /\ f.asked /\ f.cause = "cancelled"
        /\ f.pc = e.pc
    BY <1>1 DEF CallRecords
  <2> HIDE DEF f
  <2>3. Kept(c, f)
    BY <1>1, <2>1, <2>2 DEF Kept, Rpc, Live
  <2>4. ContractMove(c, e, f)
    BY <2>1, <2>2 DEF ContractMove, SameSeen, CancelAsked, Seen, Rpc, Live, Asked
  <2>5. QED BY <2>1, <2>3, <2>4
<1>9. ASSUME NEW c \in Calls, Unwind(c) PROVE \E f : Good(c, f)
  <2> DEFINE e == call[c]
             f == [e EXCEPT !.pc = e.cause, !.cause = "none"]
  <2>1. Becomes(c, f) /\ Live(e) /\ e.cause \in {"timeout", "cancelled"}
    BY <1>1, <1>9 DEF Unwind, InFlight, Live, CallRecords
  <2>2. /\ f.key = e.key /\ f.answered = e.answered /\ f.asked = e.asked /\ f.cause = "none"
        /\ f.pc = e.cause
    BY <1>1 DEF CallRecords
  <2> HIDE DEF f
  <2>3. Kept(c, f)
    BY <1>1, <2>1, <2>2 DEF Kept, Rpc, Live
  <2>4. ContractMove(c, e, f)
    BY <1>1, <2>1, <2>2 DEF Kept, ContractMove, SameSeen, EndsAs, Seen, Rpc, Live, Asked
  <2>5. QED BY <2>1, <2>3, <2>4
<1>10. ASSUME NEW c \in Calls, Swallow(c) PROVE \E f : Good(c, f)
  <2> DEFINE e == call[c]
             f == [e EXCEPT !.cause = "none", !.swallowed = TRUE]
  <2>1. Becomes(c, f) /\ e.pc = "running"
    BY <1>10 DEF Swallow
  <2>2. /\ f.key = e.key /\ f.answered = e.answered /\ f.asked = e.asked /\ f.cause = "none"
        /\ f.pc = e.pc
    BY <1>1 DEF CallRecords
  <2> HIDE DEF f
  <2>3. Kept(c, f)
    BY <1>1, <2>1, <2>2 DEF Kept, Rpc
  <2>4. ContractMove(c, e, f)
    BY <2>2 DEF ContractMove, SameSeen, Seen, Rpc, Live, Asked
  <2>5. QED BY <2>1, <2>3, <2>4
<1>11. QED BY <1>2, <1>3, <1>4, <1>5, <1>6, <1>7, <1>8, <1>9, <1>10
  DEF Next, SpaceStep, Activate, Deactivate, CallStep, vars

LEMMA EvidencePreserved == TypeOK /\ CallsHaveKeys /\ Evidence /\ [Next]_vars => Evidence'
<1>1. SUFFICES ASSUME TypeOK, CallsHaveKeys, Evidence, [Next]_vars PROVE Evidence'
  OBVIOUS
<1>2. CASE UNCHANGED call
  BY <1>1, <1>2 DEF Evidence
<1>3. ASSUME NEW c \in Calls, NEW f, Becomes(c, f), Kept(c, f) PROVE Evidence'
  <2>1. call'[c] = f /\ \A d \in Calls \ {c} : call'[d] = call[d]
    BY <1>1, <1>3 DEF Becomes, TypeOK
  <2>2. QED BY <1>1, <1>3, <2>1 DEF Evidence, Kept
<1>4. QED BY <1>1, <1>2, <1>3, CallImplements

LEMMA StepImplements == TypeOK /\ CallsHaveKeys /\ Evidence /\ [Next]_vars => ContractStep
<1>1. SUFFICES ASSUME TypeOK, CallsHaveKeys, Evidence, [Next]_vars PROVE ContractStep
  OBVIOUS
<1>2. CASE UNCHANGED call
  BY <1>2, ContractState DEF ContractStep, statuses, answers, cancels
<1>3. QED BY <1>1, <1>2, CallImplements, MoveImplements
-----------------------------------------------------------------------------
(* The copies of a broadcast. *)

\* A sequence of routers that are exactly the given ones, each once.
Each(s, routers) == /\ {s[i] : i \in DOMAIN s} = routers
                    /\ \A i, j \in DOMAIN s : i # j => s[i] # s[j]

\* Until a router is deactivated under another, the table for a broadcast holds the active
\* routers that subscribed it.
TableIsActive == ~wiped => \A k \in Keys : k[1] = "broadcast" => Each(callbacks[k], Subscribed(k))

\* A publisher's loop has run some of the copies that were due and still has the rest.
Shares(e) == \E rest \in SUBSET e.due :
    /\ Each(e.todo, rest)
    /\ Each([i \in DOMAIN e.ran |-> e.ran[i][1]], e.due \ rest)
Copied(e) == e.pc \in {"decoding", "running", "done"} /\ e.key[1] = "broadcast" /\ ~e.wiped =>
                 Shares(e) /\ (e.pc = "done" => e.todo = <<>>)
CopiesMatch == \A c \in Calls : Copied(call[c])

LEMMA EachOneMore ==
    ASSUME NEW s, NEW R, Each(s, R), NEW r, r \notin R, NEW n, n \notin DOMAIN s,
           NEW g, DOMAIN g = DOMAIN s \cup {n}, g[n] = r, \A i \in DOMAIN s : g[i] = s[i]
    PROVE  Each(g, R \cup {r})
BY DEF Each

LEMMA EachTail == ASSUME NEW S, NEW s \in Seq(S), s # <<>>, NEW R, Each(s, R)
                  PROVE Head(s) \in R /\ Each(Tail(s), R \ {Head(s)})
<1>1. /\ Head(s) = s[1] /\ 1 \in DOMAIN s /\ DOMAIN s = 1..Len(s) /\ Len(s) \in Nat \ {0}
      /\ DOMAIN Tail(s) = 1..(Len(s) - 1)
      /\ \A i \in DOMAIN Tail(s) : Tail(s)[i] = s[i + 1]
  OBVIOUS
<1>2. \A i \in DOMAIN Tail(s) : i + 1 \in DOMAIN s /\ i + 1 # 1
  BY <1>1
<1>3. \A i \in DOMAIN s : i = 1 \/ (i - 1 \in DOMAIN Tail(s) /\ (i - 1) + 1 = i)
  BY <1>1
<1>4. {Tail(s)[i] : i \in DOMAIN Tail(s)} = R \ {Head(s)}
  <2>1. \A i \in DOMAIN Tail(s) : Tail(s)[i] \in R /\ Tail(s)[i] # Head(s)
    BY <1>1, <1>2 DEF Each
  <2>2. ASSUME NEW x \in R, x # Head(s) PROVE \E i \in DOMAIN Tail(s) : Tail(s)[i] = x
    <3>1. PICK i \in DOMAIN s : s[i] = x
      BY <2>2 DEF Each
    <3>2. i - 1 \in DOMAIN Tail(s) /\ Tail(s)[i - 1] = x
      BY <1>1, <1>3, <2>2, <3>1
    <3>3. QED BY <3>2
  <2>3. QED BY <2>1, <2>2
<1>5. ASSUME NEW i \in DOMAIN Tail(s), NEW j \in DOMAIN Tail(s), i # j PROVE Tail(s)[i] # Tail(s)[j]
  BY <1>1, <1>2, <1>5 DEF Each
<1>6. Head(s) \in R
  BY <1>1 DEF Each
<1>7. QED BY <1>4, <1>5, <1>6 DEF Each

LEMMA TablePreserved == TypeOK /\ TableIsActive /\ [Next]_vars => TableIsActive'
<1>1. SUFFICES ASSUME TypeOK, TableIsActive, [Next]_vars PROVE TableIsActive'
  OBVIOUS
<1>2. ASSUME UNCHANGED <<server, callbacks, activated, wiped>> PROVE TableIsActive'
  BY <1>1, <1>2 DEF TableIsActive, Subscribed
<1>3. ASSUME NEW r \in Routers, Activate(r) PROVE TableIsActive'
  <2>1. SUFFICES ASSUME ~wiped, NEW k \in Keys, k[1] = "broadcast"
                 PROVE Each(callbacks'[k], Subscribed(k)')
    BY <1>3 DEF Activate, TableIsActive
  <2>2. Each(callbacks[k], Subscribed(k)) /\ callbacks[k] \in Seq(Routers)
    BY <1>1, <2>1 DEF TableIsActive, TypeOK
  <2>3. /\ ~server[r] /\ server' = [server EXCEPT ![r] = TRUE]
        /\ activated' = [activated EXCEPT ![r] = {l \in Keys : registry[l] # None}]
        /\ callbacks'[k] = IF registry[k] # None THEN Append(callbacks[k], r) ELSE callbacks[k]
    BY <1>3, <2>1 DEF Activate, AddCallback
  <2>4. r \notin Subscribed(k)
    BY <2>3 DEF Subscribed
  <2>5. Subscribed(k)' = IF registry[k] # None THEN Subscribed(k) \cup {r} ELSE Subscribed(k)
    BY <1>1, <2>3 DEF Subscribed, TypeOK
  <2>6. CASE registry[k] # None
    <3> DEFINE s == callbacks[k]
               g == Append(s, r)
               n == Len(s) + 1
    <3>1. /\ DOMAIN g = DOMAIN s \cup {n} /\ n \notin DOMAIN s
          /\ g[n] = r /\ \A i \in DOMAIN s : g[i] = s[i]
      BY <2>2
    <3>2. Each(s, Subscribed(k))
      BY <2>2
    <3>3. callbacks'[k] = g
      BY <2>3, <2>6
    <3> HIDE DEF s, g, n
    <3>4. Each(g, Subscribed(k) \cup {r})
      BY <2>4, <3>1, <3>2, EachOneMore
    <3>5. QED BY <2>5, <2>6, <3>3, <3>4
  <2>7. CASE registry[k] = None
    BY <2>2, <2>3, <2>5, <2>7
  <2>8. QED BY <2>6, <2>7
<1>4. ASSUME NEW r \in Routers, Deactivate(r) PROVE TableIsActive'
  <2>1. SUFFICES ASSUME ~wiped', NEW k \in Keys, k[1] = "broadcast"
                 PROVE Each(callbacks'[k], Subscribed(k)')
    BY DEF TableIsActive
  <2>2. ~wiped /\ \A q \in Routers \ {r} : ~server[q]
    BY <1>4, <2>1 DEF Deactivate
  <2>3. Each(callbacks[k], Subscribed(k)) /\ callbacks[k] \in Seq(Routers)
    BY <1>1, <2>1, <2>2 DEF TableIsActive, TypeOK
  <2>4. Subscribed(k)' = {}
    BY <1>1, <1>4, <2>2 DEF Deactivate, Subscribed, TypeOK
  <2>5. callbacks'[k] = IF k \in activated[r] THEN <<>> ELSE callbacks[k]
    BY <1>4 DEF Deactivate, Dropped
  <2>6. Each(<<>>, {})
    BY DEF Each
  <2>7. k \notin activated[r] => Subscribed(k) = {}
    BY <2>2 DEF Subscribed
  <2>8. QED BY <2>3, <2>4, <2>5, <2>6, <2>7
<1>5. ASSUME NEW c \in Calls, Step(c) PROVE TableIsActive'
  BY <1>2, <1>5 DEF Step, spaceVars
<1>6. ASSUME NEW c \in Calls, NEW k \in Keys, Send(c, k) PROVE TableIsActive'
  BY <1>2, <1>6 DEF Send
<1>7. CASE SpaceStep
  BY <1>2, <1>7 DEF SpaceStep, SpaceNext, NewRouter, Declare
<1>8. CASE UNCHANGED vars
  BY <1>2, <1>8 DEF vars, spaceVars
<1>9. QED BY <1>1, <1>3, <1>4, <1>5, <1>6, <1>7, <1>8
  DEF Next, CallStep, Dispatch, Lookup, DecodeFails, Respond, TimerFires, Unwind, HandlerEnds,
      Cancel, Swallow

LEMMA CopiesPreserved ==
    TypeOK /\ CallsHaveKeys /\ TableIsActive /\ CopiesMatch /\ [Next]_vars => CopiesMatch'
<1>1. SUFFICES ASSUME TypeOK, CallsHaveKeys, TableIsActive, CopiesMatch, [Next]_vars
               PROVE  \A c \in Calls : Copied(call'[c])
  BY DEF CopiesMatch, Copied, Shares, Each
<1>2. \A c \in Calls : call[c] \in CallRecords /\ Copied(call[c])
  BY <1>1 DEF TypeOK, CopiesMatch
<1>3. ASSUME NEW c \in Calls, NEW f, Becomes(c, f), Copied(f)
      PROVE  \A d \in Calls : Copied(call'[d])
  <2>1. call'[c] = f /\ \A d \in Calls \ {c} : call'[d] = call[d]
    BY <1>1, <1>3 DEF Becomes, TypeOK
  <2>2. QED BY <1>2, <1>3, <2>1
<1>4. CASE UNCHANGED call
  BY <1>2, <1>4
<1>5. ASSUME NEW c \in Calls, NEW k \in Keys, Send(c, k) PROVE \A d \in Calls : Copied(call'[d])
  <2>1. [call[c] EXCEPT !.pc = "sending", !.key = k].pc = "sending"
    BY <1>2 DEF CallRecords
  <2>2. QED BY <1>3, <1>5, <2>1 DEF Send, Copied
<1>6. ASSUME NEW c \in Calls, Dispatch(c) PROVE \A d \in Calls : Copied(call'[d])
  <2> DEFINE k == call[c].key
             f == [call[c] EXCEPT
                     !.todo = callbacks[k],
                     !.due = {r \in Routers : server[r] /\ k \in activated[r]},
                     !.wiped = wiped,
                     !.pc = IF callbacks[k] = <<>> THEN Unserved(k) ELSE "decoding"]
  <2>1. Becomes(c, f) /\ k \in Keys /\ call[c].ran = <<>>
    BY <1>1, <1>6 DEF Dispatch, CallsHaveKeys
  <2>2. /\ f.todo = callbacks[k] /\ f.due = Subscribed(k) /\ f.key = k /\ f.ran = <<>>
        /\ f.pc \in {"decoding", "noroute", "dropped"} /\ f.wiped = wiped
    BY <1>2, <2>1 DEF CallRecords, Unserved, Subscribed
  <2> HIDE DEF f
  <2>3. ASSUME k[1] = "broadcast", ~wiped PROVE Shares(f)
    <3>1. Each(f.todo, f.due)
      BY <1>1, <2>1, <2>2, <2>3 DEF TableIsActive
    <3>2. Each([i \in DOMAIN f.ran |-> f.ran[i][1]], {})
      BY <2>2 DEF Each
    <3>3. f.due \ f.due = {} /\ f.due \in SUBSET f.due
      OBVIOUS
    <3>4. QED BY <3>1, <3>2, <3>3 DEF Shares
  <2>4. Copied(f)
    BY <2>2, <2>3 DEF Copied
  <2>5. QED BY <1>3, <2>1, <2>4
<1>7. ASSUME NEW c \in Calls, Lookup(c) PROVE \A d \in Calls : Copied(call'[d])
  <2> DEFINE e == call[c]
             item == registry[e.key]
             f == IF item = None THEN [e EXCEPT !.pc = "raised"]
                  ELSE [e EXCEPT !.pc = "running", !.todo = Tail(@),
                                 !.ran = Append(@, <<Head(e.todo), item>>)]
  <2>1. Becomes(c, f) /\ e.pc = "decoding"
    BY <1>7 DEF Lookup
  <2>2. /\ e.todo \in Seq(Routers) /\ e.todo # <<>> /\ e.ran \in Seq(Routers \X Functions)
    BY <1>1, <1>2, <2>1 DEF TypeOK, CallRecords
  <2>3. CASE item = None
    BY <1>2, <1>3, <2>1, <2>3 DEF Copied, CallRecords
  <2>4. CASE item # None
    <3>1. /\ f.pc = "running" /\ f.key = e.key /\ f.due = e.due /\ f.todo = Tail(e.todo)
          /\ f.ran = Append(e.ran, <<Head(e.todo), item>>) /\ f.wiped = e.wiped
      BY <1>2, <2>4 DEF CallRecords
    <3> HIDE DEF f
    <3>2. ASSUME e.key[1] = "broadcast", ~e.wiped PROVE Shares(f)
      <4> DEFINE hosts == [i \in DOMAIN e.ran |-> e.ran[i][1]]
                 h == Head(e.todo)
      <4>1. PICK rest \in SUBSET e.due : Each(e.todo, rest) /\ Each(hosts, e.due \ rest)
        BY <1>2, <2>1, <3>2 DEF Copied, Shares
      <4>2. h \in rest /\ Each(Tail(e.todo), rest \ {h}) /\ h \in Routers
        BY <2>2, <4>1, EachTail
      <4>3. /\ DOMAIN f.ran = DOMAIN e.ran \cup {Len(e.ran) + 1}
            /\ Len(e.ran) + 1 \notin DOMAIN e.ran
            /\ f.ran[Len(e.ran) + 1] = <<h, item>>
            /\ \A i \in DOMAIN e.ran : f.ran[i] = e.ran[i]
        BY <2>2, <3>1, SMTT(30)
      <4>4. Each([i \in DOMAIN f.ran |-> f.ran[i][1]], (e.due \ rest) \cup {h})
        <5> DEFINE g == [i \in DOMAIN f.ran |-> f.ran[i][1]]
                   n == Len(e.ran) + 1
        <5>1. /\ DOMAIN hosts = DOMAIN e.ran /\ DOMAIN g = DOMAIN hosts \cup {n}
              /\ n \notin DOMAIN hosts /\ g[n] = h /\ \A i \in DOMAIN hosts : g[i] = hosts[i]
          BY <4>3
        <5>2. Each(hosts, e.due \ rest) /\ h \notin e.due \ rest
          BY <4>1, <4>2
        <5> HIDE DEF g, n, hosts, h
        <5>3. Each(g, (e.due \ rest) \cup {h})
          BY <5>1, <5>2, EachOneMore
        <5>4. QED BY <5>3 DEF g
      <4>5. (e.due \ rest) \cup {h} = f.due \ (rest \ {h}) /\ rest \ {h} \in SUBSET f.due
        BY <3>1, <4>1, <4>2
      <4>6. QED BY <3>1, <4>2, <4>4, <4>5 DEF Shares
    <3>3. Copied(f)
      BY <3>1, <3>2 DEF Copied
    <3>4. QED BY <1>3, <2>1, <3>3
  <2>5. QED BY <2>3, <2>4
<1>8. ASSUME NEW c \in Calls, HandlerEnds(c) PROVE \A d \in Calls : Copied(call'[d])
  <2> DEFINE e == call[c]
             f == AfterHandler(e)
  <2>1. Becomes(c, f) /\ e.pc = "running"
    BY <1>8 DEF HandlerEnds
  <2>2. /\ f.todo = e.todo /\ f.ran = e.ran /\ f.due = e.due /\ f.key = e.key
        /\ f.wiped = e.wiped /\ (f.pc = "done" => e.todo = <<>>)
    BY <1>2 DEF AfterHandler, CallRecords
  <2> HIDE DEF f
  <2>3. Copied(f)
    BY <1>2, <2>1, <2>2 DEF Copied, Shares
  <2>4. QED BY <1>3, <2>1, <2>3
<1>9. ASSUME NEW c \in Calls, DecodeFails(c) \/ Respond(c) \/ Unwind(c)
      PROVE  \A d \in Calls : Copied(call'[d])
  <2> DEFINE e == call[c]
  <2>1. e.cause # "none" => Copied([e EXCEPT !.pc = e.cause, !.cause = "none"])
    BY <1>2 DEF Copied, CallRecords
  <2>2. \A how \in {"result", "garbled"} : Copied([e EXCEPT !.pc = how])
    BY <1>2 DEF Copied, CallRecords
  <2>3. QED BY <1>3, <1>9, <2>1, <2>2 DEF DecodeFails, Respond, Unwind
<1>10. ASSUME NEW c \in Calls, TimerFires(c) \/ Cancel(c) \/ Swallow(c)
       PROVE  \A d \in Calls : Copied(call'[d])
  <2> DEFINE e == call[c]
  <2>1. ASSUME NEW f, f.pc = e.pc, f.todo = e.todo, f.ran = e.ran, f.due = e.due, f.key = e.key,
                     f.wiped = e.wiped
        PROVE  Copied(f)
    BY <1>2, <2>1 DEF Copied, Shares
  <2>2. /\ Copied([e EXCEPT !.cause = "timeout", !.fired = TRUE])
        /\ Copied([e EXCEPT !.cause = "cancelled", !.asked = TRUE])
        /\ Copied([e EXCEPT !.cause = "none", !.swallowed = TRUE])
    BY <1>2, <2>1 DEF CallRecords
  <2>3. QED BY <1>3, <1>10, <2>2 DEF TimerFires, Cancel, Swallow
<1>11. QED BY <1>1, <1>4, <1>5, <1>6, <1>7, <1>8, <1>9, <1>10
  DEF Next, SpaceStep, Activate, Deactivate, CallStep, vars

LEMMA CopiesInvariant == Spec => [](TableIsActive /\ CopiesMatch)
<1>1. Init => TableIsActive /\ CopiesMatch
  BY DEF Init, SpaceInit, NoCall, TableIsActive, CopiesMatch, Copied, Each, Subscribed
<1>2. IInv /\ TableIsActive /\ CopiesMatch /\ [Next]_vars => TableIsActive' /\ CopiesMatch'
  BY TablePreserved, CopiesPreserved DEF IInv
<1>3. QED BY <1>1, <1>2, Invariance, PTL DEF Spec
-----------------------------------------------------------------------------
(* The theorems. *)

\* The variables keep their types, and no name gets a second request or event callback.
THEOREM TypeCorrect == Spec => []TypeOK
<1>1. IInv => TypeOK
  BY DEF IInv
<1>2. QED BY <1>1, Invariance, PTL

\* The transport's tables hold exactly what is declared while the namespace's only router is
\* active, whatever was declared, activated and deactivated before.
THEOREM TablesMatch == Spec => []ServesTheDeclared
<1>1. IInv => ServesTheDeclared
  BY DEF IInv
<1>2. QED BY <1>1, Invariance, PTL

\* A reference runs the first function declared under its name.
THEOREM FirstDeclarationRuns == Spec => []RunsTheDeclared
<1>1. IInv => RunsTheDeclared
  BY DEF IInv
<1>2. QED BY <1>1, Invariance, PTL

\* With one router, the codec's failures and the caller's own timeout and cancellation are
\* all that ends a call early: no JobNotFound, no exception of a queue or broadcast handler,
\* and no UnknownRequestName or dropped publication while an active router has the name.
THEOREM CallsFailOnTheirOwn == Spec => []FailuresAreOwn
<1>1. IInv => FailuresAreOwn
  BY DEF IInv
<1>2. QED BY <1>1, Invariance, PTL

\* A loopback transport keeps the contract of send_request, for any handlers, timeouts and
\* cancellations.
THEOREM Refinement == Spec => ImplementsContract
<1>1. Init => Evidence
  BY DEF Init, NoCall, Evidence, Rpc
<1>2. Init => Contract!Init
  BY DEF Init, NoCall, Contract!Init, IsRpc, SeenAs
<1>3. IInv /\ Evidence /\ [Next]_vars => Evidence'
  BY EvidencePreserved DEF IInv
<1>4. IInv /\ Evidence /\ [Next]_vars => [Contract!Next]_(Contract!vars)
  BY StepImplements DEF IInv, ContractStep
<1>5. QED BY <1>1, <1>2, <1>3, <1>4, Invariance, PTL DEF Spec, ImplementsContract, Contract!Spec

\* A broadcast that ends was handled once for every router active when it was dispatched,
\* whichever were activated or deactivated since, unless one had been deactivated under
\* another before.
THEOREM EverySubscriberOnce == Spec => []BroadcastReachesAll
<1>1. TypeOK /\ CopiesMatch => BroadcastReachesAll
  <2>1. SUFFICES ASSUME TypeOK, CopiesMatch, NEW c \in Calls, ~call[c].wiped,
                        call[c].pc = "done", call[c].key[1] = "broadcast"
                 PROVE Each([i \in DOMAIN call[c].ran |-> call[c].ran[i][1]], call[c].due)
    BY DEF BroadcastReachesAll, Each
  <2>2. Shares(call[c]) /\ call[c].todo = <<>>
    BY <2>1 DEF CopiesMatch, Copied
  <2>3. PICK rest \in SUBSET call[c].due :
            /\ Each(call[c].todo, rest)
            /\ Each([i \in DOMAIN call[c].ran |-> call[c].ran[i][1]], call[c].due \ rest)
    BY <2>2 DEF Shares
  <2>4. rest = {}
    BY <2>2, <2>3 DEF Each
  <2>5. QED BY <2>3, <2>4
<1>2. QED BY <1>1, TypeCorrect, CopiesInvariant, PTL
=============================================================================
