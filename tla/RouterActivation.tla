-------------------------- MODULE RouterActivation --------------------------
(***************************************************************************)
(* Router.activate, Router.deactivate and the registration of atasks: the  *)
(* router's notion of its server and of what it subscribed, against the    *)
(* subscriptions the transports really have.  Every transport call is an   *)
(* await, during which other tasks run and after which the loop continues  *)
(* with whatever self.server and self._activated hold by then.             *)
(***************************************************************************)
EXTENDS Naturals

CONSTANTS Servers,    \* transports the router may be activated on
          NoServer,   \* None: not activated
          Names,      \* atasks that may be registered
          KindOf,     \* 1 for rpc, 2 for queue, 3 for broadcast
          Tasks,      \* coroutines that call activate and deactivate
          Nothing,    \* a deactivation nothing follows; no call just returned
          MaxRaises   \* bound on transport calls that raise or are cancelled

ASSUME KindAssumption == KindOf \in [Names -> 1..3]
ASSUME ServerAssumption == NoServer \notin Servers /\ Nothing \notin Servers \cup {NoServer}
ASSUME RaisesAssumption == MaxRaises \in Nat

VARIABLES server,     \* self.server
          activated,  \* self._activated, the three lists together
          registry,   \* names in rpc_registry, queue_registry and broadcast_registry
          subs,       \* subscriptions <<transport, name>> that exist
          frame,      \* the suspended activate or deactivate of each task
          returned,   \* history: what the last step returned from, if anything
          raises,     \* transport calls that have raised so far
          overlapped  \* history: two operations have been under way at once

vars == <<server, activated, registry, subs, frame, returned, raises, overlapped>>

Idle == [phase |-> "idle", kind |-> 0, todo |-> {}, names |-> {},
         target |-> Nothing, call |-> Nothing]

Init == /\ server = NoServer
        /\ activated = {}
        /\ registry = {}
        /\ subs = {}
        /\ frame = [t \in Tasks |-> Idle]
        /\ returned = Nothing
        /\ raises = 0
        /\ overlapped = FALSE

\* The names the loops over the three kinds visit next: the rest of the current list, or
\* the next list that is not empty.
NextNames(f, source) ==
    LET later == {n \in source : KindOf[n] > f.kind}
    IN  IF f.todo # {} THEN f.todo
        ELSE {n \in later : \A m \in later : KindOf[n] <= KindOf[m]}

\* The frame that waits for the transport call for n, on the server of the moment.
CallingAgain(f, names, n, s) == [f EXCEPT !.kind = KindOf[n], !.todo = names,
                                          !.call = <<s, n>>]
Calling(f, names, n, s) == [f EXCEPT !.kind = KindOf[n], !.todo = names \ {n},
                                     !.call = <<s, n>>]

Suspend(t, f) == frame' = [frame EXCEPT ![t] = f]
Return(t, what) == Suspend(t, Idle) /\ returned' = what

\* "self.server = server" up to the first await, or to the end without one: the registered
\* names are read here, once.
Assign(t, s, lists) ==
    LET f == [Idle EXCEPT !.phase = "subscribing", !.names = registry]
        first == NextNames(f, registry)
    IN  /\ server' = s
        /\ IF s = NoServer THEN activated' = lists /\ Return(t, <<"activate", s>>)
           ELSE IF first = {} THEN activated' = {} /\ Return(t, <<"activate", s>>)
           ELSE /\ activated' = lists
                /\ \E n \in first : Suspend(t, Calling(f, first, n, s))
                /\ returned' = Nothing

\* After the last unregistration: forget the names and the server, and let activate go on.
EndDeactivateKeepsServer(t, target) ==
    /\ activated' = {} /\ server' = server /\ Return(t, <<"deactivate", server>>)
EndDeactivate(t, target) ==
    IF target = Nothing
    THEN activated' = {} /\ server' = NoServer /\ Return(t, <<"deactivate", NoServer>>)
    ELSE Assign(t, target, {})

\* After the last registration: record what was activated.
EndActivate(t, f) ==
    activated' = f.names /\ UNCHANGED server /\ Return(t, <<"activate", server>>)

\* The loops go on: the next transport call - an AttributeError if the server is gone - or
\* what follows the loops.
Continue(t, f) ==
    LET names == NextNames(f, IF f.phase = "subscribing" THEN f.names ELSE activated)
    IN  IF names = {}
        THEN IF f.phase = "subscribing" THEN EndActivate(t, f) ELSE EndDeactivate(t, f.target)
        ELSE /\ UNCHANGED <<server, activated>>
             /\ IF server = NoServer THEN Return(t, Nothing)
                ELSE /\ \E n \in names : Suspend(t, Calling(f, names, n, server))
                     /\ returned' = Nothing

Unsubscribe(t, target) ==
    Continue(t, [Idle EXCEPT !.phase = "unsubscribing", !.target = target])

\* An operation of t begins, perhaps while another one is suspended.
Begin(t) == overlapped' = (overlapped \/ \E u \in Tasks \ {t} : frame[u] # Idle)

Activate(t, s) ==
    /\ frame[t] = Idle
    /\ IF server = s
       THEN /\ UNCHANGED <<server, activated>>
            /\ Return(t, <<"activate", s>>)
       ELSE IF server # NoServer THEN Unsubscribe(t, s) ELSE Assign(t, s, activated)
    /\ Begin(t)
    /\ UNCHANGED <<registry, subs, raises>>

Deactivate(t) ==
    /\ frame[t] = Idle
    /\ IF server = NoServer
       THEN /\ UNCHANGED <<server, activated>>
            /\ Return(t, <<"deactivate", NoServer>>)
       ELSE Unsubscribe(t, Nothing)
    /\ Begin(t)
    /\ UNCHANGED <<registry, subs, raises>>

\* The transport call of t succeeds and the coroutine resumes.
CallReturns(t) ==
    LET f == frame[t]
    IN  /\ f # Idle
        /\ subs' = IF f.phase = "subscribing" THEN subs \cup {f.call} ELSE subs \ {f.call}
        /\ Continue(t, f)
        /\ UNCHANGED <<registry, raises, overlapped>>

\* The transport call raises, or the task is cancelled in it: the exception leaves
\* activate or deactivate, and neither has anything to undo.
CallRaises(t) ==
    /\ frame[t] # Idle /\ raises < MaxRaises
    /\ raises' = raises + 1
    /\ Return(t, Nothing)
    /\ UNCHANGED <<server, activated, registry, subs, overlapped>>

\* register_atask, register_atask_queue, register_atask_broadcast; LateRegistration once
\* there is a server, RegisteringTwice for a known name.
Register(n) ==
    /\ server = NoServer
    /\ n \notin registry
    /\ registry' = registry \cup {n}
    /\ returned' = Nothing
    /\ UNCHANGED <<server, activated, subs, frame, raises, overlapped>>

Next == \/ \E t \in Tasks : \/ \E s \in Servers \cup {NoServer} : Activate(t, s)
                            \/ Deactivate(t) \/ CallReturns(t) \/ CallRaises(t)
        \/ \E n \in Names : Register(n)

Spec == Init /\ [][Next]_vars

\* Transport calls return; nobody has to call activate or deactivate.
FairSpec == Spec /\ \A t \in Tasks : WF_vars(CallReturns(t))
-----------------------------------------------------------------------------
(* Properties. *)

Frames == [phase : {"idle", "subscribing", "unsubscribing"}, kind : 0..3,
           todo : SUBSET Names, names : SUBSET Names,
           target : Servers \cup {NoServer, Nothing},
           call : (Servers \X Names) \cup {Nothing}]

\* Type invariant.
TypeOK == /\ server \in Servers \cup {NoServer}
          /\ activated \subseteq Names
          /\ registry \subseteq Names
          /\ subs \subseteq Servers \X Names
          /\ frame \in [Tasks -> Frames]
          /\ returned \in ({"activate", "deactivate"} \X (Servers \cup {NoServer})) \cup {Nothing}
          /\ raises \in 0..MaxRaises
          /\ overlapped \in BOOLEAN

\* Between operations the transports hold exactly the subscriptions the router's state
\* stands for: every registered name on the current server and nothing anywhere else -
\* over any sequence of activations, switches of the server, deactivations and
\* registrations by any tasks, as long as no transport call raised and no two operations
\* overlapped.
QuiescentMatches ==
    (\A t \in Tasks : frame[t] = Idle) /\ raises = 0 /\ ~overlapped =>
        subs = IF server = NoServer THEN {} ELSE {server} \X registry

\* An operation that started finishes, also when another task replaces self.server and
\* self._activated under it, or a transport call of either raises.
OperationsEnd == \A t \in Tasks : frame[t] # Idle ~> frame[t] = Idle

\* router.py:132-133: activate() "Subscribes, once, to every atask/atask_queue/
\* atask_broadcast name currently registered in this namespace" - so every one of them is
\* subscribed when it returns.
ActivateSubscribesAll ==
    returned # Nothing /\ returned[1] = "activate" /\ returned[2] # NoServer
        => {returned[2]} \X registry \subseteq subs
=============================================================================
