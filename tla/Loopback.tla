------------------------------ MODULE Loopback ------------------------------
(***************************************************************************)
(* A namespace served by a LoopbackTransport: the router subscribes what   *)
(* is declared to the transport's callback tables, and a reference calls   *)
(* the callbacks it finds there, inside the caller's own task.             *)
(*                                                                         *)
(* Connecting and (un)subscribing never wait for anything over a loopback, *)
(* so activate and deactivate are single steps; the steps of a call are    *)
(* what lies between the awaits of codecs and handlers.                    *)
(***************************************************************************)
EXTENDS Namespaces, Sequences, FiniteSets

CONSTANTS Calls,     \* calls of references
          Timed,     \* those made with a timeout
          MaxCalls   \* bound on how many of them are made

ASSUME CallsAssumption == Timed \subseteq Calls /\ MaxCalls \in Nat

VARIABLES callbacks,   \* _request_, _event_ and _broadcast_callbacks: whose they are
          activated,   \* _activated of each router
          call,        \* the state of each call
          wiped        \* history: a router was deactivated while another had a server

vars == <<spaceVars, callbacks, activated, call, wiped>>

\* A call: where it is, its key, the callbacks it has yet to run, the <<router, function>>
\* pairs it ran, the exception that unwinds it, if any, and whether its timer has fired.
\* For the properties: who should get a copy, what wiped was when that was decided, whether
\* a handler answered, whether it was cancelled, and whether a handler has swallowed a
\* cancellation.
NoCall == [pc |-> "idle", key |-> None, todo |-> <<>>, ran |-> <<>>, cause |-> "none",
           fired |-> FALSE, due |-> {}, wiped |-> FALSE, answered |-> FALSE, asked |-> FALSE,
           swallowed |-> FALSE]
InFlight(c) == call[c].pc \in {"sending", "decoding", "running", "encoding"}
Goes(c) == InFlight(c) /\ call[c].cause = "none"
IsRpc(c) == call[c].key # None /\ call[c].key[1] = "rpc"

Init == /\ SpaceInit
        /\ callbacks = [k \in Keys |-> <<>>]
        /\ activated = [r \in Routers |-> {}]
        /\ call = [c \in Calls |-> NoCall]
        /\ wiped = FALSE
-----------------------------------------------------------------------------
(* Router and transport. *)

\* _register_request_callback and _register_event_callback replace, _broadcast_ appends.
AddsAlways(k, r) == Append(callbacks[k], r)
AddCallback(k, r) == IF k[1] = "broadcast" THEN Append(callbacks[k], r) ELSE <<r>>

Activate(r) ==
    LET names == {k \in Keys : registry[k] # None}
    IN  /\ r <= router /\ ~server[r]
        /\ server' = [server EXCEPT ![r] = TRUE]
        /\ callbacks' = [k \in Keys |-> IF k \in names THEN AddCallback(k, r) ELSE callbacks[k]]
        /\ activated' = [activated EXCEPT ![r] = names]
        /\ UNCHANGED <<router, registry, call, wiped>>

\* _unregister_*_callback(name) drops whatever the table holds for the name.
DroppedButBroadcasts(r) ==
    [k \in Keys |-> IF k \in activated[r] /\ k[1] # "broadcast" THEN <<>> ELSE callbacks[k]]
Dropped(r) == [k \in Keys |-> IF k \in activated[r] THEN <<>> ELSE callbacks[k]]
Deactivate(r) ==
    /\ server[r]
    /\ server' = [server EXCEPT ![r] = FALSE]
    /\ callbacks' = Dropped(r)
    /\ activated' = [activated EXCEPT ![r] = {}]
    /\ wiped' = (wiped \/ \E q \in Routers \ {r} : server[q])
    /\ UNCHANGED <<router, registry, call>>

SpaceStep == SpaceNext /\ UNCHANGED <<callbacks, activated, call, wiped>>
-----------------------------------------------------------------------------
(* Calls. *)

Becomes(c, f) == call' = [call EXCEPT ![c] = f]
Step(c) == UNCHANGED <<spaceVars, callbacks, activated, wiped>>

\* A reference of either sort is called: it takes the namespace's router, which has the
\* arguments encoded.
Send(c, k) ==
    /\ call[c].pc = "idle"
    /\ Cardinality({d \in Calls : call[d].pc # "idle"}) < MaxCalls
    /\ GetRouter
    /\ Becomes(c, [call[c] EXCEPT !.pc = "sending", !.key = k])
    /\ UNCHANGED <<registry, server, callbacks, activated, wiped>>

\* The transport looks at its table: send_request raises UnknownRequestName, publish_event
\* and publish_broadcast drop what nobody takes.
Unserved(k) == IF k[1] = "rpc" THEN "noroute" ELSE "dropped"
Dispatch(c) ==
    LET k == call[c].key
    IN  /\ Goes(c) /\ call[c].pc = "sending"
        /\ Becomes(c, [call[c] EXCEPT
                !.todo = callbacks[k],
                !.due = {r \in Routers : server[r] /\ k \in activated[r]},
                !.wiped = wiped,
                !.pc = IF callbacks[k] = <<>> THEN Unserved(k) ELSE "decoding"])
        /\ Step(c)

\* The callback's router has decoded the content: it looks the name up in the registry its
\* namespace has by now.
Lookup(c) ==
    LET f == call[c]
        item == registry[f.key]
    IN  /\ Goes(c) /\ f.pc = "decoding"
        /\ Becomes(c, IF item = None THEN [f EXCEPT !.pc = "raised"]
                      ELSE [f EXCEPT !.pc = "running", !.todo = Tail(@),
                                     !.ran = Append(@, <<Head(f.todo), item>>)])
        /\ Step(c)

\* A codec that fails logs it and returns None (codecs.py:72-84): the arguments cannot be
\* encoded, or not decoded here, and unpacking None raises TypeError, which over a loopback
\* comes out of the call - for a publisher, before the rest of its copies.
DecodeFails(c) == /\ Goes(c) /\ call[c].pc = "decoding"
                  /\ Becomes(c, [call[c] EXCEPT !.pc = "garbled"])
                  /\ Step(c)

\* The handler returns or raises, which _call_coro makes of one kind: a response to encode,
\* or an end, after which a publisher goes on with its copy of the list.
AfterHandlerRaises(f) ==
    IF f.key[1] = "rpc" THEN [f EXCEPT !.pc = "encoding", !.answered = TRUE]
    ELSE [f EXCEPT !.pc = "raised"]
AfterHandlerLive(f) ==
    LET rest == SubSeq(callbacks[f.key], Len(f.ran) + 1, Len(callbacks[f.key]))
    IN  IF f.key[1] = "rpc" THEN [f EXCEPT !.pc = "encoding", !.answered = TRUE]
        ELSE [f EXCEPT !.todo = rest, !.pc = IF rest = <<>> THEN "done" ELSE "decoding"]
AfterHandler(f) ==
    IF f.key[1] = "rpc" THEN [f EXCEPT !.pc = "encoding", !.answered = TRUE]
    ELSE [f EXCEPT !.pc = IF f.todo = <<>> THEN "done" ELSE "decoding"]
HandlerEnds(c) == Goes(c) /\ call[c].pc = "running" /\ Becomes(c, AfterHandler(call[c])) /\ Step(c)

\* The response is encoded and decoded; TransportError or TypeError if that makes it None.
Respond(c) == /\ Goes(c) /\ call[c].pc = "encoding"
              /\ \E how \in {"result", "garbled"} : Becomes(c, [call[c] EXCEPT !.pc = how])
              /\ Step(c)

\* wait_for cancels the callback; the caller's task may be cancelled by anybody, at any
\* time, and its cancellation prevails.
EveryCallHasTimer(c) == TRUE
NoCallHasTimer(c) == FALSE
HasTimer(c) == c \in Timed
TimerFires(c) ==
    /\ Goes(c) /\ IsRpc(c) /\ HasTimer(c) /\ ~call[c].fired
    /\ call[c].pc # "sending"
    /\ Becomes(c, [call[c] EXCEPT !.cause = "timeout", !.fired = TRUE])
    /\ Step(c)
Cancel(c) ==
    /\ InFlight(c)
    /\ Becomes(c, [call[c] EXCEPT !.cause = "cancelled", !.asked = TRUE])
    /\ Step(c)

\* CancelledError is not an Exception: _call_coro and the publisher's loop let it pass, and
\* only the timer's own becomes RequestTimeoutError.
Unwind(c) ==
    /\ InFlight(c) /\ call[c].cause # "none"
    /\ Becomes(c, [call[c] EXCEPT !.pc = call[c].cause, !.cause = "none"])
    /\ Step(c)

\* A handler may catch it and carry on.
Swallow(c) ==
    /\ call[c].pc = "running" /\ call[c].cause # "none"
    /\ Becomes(c, [call[c] EXCEPT !.cause = "none", !.swallowed = TRUE])
    /\ Step(c)

CallStep(c) == \/ Dispatch(c) \/ Lookup(c) \/ DecodeFails(c) \/ Respond(c)
               \/ TimerFires(c) \/ Unwind(c)
Next == \/ SpaceStep
        \/ \E r \in Routers : Activate(r) \/ Deactivate(r)
        \/ \E c \in Calls : \/ \E k \in Keys : Send(c, k)
                            \/ CallStep(c) \/ HandlerEnds(c) \/ Cancel(c) \/ Swallow(c)

Spec == Init /\ [][Next]_vars

\* Codecs return, timers fire and exceptions propagate; a handler need never end.
FairSpec == Spec /\ \A c \in Calls :
    /\ WF_vars(Dispatch(c)) /\ WF_vars(Lookup(c)) /\ WF_vars(Respond(c))
    /\ WF_vars(TimerFires(c)) /\ WF_vars(Unwind(c))
-----------------------------------------------------------------------------
(* Properties. *)

Outcomes == {"result", "done", "noroute", "dropped", "raised", "garbled", "timeout",
             "cancelled"}

CallRecords ==
    [pc : {"idle", "sending", "decoding", "running", "encoding"} \cup Outcomes,
     key : Keys \cup {None}, todo : Seq(Routers), ran : Seq(Routers \X Functions),
     cause : {"none", "timeout", "cancelled"}, fired : BOOLEAN,
     due : SUBSET Routers, wiped : BOOLEAN, answered : BOOLEAN, asked : BOOLEAN,
     swallowed : BOOLEAN]

\* Type invariant; a name has at most one callback for requests, and for events, and a call
\* past its look at the table that goes on to decode has a callback to run.
TypeOK ==
    /\ router \in 0..MaxRouters
    /\ registry \in [Keys -> Functions \cup {None}]
    /\ server \in [Routers -> BOOLEAN]
    /\ wiped \in BOOLEAN
    /\ callbacks \in [Keys -> Seq(Routers)]
    /\ \A k \in Keys : k[1] # "broadcast" => Len(callbacks[k]) <= 1
    /\ activated \in [Routers -> SUBSET Keys]
    /\ call \in [Calls -> CallRecords]
    /\ \A c \in Calls : call[c].pc = "decoding" => call[c].todo # <<>>

\* As long as no second Router() replaced the first, the transport has one callback for
\* every declared name while the router is active and none otherwise, after any sequence
\* of declarations, activations and deactivations.
ServesTheDeclared == OneRouter => \A k \in Keys :
    callbacks[k] = IF router # 0 /\ server[router] /\ registry[k] # None
                   THEN <<router>> ELSE <<>>

\* Under the same condition a reference runs the function that was declared first under
\* its name, whatever was imported or deactivated meanwhile.
RunsTheDeclared == OneRouter => \A c \in Calls : \A i \in DOMAIN call[c].ran :
    call[c].ran[i][2] = registry[call[c].key]

\* Under the same condition a call fails only by what is its own: JobNotFound, for a name
\* that left the registry between the look at the table and the handler, never comes out of
\* it, nor does what a queue or broadcast handler raised, whose "failure terminates here"
\* (router.py:396 and 429); and UnknownRequestName comes, or a publication is dropped, only
\* if no active router had the name at that look.  What is left to end a call early is the
\* caller's timeout or cancellation, and content the codec turned into None.
FailuresAreOwn == OneRouter => \A c \in Calls :
    /\ call[c].pc # "raised"
    /\ call[c].pc \in {"noroute", "dropped"} => call[c].due = {}

\* A broadcast that ends without an exception was handled once for every router active when
\* it was dispatched, "like a real fan-out" (base.py:271), though its handlers fail, and
\* though routers join and leave while the earlier handlers run: one that was deactivated
\* meanwhile still gets its copy, one that was activated gets none.  A deactivation before
\* the dispatch, while another router was active, has taken the name from both.
BroadcastReachesAll == \A c \in Calls :
    LET copies == [i \in DOMAIN call[c].ran |-> call[c].ran[i][1]]
    IN  call[c].pc = "done" /\ call[c].key[1] = "broadcast" /\ ~call[c].wiped =>
            /\ {copies[i] : i \in DOMAIN copies} = call[c].due
            /\ \A i, j \in DOMAIN copies : i # j => copies[i] # copies[j]

\* A loopback transport keeps what Transport promises of send_request.  JobNotFound and a
\* request nobody can decode are more ways to say that no handler takes it; a response that
\* is no good to the caller is a response.
SeenAs(f) == IF f.key = None \/ f.key[1] # "rpc" THEN "idle"
             ELSE CASE f.pc \in {"sending", "decoding", "running", "encoding"} -> "inflight"
                    [] f.pc = "raised" -> "noroute"
                    [] f.pc = "garbled" -> IF f.answered THEN "result" ELSE "noroute"
                    [] OTHER -> f.pc
Contract == INSTANCE RpcContract WITH
    TellsCancel <- TRUE,
    status <- [c \in Calls |-> SeenAs(call[c])],
    answered <- {c \in Calls : call[c].answered},
    cancelReq <- {c \in Calls : IsRpc(c) /\ call[c].asked}
ImplementsContract == Contract!Spec

\* A request with a timeout ends in spite of a handler that does not, unless the handler
\* catches the cancellation.
TimedCallsEnd == \A c \in Timed :
    IsRpc(c) /\ InFlight(c) ~> ~InFlight(c) \/ call[c].swallowed
=============================================================================
