------------------------------ MODULE CallChain ------------------------------
(***************************************************************************)
(* The call path of an atask through Router and trace: a reference pushes  *)
(* a hop, the router sends the chain along, and the callee's router        *)
(* installs it in context variables around the handler.  Over a loopback   *)
(* transport the handler runs inside the caller's task and so in the       *)
(* caller's context; over AMQP it runs in a task of its own.               *)
(***************************************************************************)
EXTENDS Naturals, Sequences

CONSTANTS Tasks,        \* asyncio tasks, of any process
          Namespaces,   \* each with a transport and a router of its own
          Loopback,     \* the namespaces whose transport is a LoopbackTransport
          Depth,        \* max_trace_depth of each namespace's router
          None,         \* no exception; no trace
          MaxCalls      \* bound on calls

ASSUME NamespacesAssumption == /\ Loopback \subseteq Namespaces
                               /\ Depth \in [Namespaces -> Nat]
                               /\ MaxCalls \in Nat
                               /\ None \notin Seq(Nat)

VARIABLES calls,    \* history: every call made, in order; a hop is named by its index
          stack,    \* of each task: the coroutines of user code it is inside of
          cur,      \* trace.CURRENT in each task's context
          entry,    \* trace.ENTRY_FRAME, as the call whose handler set it; 0 for None
          waiting,  \* the call each task awaits a reply to, or 0
          exc,      \* the exception being raised in each task's innermost coroutine
          replies   \* published responses

vars == <<calls, stack, cur, entry, waiting, exc, replies>>

Init == /\ calls = <<>>
        /\ stack = [t \in Tasks |-> <<>>]
        /\ cur = [t \in Tasks |-> <<>>]
        /\ entry = [t \in Tasks |-> 0]
        /\ waiting = [t \in Tasks |-> 0]
        /\ exc = [t \in Tasks |-> None]
        /\ replies = {}

\* User code that runs: a handler, with the tokens to undo its entry, or the coroutine
\* of a task.  call is the atask whose code it is, 0 for none.
Frame(call, handler, t) ==
    [call |-> call, handler |-> handler, curToken |-> cur[t], entryToken |-> entry[t]]
Top(t) == stack[t][Len(stack[t])]
Below(t) == SubSeq(stack[t], 1, Len(stack[t]) - 1)

Idle(t) == stack[t] = <<>>
Runs(t) == stack[t] # <<>> /\ waiting[t] = 0 /\ exc[t] = None

\* What the frames of a task's live stack belong to, by coroutine, outermost first: what
\* runs it - the event loop, or reference, transport and router, whose innermost frame is
\* the _call_coro of the handler - and the code itself.
Code(call) == <<"code", call>>
Machinery(call) == <<"machinery", call>>
CallCoro(call) == <<"_call_coro", call>>
Running(f) == IF f.handler THEN <<Machinery(f.call), CallCoro(f.call), Code(f.call)>>
                           ELSE <<Machinery(0), Code(f.call)>>
Places(t) == {at \in (1..Len(stack[t])) \X (1..3) : at[2] \in DOMAIN Running(stack[t][at[1]])}
LiveStack(t) == [at \in Places(t) |-> Running(stack[t][at[1]])[at[2]]]
Inner(a, b) == a[1] > b[1] \/ (a[1] = b[1] /\ a[2] > b[2])

\* _walk_frames_until: from the call site up to the entry frame of the hop, or to the top
\* of the stack when that is not on it.
AwaitFrames(t) ==
    LET live == LiveStack(t)
        boundary == {b \in DOMAIN live : entry[t] # 0 /\ live[b] = CallCoro(entry[t])}
    IN  {live[a] : a \in {a \in DOMAIN live : \A b \in boundary : Inner(a, b)}}

\* An exception: the atask in whose code it was raised, and its __atask_trace__.
NewException(call) == [origin |-> call, hops |-> None]
-----------------------------------------------------------------------------
(* Tasks. *)

\* A coroutine that no atask called: a request handler of a web server, a script.
StartRoot(t) ==
    /\ Idle(t)
    /\ stack' = [stack EXCEPT ![t] = <<Frame(0, FALSE, t)>>]
    /\ UNCHANGED <<calls, cur, entry, waiting, exc, replies>>

\* asyncio.create_task copies the context of the task that calls it.
Spawn(t, u) ==
    /\ Runs(t) /\ Idle(u)
    /\ stack' = [stack EXCEPT ![u] = <<Frame(Top(t).call, FALSE, u)>>]
    /\ cur' = [cur EXCEPT ![u] = cur[t]]
    /\ entry' = [entry EXCEPT ![u] = entry[t]]
    /\ UNCHANGED <<calls, waiting, exc, replies>>

\* A coroutine that is not a handler ends, or any task is cancelled: CancelledError is
\* not an Exception, and unwinds the whole stack.
Clear(t) == /\ stack' = [stack EXCEPT ![t] = <<>>]
            /\ cur' = [cur EXCEPT ![t] = <<>>]
            /\ entry' = [entry EXCEPT ![t] = 0]
            /\ waiting' = [waiting EXCEPT ![t] = 0]
            /\ exc' = [exc EXCEPT ![t] = None]
            /\ UNCHANGED <<calls, replies>>

Finish(t) == ~Idle(t) /\ waiting[t] = 0 /\ ~Top(t).handler /\ Clear(t)
Cancel(t) == ~Idle(t) /\ Clear(t)
-----------------------------------------------------------------------------
(* Calls. *)

EnterOpensNoFrame(t, call, chain) ==
    /\ stack' = [stack EXCEPT ![t] = Append(@, Frame(call, TRUE, t))]
    /\ cur' = [cur EXCEPT ![t] = chain]
    /\ entry' = [entry EXCEPT ![t] = IF chain = <<>> THEN call ELSE @]
\* trace.enter, and the ENTRY_FRAME that _call_coro sets, around the handler of a call.
Enter(t, call, chain) ==
    /\ stack' = [stack EXCEPT ![t] = Append(@, Frame(call, TRUE, t))]
    /\ cur' = [cur EXCEPT ![t] = chain]
    /\ entry' = [entry EXCEPT ![t] = call]

\* send_request, send_event, send_broadcast.  A loopback transport awaits the handler
\* where it is called, of every kind; AMQP only makes an RPC caller wait, for a reply.
Send(t, ns, kind, chain, raw) ==
    LET id == Len(calls) + 1
    IN  /\ calls' = Append(calls, [by |-> Top(t).call, ns |-> ns, kind |-> kind, chain |-> chain,
                                   raw |-> raw, isRoot |-> entry[t] = 0,
                                   spawned |-> ~raw /\ ~Top(t).handler,
                                   frames |-> IF raw THEN {} ELSE AwaitFrames(t)])
        /\ IF ns \in Loopback THEN Enter(t, id, chain) /\ UNCHANGED waiting
           ELSE /\ waiting' = IF kind = "rpc" THEN [waiting EXCEPT ![t] = id] ELSE waiting
                /\ UNCHANGED <<stack, cur, entry>>
        /\ UNCHANGED <<exc, replies>>

TooDeepOffByOne(chain, ns) == Len(chain) > Depth[ns]
TooDeep(chain, ns) == Len(chain) >= Depth[ns]

\* A reference made by @atask and its siblings, or by refs: push_hop, then send.
Call(t, ns, kind) ==
    /\ Runs(t) /\ Len(calls) < MaxCalls
    /\ ~TooDeep(cur[t], ns)
    /\ Send(t, ns, kind, Append(cur[t], Len(calls) + 1), FALSE)

\* AtaskStackTooDeep, and any other exception in the code that runs.
Raise(t) ==
    /\ Runs(t)
    /\ exc' = [exc EXCEPT ![t] = NewException(Top(t).call)]
    /\ UNCHANGED <<calls, stack, cur, entry, waiting, replies>>

\* router.send_request called directly, with its default trace_chain=().
CallRaw(t, ns) ==
    /\ Runs(t) /\ Len(calls) < MaxCalls
    /\ Send(t, ns, "rpc", <<>>, TRUE)

\* A message is consumed in a task with a fresh context - once, once more after a
\* redelivery, by every subscriber of a broadcast.
Receive(t, id) ==
    /\ Idle(t)
    /\ calls[id].ns \notin Loopback
    /\ Enter(t, id, calls[id].chain)
    /\ UNCHANGED <<calls, waiting, exc, replies>>
-----------------------------------------------------------------------------
(* Returns. *)

\* The two finally clauses: reset ENTRY_FRAME, then trace.leave.
LeaveOnSuccess(t) ==
    /\ stack' = [stack EXCEPT ![t] = Below(t)]
    /\ cur' = [cur EXCEPT ![t] = IF exc[t] = None THEN Top(t).curToken ELSE @]
    /\ entry' = [entry EXCEPT ![t] = Top(t).entryToken]
Leave(t) ==
    /\ stack' = [stack EXCEPT ![t] = Below(t)]
    /\ cur' = [cur EXCEPT ![t] = Top(t).curToken]
    /\ entry' = [entry EXCEPT ![t] = Top(t).entryToken]

\* What becomes of a handler's result or exception: re-raised in the caller's coroutine,
\* published as the reply, or, for an event or a broadcast, only logged.
HandlerEnds(t, e) ==
    LET call == calls[Top(t).call]
        inline == Below(t) # <<>>
    IN  /\ Leave(t)
        /\ exc' = [exc EXCEPT ![t] = IF inline /\ call.kind = "rpc" THEN e ELSE None]
        /\ replies' = IF ~inline /\ call.kind = "rpc"
                      THEN replies \cup {[call |-> Top(t).call, exc |-> e]} ELSE replies
        /\ UNCHANGED <<calls, waiting>>

Return(t) == Runs(t) /\ Top(t).handler /\ HandlerEnds(t, None)

\* attach: only an exception without a trace gets one.
AttachAgain(e, chain) == [e EXCEPT !.hops = chain]
Attach(e, chain) == IF e.hops = None THEN [e EXCEPT !.hops = chain] ELSE e

\* _call_coro catches what the handler raised.
CallCoroFails(t) ==
    /\ exc[t] # None
    /\ Top(t).handler
    /\ HandlerEnds(t, Attach(exc[t], cur[t]))

\* User code handles an exception and goes on; it may well raise another one.
Handle(t) ==
    /\ exc[t] # None
    /\ exc' = [exc EXCEPT ![t] = None]
    /\ UNCHANGED <<calls, stack, cur, entry, waiting, replies>>

\* The reply arrives: a result, or the pickled exception with its trace.
Resume(t) ==
    /\ \E r \in replies : r.call = waiting[t] /\ exc' = [exc EXCEPT ![t] = r.exc]
    /\ waiting' = [waiting EXCEPT ![t] = 0]
    /\ UNCHANGED <<calls, stack, cur, entry, replies>>

\* No reply: RequestTimeoutError, ConnectionLostError or NoRouteError in the caller.
GiveUp(t) ==
    /\ waiting[t] # 0
    /\ waiting' = [waiting EXCEPT ![t] = 0]
    /\ exc' = [exc EXCEPT ![t] = NewException(Top(t).call)]
    /\ UNCHANGED <<calls, stack, cur, entry, replies>>

\* The timeout of a loopback call cancels the handler, with every handler that runs
\* inside of it, and raises RequestTimeoutError in the coroutine k that made the call.
TimeoutInline(t, k) ==
    LET f == stack[t][k + 1]
    IN  /\ f.handler /\ calls[f.call].kind = "rpc"
        /\ stack' = [stack EXCEPT ![t] = SubSeq(@, 1, k)]
        /\ cur' = [cur EXCEPT ![t] = f.curToken]
        /\ entry' = [entry EXCEPT ![t] = f.entryToken]
        /\ waiting' = [waiting EXCEPT ![t] = 0]
        /\ exc' = [exc EXCEPT ![t] = NewException(stack[t][k].call)]
        /\ UNCHANGED <<calls, replies>>
-----------------------------------------------------------------------------
Next == \E t \in Tasks :
    \/ StartRoot(t) \/ Finish(t) \/ Cancel(t)
    \/ \E u \in Tasks : Spawn(t, u)
    \/ \E ns \in Namespaces : CallRaw(t, ns) \/ \E kind \in {"rpc", "event"} : Call(t, ns, kind)
    \/ \E id \in 1..Len(calls) : Receive(t, id)
    \/ Raise(t) \/ Return(t) \/ CallCoroFails(t) \/ Handle(t) \/ Resume(t) \/ GiveUp(t)
    \/ \E k \in 1..Len(stack[t]) - 1 : TimeoutInline(t, k)

Spec == Init /\ [][Next]_vars
-----------------------------------------------------------------------------
(* Properties. *)

\* The chain the code of a call should see, from who called whom: the hops from the root
\* down to it.  A direct send_request starts over without a hop.
Path[id \in 0..Len(calls)] ==
    IF id = 0 THEN <<>>
    ELSE IF calls[id].raw THEN <<>> ELSE Append(Path[calls[id].by], id)

Ids == 1..Len(calls)
Exceptions == [origin : {0} \cup Ids, hops : {None} \cup Seq(Ids)]

\* Type invariant; a task that awaits a reply is not also raising.
TypeOK ==
    /\ \A id \in Ids : calls[id].by \in 0..id - 1 /\ calls[id].chain \in Seq(1..id)
    /\ cur \in [Tasks -> Seq(Ids)]
    /\ entry \in [Tasks -> {0} \cup Ids]
    /\ waiting \in [Tasks -> {0} \cup Ids]
    /\ exc \in [Tasks -> {None} \cup Exceptions]
    /\ \A r \in replies : r.call \in Ids /\ r.exc \in {None} \cup Exceptions
    /\ \A t \in Tasks : waiting[t] # 0 => exc[t] = None

\* Code that runs sees the chain of exactly the calls that led to it, and its own entry
\* frame as the boundary: after returns, failures and timeouts of calls that ran inside
\* the same task, next to other tasks, in tasks that outlive the handler that spawned
\* them, and however often its message was delivered.
ChainIsCallPath == \A t \in Tasks : ~Idle(t) =>
    cur[t] = Path[Top(t).call] /\ entry[t] = Top(t).call

\* No message carries more hops than the router that sent it allows, so that calls in a
\* cycle end.
DepthBounded == \A id \in Ids : Len(calls[id].chain) <= Depth[calls[id].ns]

\* The trace an exception carries is the path to the code that raised it, wherever it
\* was passed on by the atasks above: "a deeper hop already recorded the actual point of
\* failure, and it must not be overwritten as it bubbles back up" (trace.py:377-379).
Located(e) == e # None => e.hops \in {None, Path[e.origin]}
TraceIsWhereItRaised == /\ \A t \in Tasks : Located(exc[t])
                        /\ \A r \in replies : Located(r.exc)

\* trace.py:100-102: a hop is_root if it "has no atask hop above it ... There is exactly
\* one such hop per trace, always at seq == 0".  Two context variables that are set and
\* reset in different functions have to agree on it.  A direct send_request is outside
\* of this: it starts the chain over below a handler that is an entry frame.
BelowRaw[id \in 0..Len(calls)] == id # 0 /\ (calls[id].raw \/ BelowRaw[calls[id].by])
OneRootPerTrace == \A id \in Ids :
    ~BelowRaw[id] => (calls[id].isRoot <=> Len(calls[id].chain) = 1)

\* The frames recorded with a hop are the caller's own, "so a hop's frames never reach back
\* into a previous hop's own execution, or into the atasks library/transport/event-loop
\* plumbing between the two" (trace.py:224-225), also when every atask of the path runs on
\* one stack.  Only a task that a handler spawned, which inherits an entry frame that is not
\* on its own stack, records the event loop below it, and nothing else.
FramesOfOneHop == \A id \in Ids :
    calls[id].frames \subseteq IF calls[id].spawned THEN {Code(calls[id].by), Machinery(0)}
                              ELSE {Code(calls[id].by)}
=============================================================================
