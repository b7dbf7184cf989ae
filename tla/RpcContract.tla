---------------------------- MODULE RpcContract ----------------------------
(***************************************************************************)
(* What a Transport promises about send_request, independently of how it   *)
(* is implemented (atasks/transport/base.py, Transport.send_request and    *)
(* the exception classes above it).  A call is one invocation of           *)
(* send_request; the callee may run and answer while the call is in flight *)
(* or after it has already been given up, but a call ends exactly once.    *)
(***************************************************************************)
CONSTANTS Calls,          \* the invocations of send_request
          Timed,          \* those that were given a timeout
          TellsCancel     \* whether the runtime tells a real cancellation from
                          \* one the client library uses internally

Outcomes == {"result", "noroute", "lost", "timeout", "cancelled"}

VARIABLES status,         \* "idle", "inflight" or the outcome of each call
          answered,       \* calls for which a handler has produced a response
          cancelReq       \* calls whose task somebody has cancelled

vars == <<status, answered, cancelReq>>

Init == /\ status = [c \in Calls |-> "idle"]
        /\ answered = {}
        /\ cancelReq = {}

\* The caller awaits send_request.
Start(c) == /\ status[c] = "idle"
            /\ status' = [status EXCEPT ![c] = "inflight"]
            /\ UNCHANGED <<answered, cancelReq>>

\* A handler answers.  A timeout or a lost connection does not stop the work,
\* so this may come after the end of the call - except after NoRouteError,
\* which says the request never reached a queue.
Answer(c) == /\ status[c] \notin {"idle", "noroute"}
             /\ answered' = answered \cup {c}
             /\ UNCHANGED <<status, cancelReq>>

Cancel(c) == /\ status[c] = "inflight"
             /\ cancelReq' = cancelReq \cup {c}
             /\ UNCHANGED <<status, answered>>

\* What must hold for a call to end with outcome o.
MayEnd(c, o) == /\ o = "result" => c \in answered
                /\ o = "noroute" => c \notin answered
                /\ o = "timeout" => c \in Timed
                /\ o = "cancelled" => c \in cancelReq \/ ~TellsCancel

End(c) == /\ status[c] = "inflight"
          /\ \E o \in Outcomes :
               /\ MayEnd(c, o)
               /\ status' = [status EXCEPT ![c] = o]
          /\ UNCHANGED <<answered, cancelReq>>

\* A cancellation that is delivered at once ends the call in the same step.
CancelNow(c) == /\ status[c] = "inflight"
                /\ cancelReq' = cancelReq \cup {c}
                /\ status' = [status EXCEPT ![c] = "cancelled"]
                /\ UNCHANGED answered

Next == \E c \in Calls : \/ Start(c) \/ Answer(c) \/ Cancel(c)
                         \/ End(c) \/ CancelNow(c)

Spec == Init /\ [][Next]_vars
=============================================================================
