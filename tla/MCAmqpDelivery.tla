--------------------------- MODULE MCAmqpDelivery ---------------------------
(* Model-checking instances of AmqpDelivery.  "job" is a task-queue name,     *)
(* "news" a broadcast topic, "fib" an RPC name; the handler of the request q1 *)
(* awaits q2, for the same name.                                              *)
EXTENDS AmqpDelivery, TLC

CONSTANTS i1, i2, none

MCInstances == {i1, i2}

\* Two workers compete for an event.
EventNames == {"job"}
EventKinds == "job" :> "queue"
EventServes == [i \in Instances |-> {"job"}]
EventMessages == {"e1"}
EventNameOf == "e1" :> "job"
EventChild == "e1" :> none

\* One worker serves requests, one of which makes a request for the name it was sent to;
\* another subscribes to a broadcast.
MixedNames == {"fib", "news"}
MixedKinds == ("fib" :> "rpc") @@ ("news" :> "broadcast")
MixedServes == (i1 :> {"fib"}) @@ (i2 :> {"news"})
MixedMessages == {"q1", "q2", "b1"}
MixedNameOf == ("q1" :> "fib") @@ ("q2" :> "fib") @@ ("b1" :> "news")
MixedChild == ("q1" :> "q2") @@ ("q2" :> none) @@ ("b1" :> none)
=============================================================================
