----------------------------- MODULE MCCallChain -----------------------------
(* Model-checking instances of CallChain: a loopback and an AMQP namespace,   *)
(* whose routers allow chains of different length.                            *)
EXTENDS CallChain, TLC

CONSTANTS t1, t2, local, net, none

MCTasks == {t1, t2}
MCNamespaces == {local, net}
MCLoopback == {local}
MCDepth == (local :> 2) @@ (net :> 3)
Symmetric == Permutations(Tasks)
=============================================================================
