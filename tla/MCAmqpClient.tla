---------------------------- MODULE MCAmqpClient ----------------------------
(* Model-checking instances of AmqpClient: the calls are interchangeable      *)
(* among those that have a timeout and among those that have none.            *)
EXTENDS AmqpClient, TLC

CONSTANTS c1, c2, p1, r1, manager, noTask

MCCalls == {c1, c2}
MCTimed == {c2}
MCOneCall == {c1}
MCPubs == {p1}
MCServed == {r1}
MCNone == {}
=============================================================================
