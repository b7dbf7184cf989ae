----------------------------- MODULE MCLoopback -----------------------------
(* Model-checking instance of Loopback: two functions that declare one name,   *)
(* a queue under the same name, and a broadcast.                               *)
EXTENDS Loopback

CONSTANTS c1, c2, ping, pong, job, news, none

MCFunctions == {ping, pong, job, news}
MCKeyOf == [f \in MCFunctions |-> CASE f = job -> <<"queue", "ping">>
                                    [] f = news -> <<"broadcast", "news">>
                                    [] OTHER -> <<"rpc", "ping">>]
MCCalls == {c1, c2}
MCTimed == {c1}
=============================================================================
