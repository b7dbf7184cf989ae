-------------------------- MODULE MCRouterActivation --------------------------
(* Model-checking instances of RouterActivation: two transports and four names,  *)
(* two of them of one kind.                                                      *)
EXTENDS RouterActivation, TLC

CONSTANTS s1, s2, t1, t2, noServer, nothing, ping, sum, job, news

MCServers == {s1, s2}
MCOneTask == {t1}
MCTasks == {t1, t2}
MCNames == {ping, sum, job, news}
MCThreeNames == {ping, sum, job}
Kinds == (ping :> 1) @@ (sum :> 1) @@ (job :> 2) @@ (news :> 3)
MCKindOf == [n \in Names |-> Kinds[n]]
==============================================================================
