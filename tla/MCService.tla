------------------------------ MODULE MCService ------------------------------
(* Model-checking instance of Service: three namespaces, two of them over      *)
(* AMQP, with two scenarios, started with every command line.                  *)
EXTENDS Service

MCOrder == <<"billing", "orders", "local">>
MCAmqp == {"billing", "orders"}
MCScenarios == {"a", "b"}
=============================================================================
