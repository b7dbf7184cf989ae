---------------------------- MODULE EventContract ----------------------------
(***************************************************************************)
(* What a Transport promises about publish_event, the task-queue pattern,  *)
(* independently of how it is implemented (atasks/transport/base.py and    *)
(* the delivery semantics in the README of atasks): an event that was      *)
(* queued is processed, once if nothing fails, again at most once for      *)
(* every failure, and forgotten only with a process that crashed.          *)
(***************************************************************************)
EXTENDS Naturals

CONSTANT Events          \* the invocations of publish_event

VARIABLES state,         \* "new", "dropped" (nobody ever registered the name),
                         \* "pending", "done" or "lost"
          runs,          \* how often each event's callback was called, anywhere
          failures       \* connections and processes lost so far

vars == <<state, runs, failures>>

Init == /\ state = [e \in Events |-> "new"]
        /\ runs = [e \in Events |-> 0]
        /\ failures = 0

Publish(e) == /\ state[e] = "new"
              /\ \E s \in {"pending", "dropped"} : state' = [state EXCEPT ![e] = s]
              /\ UNCHANGED <<runs, failures>>

\* The first run may come at any time; each failure permits one more.
MayRun(e) == state[e] \in {"pending", "done"} /\ runs[e] <= failures

Run(e) == /\ MayRun(e)
          /\ state' = [state EXCEPT ![e] = "done"]
          /\ runs' = [runs EXCEPT ![e] = @ + 1]
          /\ UNCHANGED failures

\* A connection is lost: no event goes with it.
Loss == failures' = failures + 1 /\ UNCHANGED <<state, runs>>

\* A process is lost, and events it was about to handle may be.
Crash == /\ failures' = failures + 1
         /\ \E gone \in SUBSET {e \in Events : state[e] = "pending"} :
              state' = [e \in Events |-> IF e \in gone THEN "lost" ELSE state[e]]
         /\ UNCHANGED runs

Next == Loss \/ Crash \/ \E e \in Events : Publish(e) \/ Run(e)

Spec == Init /\ [][Next]_vars
=============================================================================
