------------------------------- MODULE Service -------------------------------
(***************************************************************************)
(* The life of one "atasks service" process: what aiomain connects,        *)
(* starts, activates and awaits, in which order it takes it all down       *)
(* again, and what is left of it when any of these steps raises, a         *)
(* scenario fails or a signal arrives.                                     *)
(***************************************************************************)
EXTENDS Naturals, Sequences

CONSTANTS Order,      \* the -N namespaces, in command-line order
          Amqp,       \* the namespaces whose transport may fail
          Scenarios   \* scenario modules that define aiomain

Names == {Order[k] : k \in DOMAIN Order}
ASSUME OrderAssumption == Order \in Seq(Names) /\ Amqp \subseteq Names

VARIABLES mode,      \* of each namespace: "client", "server" or "loopback"
          options,   \* which of "health", "watchdog" and "systemd" were asked for
          pc,        \* where aiomain is
          next,      \* the position its loop goes on from
          conn,      \* each transport: "none", "half" or "up"
          active,    \* namespaces whose router is activated
          on,        \* which of the options run
          scenario,  \* each scenario's coroutine
          handlers,  \* signal handlers are installed
          exitRun,   \* exit_run
          outcome,   \* how aiomain ended
          failures   \* history: where something raised

commandLine == <<mode, options>>
vars == <<commandLine, pc, next, conn, active, on, scenario, handlers, exitRun, outcome, failures>>

\* Any command line; it never changes.
Init == /\ mode \in [Names -> {"client", "server", "loopback"}]
        /\ options \in SUBSET {"health", "watchdog", "systemd"}
        /\ pc = "connecting" /\ next = 1
        /\ conn = [n \in Names |-> "none"]
        /\ active = {} /\ on = {}
        /\ scenario = [s \in Scenarios |-> "unloaded"]
        /\ handlers = FALSE /\ exitRun = FALSE
        /\ outcome = "none"
        /\ failures = {}

\* server_namespaces, as positions in the command line
Servers == {k \in DOMAIN Order : mode[Order[k]] \in {"server", "loopback"}}

\* should_listen
ShouldListen == (\E n \in Names : mode[n] = "server") \/ options # {}

Goto(stage) == pc' = stage /\ next' = 1
End(how) == Goto("ended") /\ outcome' = how
Quiet == UNCHANGED <<outcome, failures>>

\* Something raised at this point; control passes to the handler or finally clause.
Raised == failures' = failures \cup {pc}

\* The loops over the namespaces, and where aiomain is after each of them.
Loops == {"connecting", "activating", "deactivating", "disconnecting", "aborting"}
Positions == IF pc \in {"activating", "deactivating"} THEN Servers ELSE DOMAIN Order
Rest == {k \in Positions : k >= next}
At(stage, k) == pc = stage /\ k \in Rest /\ \A j \in Rest : k <= j

LoopEnds ==
    /\ pc \in Loops /\ Rest = {}
    /\ CASE pc = "connecting"    -> Goto("starting") /\ UNCHANGED outcome
         [] pc = "activating"    -> Goto("gathering") /\ UNCHANGED outcome
         [] pc = "deactivating"  -> Goto("stopping") /\ UNCHANGED outcome
         [] pc = "disconnecting" -> End(IF failures = {} THEN "ok" ELSE "raised")
         [] pc = "aborting"      -> End("false")
    /\ UNCHANGED <<conn, active, on, scenario, handlers, exitRun, failures>>
-----------------------------------------------------------------------------
(* Startup. *)

Connect(k) ==
    /\ At("connecting", k)
    /\ conn' = [conn EXCEPT ![Order[k]] = "up"]
    /\ next' = k + 1
    /\ UNCHANGED <<pc, active, on, scenario, handlers, exitRun>> /\ Quiet

\* connect() raised, before or after it assigned the connection.
ConnectFails(k) ==
    /\ At("connecting", k) /\ Order[k] \in Amqp
    /\ \E how \in {"none", "half"} : conn' = [conn EXCEPT ![Order[k]] = how]
    /\ Goto("aborting") /\ Raised
    /\ UNCHANGED <<active, on, scenario, handlers, exitRun, outcome>>

StartOptions ==
    /\ pc = "starting"
    /\ on' = options \cap {"health", "watchdog"}
    /\ Goto("loading")
    /\ UNCHANGED <<conn, active, scenario, handlers, exitRun>> /\ Quiet

\* The aiohttp extra is missing or the port is taken; the watchdog is not started.
StartFails ==
    /\ pc = "starting" /\ "health" \in options
    /\ Goto("stopping") /\ Raised
    /\ UNCHANGED <<conn, active, on, scenario, handlers, exitRun, outcome>>

\* A module is executed and its aiomain() coroutine created, to be awaited later.
Load(s) ==
    /\ pc = "loading" /\ scenario[s] = "unloaded"
    /\ scenario' = [scenario EXCEPT ![s] = "created"]
    /\ UNCHANGED <<pc, next, conn, active, on, handlers, exitRun>> /\ Quiet

LoadFails ==
    /\ pc = "loading" /\ \E s \in Scenarios : scenario[s] = "unloaded"
    /\ Goto("stopping") /\ Raised
    /\ UNCHANGED <<conn, active, on, scenario, handlers, exitRun, outcome>>

Loaded ==
    /\ pc = "loading" /\ \A s \in Scenarios : scenario[s] = "created"
    /\ Goto("activating")
    /\ UNCHANGED <<conn, active, on, scenario, handlers, exitRun>> /\ Quiet

Activate(k) ==
    /\ At("activating", k)
    /\ active' = active \cup {Order[k]}
    /\ next' = k + 1
    /\ UNCHANGED <<pc, conn, on, scenario, handlers, exitRun>> /\ Quiet

\* Raised outside of the try whose finally deactivates; the router stays half activated.
ActivateFails(k) ==
    /\ At("activating", k) /\ Order[k] \in Amqp
    /\ active' = active \cup {Order[k]}
    /\ Goto("stopping") /\ Raised
    /\ UNCHANGED <<conn, on, scenario, handlers, exitRun, outcome>>

\* The systemd heartbeat, and asyncio.gather, which wraps every coroutine in a task.
Gather ==
    /\ pc = "gathering"
    /\ on' = on \cup (options \cap {"systemd"})
    /\ scenario' = [s \in Scenarios |-> "running"]
    /\ Goto("awaiting")
    /\ UNCHANGED <<conn, active, handlers, exitRun>> /\ Quiet

HeartbeatUnavailable ==
    /\ pc = "gathering" /\ "systemd" \in options
    /\ Goto("cancelling") /\ Raised
    /\ UNCHANGED <<conn, active, on, scenario, handlers, exitRun, outcome>>
-----------------------------------------------------------------------------
(* Running. *)

\* Scenario tasks run until the loop stops, whatever aiomain does meanwhile.
ScenarioEnds(s) ==
    /\ pc # "ended" /\ scenario[s] = "running"
    /\ \E how \in {"done", "failed"} : scenario' = [scenario EXCEPT ![s] = how]
    /\ UNCHANGED <<pc, next, conn, active, on, handlers, exitRun>> /\ Quiet

\* gather returns, and the process listens or is finished.
GatheredFirst ==
    /\ pc = "awaiting" /\ \E s \in Scenarios : scenario[s] = "done"
    /\ Goto(IF ShouldListen THEN "listening" ELSE "cancelling")
    /\ handlers' = ShouldListen
    /\ UNCHANGED <<conn, active, on, scenario, exitRun>> /\ Quiet
Gathered ==
    /\ pc = "awaiting" /\ \A s \in Scenarios : scenario[s] = "done"
    /\ Goto(IF ShouldListen THEN "listening" ELSE "cancelling")
    /\ handlers' = ShouldListen
    /\ UNCHANGED <<conn, active, on, scenario, exitRun>> /\ Quiet

\* gather raises what the first scenario raised, and leaves the others alone.
GatherRaises ==
    /\ pc = "awaiting" /\ \E s \in Scenarios : scenario[s] = "failed"
    /\ Goto("cancelling") /\ Raised
    /\ UNCHANGED <<conn, active, on, scenario, handlers, exitRun, outcome>>

\* sig_handler, once installed.  Before that the default action ends the process there and
\* then: main() runs a bare loop, which a KeyboardInterrupt leaves without unwinding aiomain.
Signal ==
    /\ pc # "ended"
    /\ IF handlers THEN exitRun' = TRUE /\ UNCHANGED <<pc, next, outcome>>
                   ELSE exitRun' = exitRun /\ End("killed")
    /\ UNCHANGED <<conn, active, on, scenario, handlers, failures>>

StopListeningSkips ==
    /\ pc = "listening" /\ exitRun
    /\ Goto("stopping")
    /\ UNCHANGED <<conn, active, on, scenario, handlers, exitRun>> /\ Quiet
StopListening ==
    /\ pc = "listening" /\ exitRun
    /\ Goto("cancelling")
    /\ UNCHANGED <<conn, active, on, scenario, handlers, exitRun>> /\ Quiet
-----------------------------------------------------------------------------
(* Shutdown. *)

\* The inner finally clause: first the heartbeat, if its task was created, then the routers.
LeaveHeartbeat ==
    /\ pc = "cancelling"
    /\ Goto("deactivating")
    /\ UNCHANGED <<conn, active, on, scenario, handlers, exitRun>> /\ Quiet
CancelHeartbeat ==
    /\ pc = "cancelling"
    /\ on' = on \ {"systemd"}
    /\ Goto("deactivating")
    /\ UNCHANGED <<conn, active, scenario, handlers, exitRun>> /\ Quiet

\* It had failed before: awaiting it raises that only now, and no router is deactivated.
HeartbeatRaises ==
    /\ pc = "cancelling" /\ "systemd" \in on
    /\ on' = on \ {"systemd"}
    /\ Goto("stopping") /\ Raised
    /\ UNCHANGED <<conn, active, scenario, handlers, exitRun, outcome>>

DeactivateAgain(k) ==
    /\ At("deactivating", k)
    /\ active' = active \ {Order[k]}
    /\ UNCHANGED <<pc, next, conn, on, scenario, handlers, exitRun>> /\ Quiet
Deactivate(k) ==
    /\ At("deactivating", k)
    /\ active' = active \ {Order[k]}
    /\ next' = k + 1
    /\ UNCHANGED <<pc, conn, on, scenario, handlers, exitRun>> /\ Quiet

\* Its transport raises: this router and those that follow stay activated.
DeactivateFails(k) ==
    /\ At("deactivating", k) /\ Order[k] \in Amqp
    /\ Goto("stopping") /\ Raised
    /\ UNCHANGED <<conn, active, on, scenario, handlers, exitRun, outcome>>

\* The outer finally clause stops the watchdog and the endpoint; of the heartbeat it knows
\* nothing.
Stop ==
    /\ pc = "stopping"
    /\ on' = on \ {"health", "watchdog"}
    /\ Goto("disconnecting")
    /\ UNCHANGED <<conn, active, scenario, handlers, exitRun>> /\ Quiet

\* _disconnect_connected_transports, after a failed connect and at the end.  A transport
\* that is half connected closes its connection and trips over a missing attribute.
Disconnect(k) ==
    /\ At("disconnecting", k) \/ At("aborting", k)
    /\ LET n == Order[k]
       IN  /\ conn' = [conn EXCEPT ![n] = "none"]
           /\ IF conn[n] = "half" THEN End("raised") /\ Raised
              ELSE next' = k + 1 /\ UNCHANGED pc /\ Quiet
    /\ UNCHANGED <<active, on, scenario, handlers, exitRun>>

\* Closing the connection raises: the transports that follow are not disconnected.
DisconnectFails(k) ==
    /\ At("disconnecting", k) \/ At("aborting", k)
    /\ Order[k] \in Amqp /\ conn[Order[k]] = "up"
    /\ End("raised") /\ Raised
    /\ UNCHANGED <<conn, active, on, scenario, handlers, exitRun>>
-----------------------------------------------------------------------------
LoopStep(k) == \/ Connect(k) \/ ConnectFails(k) \/ Activate(k) \/ ActivateFails(k)
               \/ Deactivate(k) \/ DeactivateFails(k) \/ Disconnect(k) \/ DisconnectFails(k)
Main == \/ \E k \in DOMAIN Order : LoopStep(k)
        \/ LoopEnds \/ StartOptions \/ StartFails
        \/ LoadFails \/ Loaded \/ (\E s \in Scenarios : Load(s))
        \/ Gather \/ HeartbeatUnavailable \/ Gathered \/ GatherRaises \/ StopListening
        \/ CancelHeartbeat \/ HeartbeatRaises \/ Stop

Next == /\ Main \/ Signal \/ \E s \in Scenarios : ScenarioEnds(s)
        /\ UNCHANGED commandLine

Spec == Init /\ [][Next]_vars

\* The loop runs aiomain whenever it can; a scenario may run forever, and no signal needs
\* to come.
FairSpec == Spec /\ WF_vars(Main /\ UNCHANGED commandLine)
-----------------------------------------------------------------------------
(* Properties. *)

\* Type invariant.
TypeOK ==
    /\ mode \in [Names -> {"client", "server", "loopback"}]
    /\ options \subseteq {"health", "watchdog", "systemd"}
    /\ pc \in Loops \cup {"starting", "loading", "gathering", "awaiting", "listening",
                          "cancelling", "stopping", "ended"}
    /\ next \in 1..Len(Order) + 1
    /\ conn \in [Names -> {"none", "half", "up"}]
    /\ active \subseteq Names
    /\ on \subseteq options
    /\ scenario \in [Scenarios -> {"unloaded", "created", "running", "done", "failed"}]
    /\ handlers \in BOOLEAN /\ exitRun \in BOOLEAN
    /\ outcome \in {"none", "ok", "false", "raised", "killed"}
    /\ (outcome = "none") <=> (pc # "ended")

\* However aiomain ends by itself, the watchdog thread, the HTTP endpoint and the heartbeat
\* are stopped - a watchdog left on would abort the process once the loop is closed - and
\* every transport is disconnected, unless disconnecting one of them raised.  Two clauses
\* stop them, one for the heartbeat alone: every way out of aiomain has to pass the places
\* that stop what it has started by then.
ReleasesAll == pc = "ended" /\ outcome # "killed" =>
    /\ on = {}
    /\ failures \cap {"aborting", "disconnecting"} = {} => \A n \in Names : conn[n] = "none"

\* A router never serves on a transport that was disconnected under it: routers are
\* deactivated first, unless activating or deactivating one of them, or the heartbeat, raised.
ActiveIsConnected == \A n \in active :
    conn[n] = "up" \/ failures \cap {"activating", "cancelling", "deactivating"} # {}

\* A signal ends the process, whatever fails on the way down.
SignalEnds == exitRun ~> pc = "ended"

\* dev/tests/test_009_run_shutdown.py:115: the command "must exit cleanly, with no leftover
\* tasks" - when nothing raised, every scenario that was loaded has run to its end.
NoLeftoverTasks == outcome = "ok" => \A s \in Scenarios : scenario[s] = "done"
=============================================================================
