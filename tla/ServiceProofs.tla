---------------------------- MODULE ServiceProofs ----------------------------
(***************************************************************************)
(* Theorems about Service, for any namespaces, in any order and even named *)
(* twice, and any scenarios.  The inductive invariant says, for each stage *)
(* of aiomain, what is connected, active and running by then.              *)
(***************************************************************************)
EXTENDS Service, TLAPS

\* Nothing is started before every transport is connected.
NothingYet == /\ pc \in {"connecting", "aborting"} => active = {} /\ on = {}
              /\ pc \in {"starting", "loading"} => active = {}

\* From the first connect to the last disconnect, the transports aiomain has been through.
Connected ==
    /\ pc = "connecting" => \A k \in DOMAIN Order : k < next => conn[Order[k]] = "up"
    /\ pc \in {"starting", "loading", "activating", "gathering", "awaiting", "listening",
               "cancelling", "deactivating", "stopping"} => \A n \in Names : conn[n] = "up"
    /\ pc \in {"disconnecting", "aborting"} =>
         \A k \in DOMAIN Order : k < next => conn[Order[k]] = "none"

\* Only servers are activated, and those aiomain has been through are deactivated.
Activations ==
    /\ pc \in {"activating", "gathering", "awaiting", "listening", "cancelling"} =>
         active \subseteq {Order[k] : k \in Servers}
    /\ pc = "deactivating" => active \subseteq {Order[k] : k \in {j \in Servers : j >= next}}
    /\ pc \in {"stopping", "disconnecting"} =>
         active = {} \/ failures \cap {"activating", "cancelling", "deactivating"} # {}

\* The options are down before the first transport is: the heartbeat, which only the inner
\* try runs, when its finally clause is through, the others after that.
OptionsStopped ==
    /\ "systemd" \in on => pc \in {"awaiting", "listening", "cancelling"} \/ outcome = "killed"
    /\ pc = "disconnecting" => on = {}

\* Without a failure, aiomain shuts down once every scenario is done.
ScenariosDone ==
    pc = "listening" \/ (pc \in {"cancelling", "deactivating", "stopping", "disconnecting"} /\ failures = {})
      => \A s \in Scenarios : scenario[s] = "done"

IInv == /\ TypeOK /\ NothingYet /\ Connected /\ Activations /\ OptionsStopped /\ ScenariosDone
        /\ ReleasesAll /\ ActiveIsConnected /\ NoLeftoverTasks

LEMMA Positive == Len(Order) \in Nat /\ DOMAIN Order = 1..Len(Order)
                  /\ \A k \in DOMAIN Order : Order[k] \in Names
BY OrderAssumption DEF Names

\* Where the loops start and go on is in range.
LEMMA InRange == /\ 1 \in 1..Len(Order) + 1
                 /\ \A k \in DOMAIN Order : k + 1 \in 1..Len(Order) + 1
<1>1. Len(Order) \in Nat /\ DOMAIN Order = 1..Len(Order)
  BY Positive
<1>2. QED BY <1>1

\* The conjuncts of TypeOK, by what the steps change together.
ControlOK == /\ pc \in Loops \cup {"starting", "loading", "gathering", "awaiting", "listening",
                                   "cancelling", "stopping", "ended"}
             /\ outcome \in {"none", "ok", "false", "raised", "killed"}
             /\ (outcome = "none") <=> (pc # "ended")
HeldOK == /\ mode \in [Names -> {"client", "server", "loopback"}]
          /\ options \subseteq {"health", "watchdog", "systemd"}
          /\ active \subseteq Names
          /\ on \subseteq options
ConnOK == conn \in [Names -> {"none", "half", "up"}]
ScenarioOK == scenario \in [Scenarios -> {"unloaded", "created", "running", "done", "failed"}]
SignalsOK == handlers \in BOOLEAN /\ exitRun \in BOOLEAN
NextOK == next \in 1..Len(Order) + 1

LEMMA TypeParts == TypeOK <=> /\ ControlOK /\ HeldOK /\ ConnOK /\ ScenarioOK /\ SignalsOK
                              /\ NextOK
BY DEF TypeOK, ControlOK, HeldOK, ConnOK, ScenarioOK, SignalsOK, NextOK
LEMMA TypePartsNext == TypeOK' <=> /\ ControlOK' /\ HeldOK' /\ ConnOK' /\ ScenarioOK'
                                   /\ SignalsOK' /\ NextOK'
BY DEF TypeOK, ControlOK, HeldOK, ConnOK, ScenarioOK, SignalsOK, NextOK

\* The initial states satisfy the invariant.
LEMMA InitEstablishes == Init => IInv
<1>1. SUFFICES ASSUME Init PROVE IInv
  OBVIOUS
<1>2. TypeOK
  <2>1. ControlOK /\ SignalsOK /\ HeldOK
    BY <1>1 DEF Init, ControlOK, SignalsOK, HeldOK, Loops
  <2>2. ConnOK /\ ScenarioOK
    BY <1>1 DEF Init, ConnOK, ScenarioOK
  <2>3. NextOK
    BY <1>1, InRange DEF Init, NextOK
  <2>4. QED BY <2>1, <2>2, <2>3, TypeParts
<1>3. NothingYet /\ Connected /\ Activations /\ OptionsStopped /\ ScenariosDone
  BY <1>1, Positive DEF Init, NothingYet, Connected, Activations, OptionsStopped, ScenariosDone
<1>4. ReleasesAll /\ ActiveIsConnected /\ NoLeftoverTasks
  BY <1>1 DEF Init, ReleasesAll, ActiveIsConnected, NoLeftoverTasks
<1>5. QED BY <1>2, <1>3, <1>4 DEF IInv
-----------------------------------------------------------------------------
(* Preservation, one lemma for each part of the life of the process. *)

\* What every step leaves alone: the command line, and with it who serves.
LEMMA ServersStay == ASSUME UNCHANGED commandLine PROVE Servers' = Servers
BY DEF Servers, commandLine

USE DEF commandLine, Goto, End, Quiet, Raised, Loops

\* The end of a loop: whoever is left to go through is nobody, so all were gone through.
LEMMA LoopEndsPreserves == ASSUME IInv, LoopEnds, UNCHANGED commandLine PROVE IInv'
<1>1. TypeOK'
  <2>1. TypeOK
    BY DEF IInv
  <2>2. ControlOK' /\ SignalsOK'
    BY <2>1, TypeParts DEF ControlOK, SignalsOK, LoopEnds
  <2>3. HeldOK'
    BY <2>1, TypeParts, Positive DEF HeldOK, LoopEnds
  <2>4. ConnOK'
    BY <2>1, TypeParts, Positive DEF ConnOK, LoopEnds
  <2>5. ScenarioOK'
    BY <2>1, TypeParts DEF ScenarioOK, LoopEnds
  <2>6. NextOK'
    BY <2>1, TypeParts, InRange DEF NextOK, LoopEnds
  <2>7. QED BY <2>2, <2>3, <2>4, <2>5, <2>6, TypePartsNext
<1>2. NothingYet'
  BY DEF IInv, NothingYet, LoopEnds
<1>3. \A k \in DOMAIN Order : pc \in {"connecting", "disconnecting", "aborting"} => k < next
  BY Positive DEF LoopEnds, Rest, Positions, IInv, TypeOK
<1>4. \A n \in Names : \E k \in DOMAIN Order : n = Order[k]
  BY DEF Names
<1>5. Connected'
  BY <1>3, <1>4, Positive DEF IInv, Connected, LoopEnds
<1>6. pc = "deactivating" => active = {}
  BY DEF LoopEnds, Rest, Positions, IInv, Activations
<1>7. Activations'
  BY <1>6, ServersStay DEF IInv, Activations, LoopEnds
<1>8. OptionsStopped' /\ ScenariosDone'
  <2>1. "systemd" \notin on
    BY DEF LoopEnds, IInv, OptionsStopped, TypeOK
  <2>2. on' = on /\ pc' # "disconnecting"
    BY DEF LoopEnds
  <2>3. ScenariosDone'
    BY DEF IInv, ScenariosDone, LoopEnds
  <2>4. QED BY <2>1, <2>2, <2>3 DEF OptionsStopped
<1>9. ReleasesAll'
  <2>1. pc \in {"disconnecting", "aborting"} => on = {} /\ \A n \in Names : conn[n] = "none"
    BY <1>3, <1>4 DEF IInv, NothingYet, OptionsStopped, Connected
  <2>2. pc' = "ended" => pc \in {"disconnecting", "aborting"}
    BY DEF LoopEnds
  <2>3. on' = on /\ conn' = conn
    BY DEF LoopEnds
  <2>4. QED BY <2>1, <2>2, <2>3 DEF ReleasesAll
<1>10. ActiveIsConnected' /\ NoLeftoverTasks'
  BY DEF IInv, ActiveIsConnected, NoLeftoverTasks, ScenariosDone, LoopEnds, TypeOK
<1>11. QED
  BY <1>1, <1>2, <1>5, <1>7, <1>8, <1>9, <1>10 DEF IInv

\* Connecting, one transport or a failure.
LEMMA ConnectPreserves ==
  ASSUME IInv, NEW k \in DOMAIN Order, Connect(k) \/ ConnectFails(k), UNCHANGED commandLine
  PROVE  IInv'
<1>1. pc = "connecting" /\ k >= next /\ next \in Nat /\ \A j \in DOMAIN Order : j < k => j < next
  BY Positive DEF Connect, ConnectFails, At, Rest, Positions, IInv, TypeOK
<1>2. TypeOK'
  <2>1. TypeOK
    BY DEF IInv
  <2>2. ControlOK' /\ SignalsOK'
    BY <2>1, TypeParts, <1>1 DEF ControlOK, SignalsOK, Connect, ConnectFails
  <2>3. HeldOK'
    BY <2>1, TypeParts, Positive, <1>1 DEF HeldOK, Connect, ConnectFails
  <2>4. ConnOK'
    BY <2>1, TypeParts, Positive, <1>1 DEF ConnOK, Connect, ConnectFails
  <2>5. ScenarioOK'
    BY <2>1, TypeParts, <1>1 DEF ScenarioOK, Connect, ConnectFails
  <2>6. NextOK'
    BY <2>1, TypeParts, InRange, <1>1 DEF NextOK, Connect, ConnectFails
  <2>7. QED BY <2>2, <2>3, <2>4, <2>5, <2>6, TypePartsNext
<1>3. NothingYet'
  BY <1>1 DEF IInv, NothingYet, Connect, ConnectFails
<1>4. Connected'
  BY <1>1, Positive DEF IInv, Connected, Connect, ConnectFails, TypeOK
<1>5. Activations' /\ OptionsStopped' /\ ScenariosDone'
  BY <1>1 DEF IInv, Activations, OptionsStopped, ScenariosDone, Connect, ConnectFails
<1>6. ReleasesAll' /\ ActiveIsConnected' /\ NoLeftoverTasks'
  BY <1>1, <1>2 DEF IInv, ReleasesAll, ActiveIsConnected, NoLeftoverTasks, NothingYet, Connect,
                    ConnectFails, TypeOK
<1>7. QED
  BY <1>2, <1>3, <1>4, <1>5, <1>6 DEF IInv

\* Activating one router, with or without a failure.
LEMMA ActivatePreserves ==
  ASSUME IInv, NEW k \in DOMAIN Order, Activate(k) \/ ActivateFails(k), UNCHANGED commandLine
  PROVE  IInv'
<1>1. pc = "activating" /\ k \in Servers
  BY DEF Activate, ActivateFails, At, Rest, Positions
<1>2. TypeOK'
  <2>1. TypeOK
    BY DEF IInv
  <2>2. ControlOK' /\ SignalsOK'
    BY <2>1, TypeParts, <1>1 DEF ControlOK, SignalsOK, Activate, ActivateFails
  <2>3. HeldOK'
    BY <2>1, TypeParts, Positive, <1>1 DEF HeldOK, Activate, ActivateFails
  <2>4. ConnOK'
    BY <2>1, TypeParts, Positive, <1>1 DEF ConnOK, Activate, ActivateFails
  <2>5. ScenarioOK'
    BY <2>1, TypeParts, <1>1 DEF ScenarioOK, Activate, ActivateFails
  <2>6. NextOK'
    BY <2>1, TypeParts, InRange, <1>1 DEF NextOK, Activate, ActivateFails
  <2>7. QED BY <2>2, <2>3, <2>4, <2>5, <2>6, TypePartsNext
<1>3. NothingYet' /\ Connected' /\ OptionsStopped' /\ ScenariosDone'
  BY <1>1 DEF IInv, NothingYet, Connected, OptionsStopped, ScenariosDone, Activate, ActivateFails
<1>4. Activations'
  BY <1>1, ServersStay DEF IInv, Activations, Activate, ActivateFails
<1>5. ReleasesAll' /\ NoLeftoverTasks'
  BY <1>1, <1>2 DEF IInv, ReleasesAll, NoLeftoverTasks, Activate, ActivateFails, TypeOK
<1>6. ActiveIsConnected'
  BY <1>1, <1>2 DEF IInv, ActiveIsConnected, Connected, Activate, ActivateFails, TypeOK
<1>7. QED
  BY <1>2, <1>3, <1>4, <1>5, <1>6 DEF IInv

\* Deactivating one router, or raising while doing so.
LEMMA DeactivatePreserves ==
  ASSUME IInv, NEW i \in DOMAIN Order, Deactivate(i) \/ DeactivateFails(i), UNCHANGED commandLine
  PROVE  IInv'
<1>1. pc = "deactivating"
  BY DEF Deactivate, DeactivateFails, At
<1>2. TypeOK'
  <2>1. TypeOK
    BY DEF IInv
  <2>2. ControlOK' /\ SignalsOK'
    BY <2>1, TypeParts, <1>1 DEF ControlOK, SignalsOK, Deactivate, DeactivateFails
  <2>3. HeldOK'
    BY <2>1, TypeParts, Positive, <1>1 DEF HeldOK, Deactivate, DeactivateFails
  <2>4. ConnOK'
    BY <2>1, TypeParts, Positive, <1>1 DEF ConnOK, Deactivate, DeactivateFails
  <2>5. ScenarioOK'
    BY <2>1, TypeParts, <1>1 DEF ScenarioOK, Deactivate, DeactivateFails
  <2>6. NextOK'
    BY <2>1, TypeParts, InRange, <1>1 DEF NextOK, Deactivate, DeactivateFails
  <2>7. QED BY <2>2, <2>3, <2>4, <2>5, <2>6, TypePartsNext
<1>3. NothingYet' /\ Connected' /\ OptionsStopped' /\ ScenariosDone'
  BY <1>1 DEF IInv, NothingYet, Connected, OptionsStopped, ScenariosDone, Deactivate,
              DeactivateFails
<1>4. Activations'
  <2>1. CASE DeactivateFails(i)
    BY <2>1, <1>1 DEF Activations, DeactivateFails
  <2>2. ASSUME NEW k \in DOMAIN Order, Deactivate(k) PROVE Activations'
    <3>1. \A j \in Servers : j >= next => j >= k
      BY <2>2, <1>1 DEF Deactivate, At, Rest, Positions
    <3>2. k \in Nat /\ \A j \in Servers : j \in Nat
      BY Positive DEF Servers
    <3>3. active \subseteq {Order[j] : j \in {l \in Servers : l >= next}}
      BY <1>1 DEF IInv, Activations
    <3>4. ASSUME NEW n \in active' PROVE n \in {Order[j] : j \in {l \in Servers : l >= next'}}
      <4>1. n \in active /\ n # Order[k] /\ next' = k + 1
        BY <2>2 DEF Deactivate
      <4>2. PICK j \in Servers : j >= next /\ n = Order[j]
        BY <4>1, <3>3
      <4>3. j >= k /\ j # k
        BY <4>1, <4>2, <3>1
      <4>4. j >= k + 1
        BY <4>3, <3>2
      <4>5. QED BY <4>1, <4>2, <4>4
    <3>5. pc' = "deactivating"
      BY <2>2, <1>1 DEF Deactivate
    <3>6. QED BY <3>4, <3>5, ServersStay DEF Activations
  <2>3. QED BY <2>1, <2>2
<1>5. ReleasesAll' /\ NoLeftoverTasks'
  BY <1>1, <1>2 DEF IInv, ReleasesAll, NoLeftoverTasks, Deactivate, DeactivateFails, TypeOK
<1>6. ActiveIsConnected'
  BY <1>1 DEF IInv, ActiveIsConnected, Deactivate, DeactivateFails
<1>7. QED
  BY <1>2, <1>3, <1>4, <1>5, <1>6 DEF IInv

\* Disconnecting one transport, at the end or after a failed connect.
LEMMA DisconnectPreserves ==
  ASSUME IInv, NEW k \in DOMAIN Order, Disconnect(k) \/ DisconnectFails(k),
         UNCHANGED commandLine
  PROVE  IInv'
<1>1. /\ pc \in {"disconnecting", "aborting"} /\ k >= next /\ next \in Nat
      /\ \A j \in DOMAIN Order : j < k => j < next
  BY Positive DEF Disconnect, DisconnectFails, At, Rest, Positions, IInv, TypeOK
<1>2. Order[k] \in Names /\ k \in Nat
  BY Positive
<1>3. TypeOK'
  <2>1. TypeOK
    BY DEF IInv
  <2>2. ControlOK' /\ SignalsOK'
    BY <2>1, TypeParts, <1>1 DEF ControlOK, SignalsOK, Disconnect, DisconnectFails
  <2>3. HeldOK'
    BY <2>1, TypeParts, Positive, <1>1 DEF HeldOK, Disconnect, DisconnectFails
  <2>4. ConnOK'
    BY <2>1, TypeParts, Positive, <1>1 DEF ConnOK, Disconnect, DisconnectFails
  <2>5. ScenarioOK'
    BY <2>1, TypeParts, <1>1 DEF ScenarioOK, Disconnect, DisconnectFails
  <2>6. NextOK'
    BY <2>1, TypeParts, InRange, <1>1 DEF NextOK, Disconnect, DisconnectFails
  <2>7. QED BY <2>2, <2>3, <2>4, <2>5, <2>6, TypePartsNext
<1>4. NothingYet' /\ OptionsStopped'
  BY <1>1 DEF IInv, NothingYet, OptionsStopped, Disconnect, DisconnectFails
<1>5. Connected'
  BY <1>1, Positive DEF IInv, Connected, Disconnect, DisconnectFails, TypeOK
<1>6. Activations' /\ ScenariosDone'
  BY <1>1 DEF IInv, Activations, ScenariosDone, Disconnect, DisconnectFails
<1>7. ReleasesAll' /\ NoLeftoverTasks'
  BY <1>1, <1>3 DEF IInv, ReleasesAll, NoLeftoverTasks, NothingYet, OptionsStopped, Disconnect,
                    DisconnectFails, TypeOK
<1>8. ActiveIsConnected'
  BY <1>1 DEF IInv, ActiveIsConnected, NothingYet, Activations, Disconnect, DisconnectFails
<1>9. QED
  BY <1>3, <1>4, <1>5, <1>6, <1>7, <1>8 DEF IInv

Straight == \/ StartOptions \/ StartFails \/ LoadFails \/ Loaded \/ (\E s \in Scenarios : Load(s))
            \/ Gather \/ HeartbeatUnavailable \/ Gathered \/ GatherRaises \/ StopListening
            \/ CancelHeartbeat \/ HeartbeatRaises \/ Stop
            \/ \E s \in Scenarios : ScenarioEnds(s)

\* The steps between the loops, and the scenarios' own.
LEMMA StraightPreserves == ASSUME IInv, Straight, UNCHANGED commandLine PROVE IInv'
<1> USE DEF Straight, StartOptions, StartFails, LoadFails, Loaded, Load, Gather,
            HeartbeatUnavailable, Gathered, GatherRaises, StopListening, CancelHeartbeat,
            HeartbeatRaises, Stop, ScenarioEnds
<1>1. TypeOK'
  <2>1. TypeOK
    BY DEF IInv
  <2>2. ControlOK' /\ SignalsOK'
    <3>1. ControlOK'
      BY <2>1, TypeParts DEF ControlOK
    <3>2. ShouldListen \in BOOLEAN
      BY DEF ShouldListen
    <3>3. SignalsOK'
      BY <2>1, TypeParts, <3>2 DEF SignalsOK
    <3>4. QED BY <3>1, <3>3
  <2>3. HeldOK'
    BY <2>1, TypeParts, Positive DEF HeldOK
  <2>4. ConnOK'
    BY <2>1, TypeParts, Positive DEF ConnOK
  <2>5. ScenarioOK'
    <3>1. ScenarioOK
      BY <2>1, TypeParts
    <3>2. ASSUME NEW s \in Scenarios, Load(s) PROVE scenario' = [scenario EXCEPT ![s] = "created"]
      BY <3>2
    <3>3. ASSUME NEW s \in Scenarios, ScenarioEnds(s)
          PROVE  \E how \in {"done", "failed"} : scenario' = [scenario EXCEPT ![s] = how]
      BY <3>3
    <3>4. \/ scenario' = scenario \/ scenario' = [s \in Scenarios |-> "running"]
          \/ (\E s \in Scenarios : Load(s)) \/ (\E s \in Scenarios : ScenarioEnds(s))
      OBVIOUS
    <3> HIDE DEF Straight, StartOptions, StartFails, LoadFails, Loaded, Load, Gather,
                 HeartbeatUnavailable, Gathered, GatherRaises, StopListening, CancelHeartbeat,
                 HeartbeatRaises, Stop, ScenarioEnds
    <3>5. QED BY <3>1, <3>2, <3>3, <3>4 DEF ScenarioOK
  <2>6. NextOK'
    BY <2>1, TypeParts, InRange DEF NextOK
  <2>7. QED BY <2>2, <2>3, <2>4, <2>5, <2>6, TypePartsNext
<1>2. NothingYet' /\ OptionsStopped'
  <2>1. NothingYet'
    BY DEF IInv, NothingYet
  <2>2. on \subseteq {"health", "watchdog", "systemd"} /\ (outcome = "none" <=> pc # "ended")
    BY DEF IInv, TypeOK
  <2>3. "systemd" \in on => pc \in {"awaiting", "listening", "cancelling"} \/ pc = "ended"
    BY <2>2 DEF IInv, OptionsStopped
  <2>4. "systemd" \in on' => pc' \in {"awaiting", "listening", "cancelling"} \/ outcome' = "killed"
    BY <2>2 DEF IInv, OptionsStopped
  <2>5. pc' = "disconnecting" => on' = {}
    BY <2>2, <2>3 DEF IInv, OptionsStopped
  <2>6. QED BY <2>1, <2>4, <2>5 DEF OptionsStopped
<1>3. Connected'
  BY Positive DEF IInv, Connected
<1>4. Activations'
  BY Positive, ServersStay DEF IInv, Activations, NothingYet, Servers
<1>5. ScenariosDone' /\ NoLeftoverTasks'
  BY DEF IInv, ScenariosDone, NoLeftoverTasks, TypeOK
<1>6. ReleasesAll' /\ ActiveIsConnected'
  BY DEF IInv, ReleasesAll, ActiveIsConnected, TypeOK
<1>7. QED
  BY <1>1, <1>2, <1>3, <1>4, <1>5, <1>6 DEF IInv

\* A signal, handled or not.
LEMMA SignalPreserves == ASSUME IInv, Signal, UNCHANGED commandLine PROVE IInv'
<1>1. TypeOK'
  <2>1. TypeOK
    BY DEF IInv
  <2>2. ControlOK' /\ SignalsOK'
    BY <2>1, TypeParts DEF ControlOK, SignalsOK, Signal
  <2>3. HeldOK'
    BY <2>1, TypeParts, Positive DEF HeldOK, Signal
  <2>4. ConnOK'
    BY <2>1, TypeParts, Positive DEF ConnOK, Signal
  <2>5. ScenarioOK'
    BY <2>1, TypeParts DEF ScenarioOK, Signal
  <2>6. NextOK'
    BY <2>1, TypeParts, InRange DEF NextOK, Signal
  <2>7. QED BY <2>2, <2>3, <2>4, <2>5, <2>6, TypePartsNext
<1>2. NothingYet' /\ Connected' /\ OptionsStopped' /\ ScenariosDone'
  BY DEF IInv, NothingYet, Connected, OptionsStopped, ScenariosDone, Signal
<1>3. Activations'
  BY ServersStay DEF IInv, Activations, Signal
<1>4. ReleasesAll' /\ ActiveIsConnected' /\ NoLeftoverTasks'
  BY DEF IInv, ReleasesAll, ActiveIsConnected, NoLeftoverTasks, Signal
<1>5. QED BY <1>1, <1>2, <1>3, <1>4 DEF IInv

\* A step that changes nothing.
LEMMA StutterPreserves == ASSUME IInv, UNCHANGED vars PROVE IInv'
BY DEF vars, IInv, TypeOK, NothingYet, Connected, Activations, OptionsStopped, ScenariosDone,
       ReleasesAll, ActiveIsConnected, NoLeftoverTasks, Servers
-----------------------------------------------------------------------------
(* Progress. *)

\* The stages of aiomain.  A connect() that fails leads to "aborting" and from there to the
\* end; every other failure leads to a later stage of the same order.
Stage == [connecting |-> 1, aborting |-> 2, starting |-> 3, loading |-> 4, activating |-> 5,
          gathering |-> 6, awaiting |-> 7, listening |-> 8, cancelling |-> 9,
          deactivating |-> 10, stopping |-> 11, disconnecting |-> 12, ended |-> 13]
Unloaded == {s \in Scenarios : scenario[s] = "unloaded"}

\* A step of aiomain: a later stage, a later position of the loop, or one scenario less to load.
Forward == \/ Stage[pc'] > Stage[pc]
           \/ pc' = pc /\ next' > next
           \/ pc' = pc /\ pc = "loading" /\ Unloaded' \subseteq Unloaded /\ Unloaded' # Unloaded

\* A step beside aiomain leaves it where it is, or ends the process.
Aside == \/ pc' = pc /\ next' = next
         \/ pc # "ended" /\ pc' = "ended"

\* aiomain polls exit_run after the handlers are installed, or is on its way down by then.
SignalsHeard == /\ exitRun => handlers
                /\ handlers => pc \in {"listening", "cancelling", "deactivating", "stopping",
                                       "disconnecting", "ended"}

\* Where aiomain goes on after a loop.
LEMMA AfterLoop ==
    ASSUME LoopEnds
    PROVE  /\ \/ pc = "connecting" /\ pc' = "starting"
              \/ pc = "activating" /\ pc' = "gathering"
              \/ pc = "deactivating" /\ pc' = "stopping"
              \/ pc \in {"disconnecting", "aborting"} /\ pc' = "ended"
           /\ UNCHANGED <<handlers, exitRun>>
<1>1. CASE pc = "connecting"
  BY <1>1 DEF LoopEnds
<1>2. CASE pc = "activating"
  BY <1>2 DEF LoopEnds
<1>3. CASE pc = "deactivating"
  BY <1>3 DEF LoopEnds
<1>4. CASE pc = "disconnecting"
  BY <1>4 DEF LoopEnds
<1>5. CASE pc = "aborting"
  BY <1>5 DEF LoopEnds
<1>6. QED BY <1>1, <1>2, <1>3, <1>4, <1>5 DEF LoopEnds

\* The loops go on from a later position or leave the stage.
LEMMA LoopsForward ==
    ASSUME TypeOK, LoopEnds \/ (\E k \in DOMAIN Order : LoopStep(k))
    PROVE  Forward
<1>1. next \in Nat /\ DOMAIN Order \subseteq Nat
  BY Positive DEF TypeOK
<1>2. CASE LoopEnds
  BY <1>2, AfterLoop DEF Forward, Stage
<1>3. ASSUME NEW k \in DOMAIN Order, LoopStep(k) PROVE Forward
  <2>1. CASE Connect(k) \/ Activate(k) \/ Deactivate(k)
    BY <1>1, <2>1 DEF Connect, Activate, Deactivate, At, Rest, Forward
  <2>2. CASE ConnectFails(k) \/ ActivateFails(k) \/ DeactivateFails(k) \/ DisconnectFails(k)
    BY <2>2 DEF ConnectFails, ActivateFails, DeactivateFails, DisconnectFails, At, Forward, Stage
  <2>3. CASE Disconnect(k)
    BY <1>1, <2>3 DEF Disconnect, At, Rest, Forward, Stage
  <2>4. QED BY <1>3, <2>1, <2>2, <2>3 DEF LoopStep
<1>4. QED BY <1>2, <1>3

\* Every step of aiomain goes forward.
LEMMA MainForward == ASSUME TypeOK, Main PROVE Forward
<1>1. ASSUME NEW s \in Scenarios, Load(s) PROVE Forward
  <2>1. scenario'[s] = "created" /\ \A u \in Scenarios \ {s} : scenario'[u] = scenario[u]
    BY <1>1 DEF Load, TypeOK
  <2>2. Unloaded' = Unloaded \ {s} /\ s \in Unloaded
    BY <1>1, <2>1 DEF Load, Unloaded
  <2>3. QED BY <1>1, <2>2 DEF Load, Forward
<1>2. CASE StartOptions \/ StartFails \/ LoadFails \/ Loaded \/ Gather \/ HeartbeatUnavailable
  BY <1>2 DEF StartOptions, StartFails, LoadFails, Loaded, Gather, HeartbeatUnavailable, Forward,
              Stage
<1>3. CASE Gathered \/ GatherRaises \/ StopListening \/ CancelHeartbeat \/ HeartbeatRaises \/ Stop
  BY <1>3 DEF Gathered, GatherRaises, StopListening, CancelHeartbeat, HeartbeatRaises, Stop,
              Forward, Stage
<1>4. QED BY <1>1, <1>2, <1>3, LoopsForward DEF Main

\* What happens beside aiomain takes it to its end or nowhere.
LEMMA OthersKeepStage ==
    ASSUME TypeOK, [Next]_vars, ~Main
    PROVE  Aside
<1>1. CASE Signal
  BY <1>1 DEF Signal, Aside
<1>2. CASE UNCHANGED vars \/ \E s \in Scenarios : ScenarioEnds(s)
  BY <1>2 DEF vars, ScenarioEnds, Aside
<1>3. QED BY <1>1, <1>2 DEF Next

\* The handlers stay installed, and exit_run set, to the end.
LEMMA HeardPreserved ==
    ASSUME TypeOK, SignalsHeard, [Next]_vars PROVE SignalsHeard'
<1>1. CASE UNCHANGED vars
  BY <1>1 DEF vars, SignalsHeard
<1>2. CASE Signal \/ \E s \in Scenarios : ScenarioEnds(s)
  BY <1>2 DEF Signal, ScenarioEnds, SignalsHeard, TypeOK
<1>3. CASE LoopEnds
  BY <1>3, AfterLoop DEF SignalsHeard
<1>4. CASE StopListening \/ CancelHeartbeat \/ HeartbeatRaises \/ Stop
  BY <1>4 DEF StopListening, CancelHeartbeat, HeartbeatRaises, Stop, SignalsHeard
<1>5. CASE Gathered
  <2>1. ~handlers /\ ~exitRun /\ handlers' = ShouldListen /\ exitRun' = exitRun
    BY <1>5 DEF Gathered, SignalsHeard
  <2>2. ShouldListen => pc' = "listening"
    BY <1>5 DEF Gathered
  <2>3. QED BY <2>1, <2>2 DEF SignalsHeard
<1>6. ASSUME NEW k \in DOMAIN Order, LoopStep(k) PROVE SignalsHeard'
  <2>1. UNCHANGED <<handlers, exitRun>>
    BY <1>6 DEF LoopStep, Connect, ConnectFails, Activate, ActivateFails, Deactivate,
                DeactivateFails, Disconnect, DisconnectFails
  <2>2. \/ pc \in {"connecting", "activating"}
        \/ pc \in {"deactivating", "disconnecting"} /\ pc' \in {pc, "stopping", "ended"}
        \/ pc = "aborting"
    BY <1>6 DEF LoopStep, Connect, ConnectFails, Activate, ActivateFails, Deactivate,
                DeactivateFails, Disconnect, DisconnectFails, At
  <2>3. QED BY <2>1, <2>2 DEF SignalsHeard
<1>7. CASE \/ StartOptions \/ StartFails \/ LoadFails \/ Loaded \/ Gather
           \/ HeartbeatUnavailable \/ GatherRaises
  <2>1. pc \in {"starting", "loading", "gathering", "awaiting"}
    BY <1>7 DEF StartOptions, StartFails, LoadFails, Loaded, Gather, HeartbeatUnavailable,
                GatherRaises
  <2>2. UNCHANGED <<handlers, exitRun>>
    BY <1>7 DEF StartOptions, StartFails, LoadFails, Loaded, Gather, HeartbeatUnavailable,
                GatherRaises
  <2>3. QED BY <2>1, <2>2 DEF SignalsHeard
<1>8. CASE \E s \in Scenarios : Load(s)
  BY <1>8 DEF Load, SignalsHeard
<1>9. QED BY <1>1, <1>2, <1>3, <1>4, <1>5, <1>6, <1>7, <1>8 DEF Next, Main
-----------------------------------------------------------------------------
\* Every step preserves the invariant.
LEMMA StepPreserves == IInv /\ [Next]_vars => IInv'
<1>1. SUFFICES ASSUME IInv, [Next]_vars PROVE IInv'
  OBVIOUS
<1>2. CASE UNCHANGED vars
  BY <1>1, <1>2, StutterPreserves
<1>3. CASE Next
  <2>1. UNCHANGED commandLine /\ (Main \/ Signal \/ \E s \in Scenarios : ScenarioEnds(s))
    BY <1>3 DEF Next
  <2>2. \/ LoopEnds \/ Straight \/ Signal
        \/ \E k \in DOMAIN Order : \/ Connect(k) \/ ConnectFails(k)
                                   \/ Activate(k) \/ ActivateFails(k)
                                   \/ Deactivate(k) \/ DeactivateFails(k)
                                   \/ Disconnect(k) \/ DisconnectFails(k)
    BY <2>1 DEF Main, LoopStep, Straight
  <2>3. QED
    BY <1>1, <2>1, <2>2, LoopEndsPreserves, StraightPreserves, SignalPreserves,
       DeactivatePreserves, ConnectPreserves, ActivatePreserves, DisconnectPreserves
<1>4. QED BY <1>1, <1>2, <1>3

\* The invariant holds in every reachable state.
LEMMA Invariance == Spec => []IInv
BY InitEstablishes, StepPreserves, PTL DEF Spec

\* Type correctness of the process's state.
THEOREM TypeCorrect == Spec => []TypeOK
<1>1. IInv => TypeOK
  BY DEF IInv
<1>2. QED BY Invariance, <1>1, PTL

\* However aiomain ends by itself, the watchdog, the endpoint and the heartbeat are stopped
\* and the transports disconnected, with any number of namespaces.
THEOREM EverythingReleased == Spec => []ReleasesAll
<1>1. IInv => ReleasesAll
  BY DEF IInv
<1>2. QED BY Invariance, <1>1, PTL

\* No router serves on a transport that was disconnected under it, unless activating or
\* deactivating a router, or the heartbeat, raised.
THEOREM ServesConnected == Spec => []ActiveIsConnected
<1>1. IInv => ActiveIsConnected
  BY DEF IInv
<1>2. QED BY Invariance, <1>1, PTL

\* When the process ends with nothing raised, every scenario has run to its end.
THEOREM LeavesNoTasks == Spec => []NoLeftoverTasks
<1>1. IInv => NoLeftoverTasks
  BY DEF IInv
<1>2. QED BY Invariance, <1>1, PTL

\* aiomain does not go round in circles, though it may wait for ever for a scenario or a signal:
\* each of its steps, the failures included, takes it to a later stage, to a later position of a
\* loop over the namespaces, or loads one scenario more; nothing that happens beside it - a
\* signal, a scenario that ends - takes it back.  A stage is never entered twice, and no loop
\* goes through a position twice.
AiomainAdvances ==
    [][(Main => Forward) /\ (~Main => Aside)]_vars
THEOREM AiomainTerminates == Spec => AiomainAdvances
<1>1. IInv /\ [Next]_vars =>
        [(Main => Forward) /\ (~Main => Aside)]_vars
  BY MainForward, OthersKeepStage DEF IInv
<1>2. QED BY <1>1, Invariance, PTL DEF Spec, AiomainAdvances

\* A signal that was caught is not missed: when exit_run is set, the loop that polls it is
\* running, or aiomain is already past it and on its way down.
THEOREM SignalsAreHeard == Spec => [](exitRun => pc \in {"listening", "cancelling", "deactivating",
                                                          "stopping", "disconnecting", "ended"})
<1>1. Init => SignalsHeard
  BY DEF Init, SignalsHeard
<1>2. IInv /\ SignalsHeard /\ [Next]_vars => SignalsHeard'
  BY HeardPreserved DEF IInv
<1>3. SignalsHeard => (exitRun => pc \in {"listening", "cancelling", "deactivating",
                                           "stopping", "disconnecting", "ended"})
  BY DEF SignalsHeard
<1>4. QED BY <1>1, <1>2, <1>3, Invariance, PTL DEF Spec
=============================================================================
