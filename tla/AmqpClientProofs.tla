------------------------- MODULE AmqpClientProofs -------------------------
(***************************************************************************)
(* Proofs of AmqpClient's safety invariants for every number of calls,     *)
(* publications and connection losses.                                     *)
(***************************************************************************)
EXTENDS AmqpClient, TLAPS

\* A task that has not reached its publish has nothing on the wire.
WireFresh == \A t \in Publishers : pc[t] \in {"idle", "lock"} => wire[t] = "unsent"

\* Without a _connection attribute there is no connection; connect() opens one only
\* then, and disconnect() deletes the attributes only after closing it.
LinkMatchesAttrs ==
    /\ attrs = "none" => link = "closed"
    /\ pc[Manager] = "opening" => attrs = "none"
    /\ pc[Manager] = "deleting" => link = "closed"

\* Whoever unwinds from a cancellation was cancelled.
CancelRecorded == \A c \in Calls : pc[c] = "cancelling" => c \in cancelReq

\* The inductive invariant.
IInv == /\ TypeOK
        /\ LockDiscipline
        /\ ExchangePresent
        /\ NoOrphan
        /\ NoLeak
        /\ LossReported
        /\ NoPhantomCancellation
        /\ WireFresh
        /\ LinkMatchesAttrs
        /\ CancelRecorded
-----------------------------------------------------------------------------
\* The transport starts unconnected, with no request in flight.
LEMMA InitEstablishes == Init => IInv
<1> SUFFICES ASSUME Init PROVE IInv
  OBVIOUS
<1> USE TasksAssumption DEF Init, Tasks, Publishers
<1>1. TypeOK
  BY DEF TypeOK, Stages, CallLabels, PubLabels, ManagerLabels
<1>2. LockDiscipline
  BY DEF LockDiscipline, InCritical
<1>3. ExchangePresent /\ NoOrphan /\ NoLeak
  BY DEF ExchangePresent, NoOrphan, NoLeak
<1>4. LossReported
  BY DEF LossReported, Outstanding
<1>5. NoPhantomCancellation /\ WireFresh /\ LinkMatchesAttrs /\ CancelRecorded
  BY DEF NoPhantomCancellation, WireFresh, LinkMatchesAttrs, CancelRecorded
<1> QED
  BY <1>1, <1>2, <1>3, <1>4, <1>5 DEF IInv
\* Every step keeps the types.
LEMMA TypePreserved == TypeOK /\ [Next]_vars => TypeOK'
<1> SUFFICES ASSUME TypeOK, [Next]_vars PROVE TypeOK'
  OBVIOUS
<1> USE TasksAssumption
    DEF TypeOK, Stages, Outcomes, CallLabels, PubLabels, ManagerLabels, Tasks, Publishers,
        netVars, rpcVars, history
<1>1. ASSUME NEW x \in Calls, BeginCall(x) PROVE TypeOK'
  BY <1>1 DEF BeginCall, Goto, RegisterFuture
<1>2. ASSUME NEW x \in Calls, BeginCallUnconnected(x) PROVE TypeOK'
  BY <1>2 DEF BeginCallUnconnected, Goto, Completed
<1>3. ASSUME NEW x \in Calls, CancelWait(x) PROVE TypeOK'
  BY <1>3 DEF CancelWait, Goto, Completed
<1>4. ASSUME NEW x \in Calls, TimerFires(x) PROVE TypeOK'
  BY <1>4 DEF TimerFires, Goto, Completed
<1>5. ASSUME NEW x \in Calls, WakeUp(x) PROVE TypeOK'
  BY <1>5 DEF WakeUp, Goto, Forget
<1>6. ASSUME NEW x \in Calls, Unwind(x) PROVE TypeOK'
  BY <1>6 DEF Unwind, Goto, Forget
<1>7. ASSUME NEW x \in Calls, AckResponse(x) PROVE TypeOK'
  BY <1>7 DEF AckResponse
<1>8. ASSUME NEW x \in Calls, OnResponse(x) PROVE TypeOK'
  BY <1>8 DEF OnResponse, Completed
<1>9. ASSUME NEW x \in Calls, Respond(x) PROVE TypeOK'
  BY <1>9 DEF Respond
<1>10. ASSUME NEW x \in Pubs, BeginPub(x) PROVE TypeOK'
  BY <1>10 DEF BeginPub, Goto
<1>11. ASSUME NEW x \in Pubs, BeginPubUnconnected(x) PROVE TypeOK'
  BY <1>11 DEF BeginPubUnconnected, Goto, FailAwaiting, Completed
<1>12. ASSUME NEW x \in Publishers, Invoke(x) PROVE TypeOK'
  BY <1>12 DEF Invoke, Goto
<1>13. ASSUME NEW x \in Publishers, PublishConfirmed(x) PROVE TypeOK'
  BY <1>13 DEF PublishConfirmed, Goto
<1>14. ASSUME NEW x \in Publishers, PublishReturned(x) PROVE TypeOK'
  BY <1>14 DEF PublishReturned, Goto
<1>15. ASSUME NEW x \in Publishers, PublishRaises(x) PROVE TypeOK'
  BY <1>15 DEF PublishRaises, Goto, PublishFailed, FailAwaiting, Completed
<1>16. ASSUME NEW x \in Publishers, LibraryCancels(x) PROVE TypeOK'
  BY <1>16 DEF LibraryCancels, Goto, PublishFailed, PublishCancelled, FailAwaiting, Completed
<1>17. ASSUME NEW x \in Publishers, CancelLock(x) PROVE TypeOK'
  BY <1>17 DEF CancelLock, Goto
<1>18. ASSUME NEW x \in Publishers, CancelPublish(x) PROVE TypeOK'
  BY <1>18 DEF CancelPublish, Goto, PublishFailed, PublishCancelled, FailAwaiting, Completed
<1>19. ASSUME NEW x \in Publishers, Accept(x) PROVE TypeOK'
  BY <1>19 DEF Accept
<1>20. ASSUME NEW x \in Publishers, Confirm(x) PROVE TypeOK'
  BY <1>20 DEF Confirm
<1>21. ASSUME NEW x \in Publishers, Return(x) PROVE TypeOK'
  BY <1>21 DEF Return
<1>22. ASSUME NEW x \in Served, ServeRequest(x) PROVE TypeOK'
  BY <1>22 DEF ServeRequest
<1>23. ASSUME NEW x \in Served, ServedDone(x) PROVE TypeOK'
  BY <1>23 DEF ServedDone
<1>24. ASSUME NEW x \in Served, ReplyFails(x) PROVE TypeOK'
  BY <1>24 DEF ReplyFails, FailAwaiting, Completed
<1>25. CASE CallConnect
  BY <1>25 DEF CallConnect, Goto
<1>26. CASE CallDisconnect
  BY <1>26 DEF CallDisconnect, Goto
<1>27. CASE BeginConnect
  BY <1>27 DEF BeginConnect, Goto
<1>28. CASE BeginDisconnect
  BY <1>28 DEF BeginDisconnect, Goto
<1>29. CASE Opened
  BY <1>29 DEF Opened, Goto
<1>30. CASE Declare
  BY <1>30 DEF Declare, Goto, NextStage
<1>31. CASE ConnectRaises
  BY <1>31 DEF ConnectRaises, Goto
<1>32. CASE CloseConnection
  BY <1>32 DEF CloseConnection, Goto, QueueLost
<1>33. CASE DeleteAttributes
  BY <1>33 DEF DeleteAttributes, Goto
<1>34. CASE Drop
  BY <1>34 DEF Drop, QueueLost
<1>35. CASE OnConnectionClosed
  BY <1>35 DEF OnConnectionClosed, FailAwaiting, Completed
<1>36. CASE Reconnect
  BY <1>36 DEF Reconnect
<1>37. CASE UNCHANGED vars
  BY <1>37 DEF vars
<1>38. CASE CloseRaises
  BY <1>38 DEF CloseRaises, Goto, QueueLost
<1>39. CASE CancelManager
  BY <1>39 DEF CancelManager, Goto
<1> QED
  BY <1>1, <1>2, <1>3, <1>4, <1>5, <1>6, <1>7, <1>8, <1>9, <1>10, <1>11, <1>12, <1>13, <1>14, <1>15, <1>16, <1>17, <1>18, <1>19, <1>20, <1>21, <1>22, <1>23, <1>24, <1>25, <1>26, <1>27, <1>28, <1>29, <1>30, <1>31, <1>32, <1>33, <1>34, <1>35, <1>36, <1>37, <1>38, <1>39 DEF Next, CallStep, PubStep, PublishStep, ManagerStep
\* Every way into and out of a critical section takes and gives back the lock.
LEMMA LockPreserved == TypeOK /\ LockDiscipline /\ [Next]_vars => LockDiscipline'
<1> SUFFICES ASSUME TypeOK /\ LockDiscipline, [Next]_vars PROVE LockDiscipline'
  OBVIOUS
<1> USE TasksAssumption DEF TypeOK, Stages, Outcomes, CallLabels, PubLabels, ManagerLabels, Tasks, Publishers,
        netVars, rpcVars, history,
        LockDiscipline, InCritical
<1>1. ASSUME NEW x \in Calls, BeginCall(x) PROVE LockDiscipline'
  BY <1>1 DEF BeginCall, Goto, RegisterFuture
<1>2. ASSUME NEW x \in Calls, BeginCallUnconnected(x) PROVE LockDiscipline'
  BY <1>2 DEF BeginCallUnconnected, Goto, Completed
<1>3. ASSUME NEW x \in Calls, CancelWait(x) PROVE LockDiscipline'
  BY <1>3 DEF CancelWait, Goto, Completed
<1>4. ASSUME NEW x \in Calls, TimerFires(x) PROVE LockDiscipline'
  BY <1>4 DEF TimerFires, Goto, Completed
<1>5. ASSUME NEW x \in Calls, WakeUp(x) PROVE LockDiscipline'
  BY <1>5 DEF WakeUp, Goto, Forget
<1>6. ASSUME NEW x \in Calls, Unwind(x) PROVE LockDiscipline'
  BY <1>6 DEF Unwind, Goto, Forget
<1>7. ASSUME NEW x \in Calls, AckResponse(x) PROVE LockDiscipline'
  BY <1>7 DEF AckResponse
<1>8. ASSUME NEW x \in Calls, OnResponse(x) PROVE LockDiscipline'
  BY <1>8 DEF OnResponse, Completed
<1>9. ASSUME NEW x \in Calls, Respond(x) PROVE LockDiscipline'
  BY <1>9 DEF Respond
<1>10. ASSUME NEW x \in Pubs, BeginPub(x) PROVE LockDiscipline'
  BY <1>10 DEF BeginPub, Goto
<1>11. ASSUME NEW x \in Pubs, BeginPubUnconnected(x) PROVE LockDiscipline'
  BY <1>11 DEF BeginPubUnconnected, Goto, FailAwaiting, Completed
<1>12. ASSUME NEW x \in Publishers, Invoke(x) PROVE LockDiscipline'
  BY <1>12 DEF Invoke, Goto
<1>13. ASSUME NEW x \in Publishers, PublishConfirmed(x) PROVE LockDiscipline'
  BY <1>13 DEF PublishConfirmed, Goto
<1>14. ASSUME NEW x \in Publishers, PublishReturned(x) PROVE LockDiscipline'
  BY <1>14 DEF PublishReturned, Goto
<1>15. ASSUME NEW x \in Publishers, PublishRaises(x) PROVE LockDiscipline'
  BY <1>15 DEF PublishRaises, Goto, PublishFailed, FailAwaiting, Completed
<1>16. ASSUME NEW x \in Publishers, LibraryCancels(x) PROVE LockDiscipline'
  BY <1>16 DEF LibraryCancels, Goto, PublishFailed, PublishCancelled, FailAwaiting, Completed, TaskWasActuallyCancelled
<1>17. ASSUME NEW x \in Publishers, CancelLock(x) PROVE LockDiscipline'
  BY <1>17 DEF CancelLock, Goto
<1>18. ASSUME NEW x \in Publishers, CancelPublish(x) PROVE LockDiscipline'
  BY <1>18 DEF CancelPublish, Goto, PublishFailed, PublishCancelled, FailAwaiting, Completed, TaskWasActuallyCancelled
<1>19. ASSUME NEW x \in Publishers, Accept(x) PROVE LockDiscipline'
  BY <1>19 DEF Accept
<1>20. ASSUME NEW x \in Publishers, Confirm(x) PROVE LockDiscipline'
  BY <1>20 DEF Confirm
<1>21. ASSUME NEW x \in Publishers, Return(x) PROVE LockDiscipline'
  BY <1>21 DEF Return
<1>22. ASSUME NEW x \in Served, ServeRequest(x) PROVE LockDiscipline'
  BY <1>22 DEF ServeRequest
<1>23. ASSUME NEW x \in Served, ServedDone(x) PROVE LockDiscipline'
  BY <1>23 DEF ServedDone
<1>24. ASSUME NEW x \in Served, ReplyFails(x) PROVE LockDiscipline'
  BY <1>24 DEF ReplyFails, FailAwaiting, Completed
<1>25. CASE CallConnect
  BY <1>25 DEF CallConnect, Goto
<1>26. CASE CallDisconnect
  BY <1>26 DEF CallDisconnect, Goto
<1>27. CASE BeginConnect
  BY <1>27 DEF BeginConnect, Goto
<1>28. CASE BeginDisconnect
  BY <1>28 DEF BeginDisconnect, Goto
<1>29. CASE Opened
  BY <1>29 DEF Opened, Goto
<1>30. CASE Declare
  BY <1>30 DEF Declare, Goto, NextStage
<1>31. CASE ConnectRaises
  BY <1>31 DEF ConnectRaises, Goto
<1>32. CASE CloseConnection
  BY <1>32 DEF CloseConnection, Goto, QueueLost
<1>33. CASE DeleteAttributes
  BY <1>33 DEF DeleteAttributes, Goto
<1>34. CASE Drop
  BY <1>34 DEF Drop, QueueLost
<1>35. CASE OnConnectionClosed
  BY <1>35 DEF OnConnectionClosed, FailAwaiting, Completed
<1>36. CASE Reconnect
  BY <1>36 DEF Reconnect
<1>37. CASE UNCHANGED vars
  BY <1>37 DEF vars
<1>38. CASE CloseRaises
  BY <1>38 DEF CloseRaises, Goto, QueueLost
<1>39. CASE CancelManager
  BY <1>39 DEF CancelManager, Goto
<1> QED
  BY <1>1, <1>2, <1>3, <1>4, <1>5, <1>6, <1>7, <1>8, <1>9, <1>10, <1>11, <1>12, <1>13, <1>14, <1>15, <1>16, <1>17, <1>18, <1>19, <1>20, <1>21, <1>22, <1>23, <1>24, <1>25, <1>26, <1>27, <1>28, <1>29, <1>30, <1>31, <1>32, <1>33, <1>34, <1>35, <1>36, <1>37, <1>38, <1>39 DEF Next, CallStep, PubStep, PublishStep, ManagerStep

\* What is left of the invariant after its type and its lock part.
TableInv == /\ ExchangePresent
            /\ NoOrphan
            /\ NoLeak
            /\ LossReported
            /\ NoPhantomCancellation
            /\ WireFresh
            /\ LinkMatchesAttrs
            /\ CancelRecorded

\* The table of in-flight requests, the connection attributes and the cancellations
\* stay consistent: mutual exclusion keeps connect and disconnect away from a publish,
\* and NoOrphan lets a swap of the table reach every pending future.
LEMMA TablePreserved == IInv /\ [Next]_vars => TableInv'
<1> SUFFICES ASSUME IInv, [Next]_vars PROVE TableInv'
  OBVIOUS
<1> USE TasksAssumption DEF TypeOK, Stages, Outcomes, CallLabels, PubLabels, ManagerLabels, Tasks, Publishers,
        netVars, rpcVars, history,
        TableInv, IInv, LockDiscipline, InCritical, ExchangePresent, NoOrphan, NoLeak, LossReported, Outstanding, CanPublishCall,
        NoPhantomCancellation, WireFresh, LinkMatchesAttrs, CancelRecorded
<1>1. ASSUME NEW x \in Calls, BeginCall(x) PROVE TableInv'
  BY <1>1 DEF BeginCall, Goto, RegisterFuture
<1>2. ASSUME NEW x \in Calls, BeginCallUnconnected(x) PROVE TableInv'
  BY <1>2 DEF BeginCallUnconnected, Goto, Completed
<1>3. ASSUME NEW x \in Calls, CancelWait(x) PROVE TableInv'
  BY <1>3 DEF CancelWait, Goto, Completed
<1>4. ASSUME NEW x \in Calls, TimerFires(x) PROVE TableInv'
  BY <1>4 DEF TimerFires, Goto, Completed
<1>5. ASSUME NEW x \in Calls, WakeUp(x) PROVE TableInv'
  BY <1>5 DEF WakeUp, Goto, Forget
<1>6. ASSUME NEW x \in Calls, Unwind(x) PROVE TableInv'
  BY <1>6 DEF Unwind, Goto, Forget
<1>7. ASSUME NEW x \in Calls, AckResponse(x) PROVE TableInv'
  BY <1>7 DEF AckResponse
<1>8. ASSUME NEW x \in Calls, OnResponse(x) PROVE TableInv'
  BY <1>8 DEF OnResponse, Completed
<1>9. ASSUME NEW x \in Calls, Respond(x) PROVE TableInv'
  BY <1>9 DEF Respond
<1>10. ASSUME NEW x \in Pubs, BeginPub(x) PROVE TableInv'
  BY <1>10 DEF BeginPub, Goto
<1>11. ASSUME NEW x \in Pubs, BeginPubUnconnected(x) PROVE TableInv'
  BY <1>11 DEF BeginPubUnconnected, Goto, FailAwaiting, Completed
<1>12. ASSUME NEW x \in Publishers, Invoke(x) PROVE TableInv'
  BY <1>12 DEF Invoke, Goto
<1>13. ASSUME NEW x \in Publishers, PublishConfirmed(x) PROVE TableInv'
  BY <1>13 DEF PublishConfirmed, Goto
<1>14. ASSUME NEW x \in Publishers, PublishReturned(x) PROVE TableInv'
  BY <1>14 DEF PublishReturned, Goto
<1>15. ASSUME NEW x \in Publishers, PublishRaises(x) PROVE TableInv'
  BY <1>15 DEF PublishRaises, Goto, PublishFailed, FailAwaiting, Completed
<1>16. ASSUME NEW x \in Publishers, LibraryCancels(x) PROVE TableInv'
  BY <1>16 DEF LibraryCancels, Goto, PublishFailed, PublishCancelled, FailAwaiting, Completed, TaskWasActuallyCancelled
<1>17. ASSUME NEW x \in Publishers, CancelLock(x) PROVE TableInv'
  BY <1>17 DEF CancelLock, Goto
<1>18. ASSUME NEW x \in Publishers, CancelPublish(x) PROVE TableInv'
  BY <1>18 DEF CancelPublish, Goto, PublishFailed, PublishCancelled, FailAwaiting, Completed, TaskWasActuallyCancelled
<1>19. ASSUME NEW x \in Publishers, Accept(x) PROVE TableInv'
  BY <1>19 DEF Accept
<1>20. ASSUME NEW x \in Publishers, Confirm(x) PROVE TableInv'
  BY <1>20 DEF Confirm
<1>21. ASSUME NEW x \in Publishers, Return(x) PROVE TableInv'
  BY <1>21 DEF Return
<1>22. ASSUME NEW x \in Served, ServeRequest(x) PROVE TableInv'
  BY <1>22 DEF ServeRequest
<1>23. ASSUME NEW x \in Served, ServedDone(x) PROVE TableInv'
  BY <1>23 DEF ServedDone
<1>24. ASSUME NEW x \in Served, ReplyFails(x) PROVE TableInv'
  BY <1>24 DEF ReplyFails, FailAwaiting, Completed
<1>25. CASE CallConnect
  BY <1>25 DEF CallConnect, Goto
<1>26. CASE CallDisconnect
  BY <1>26 DEF CallDisconnect, Goto
<1>27. CASE BeginConnect
  BY <1>27 DEF BeginConnect, Goto
<1>28. CASE BeginDisconnect
  BY <1>28 DEF BeginDisconnect, Goto
<1>29. CASE Opened
  BY <1>29 DEF Opened, Goto
<1>30. CASE Declare
  BY <1>30 DEF Declare, Goto, NextStage
<1>31. CASE ConnectRaises
  BY <1>31 DEF ConnectRaises, Goto
<1>32. CASE CloseConnection
  BY <1>32 DEF CloseConnection, Goto, QueueLost
<1>33. CASE DeleteAttributes
  BY <1>33 DEF DeleteAttributes, Goto
<1>34. CASE Drop
  BY <1>34 DEF Drop, QueueLost
<1>35. CASE OnConnectionClosed
  BY <1>35 DEF OnConnectionClosed, FailAwaiting, Completed
<1>36. CASE Reconnect
  BY <1>36 DEF Reconnect
<1>37. CASE UNCHANGED vars
  BY <1>37 DEF vars
<1>38. CASE CloseRaises
  BY <1>38 DEF CloseRaises, Goto, QueueLost
<1>39. CASE CancelManager
  BY <1>39 DEF CancelManager, Goto
<1> QED
  BY <1>1, <1>2, <1>3, <1>4, <1>5, <1>6, <1>7, <1>8, <1>9, <1>10, <1>11, <1>12, <1>13, <1>14, <1>15, <1>16, <1>17, <1>18, <1>19, <1>20, <1>21, <1>22, <1>23, <1>24, <1>25, <1>26, <1>27, <1>28, <1>29, <1>30, <1>31, <1>32, <1>33, <1>34, <1>35, <1>36, <1>37, <1>38, <1>39 DEF Next, CallStep, PubStep, PublishStep, ManagerStep

\* The conjunction is inductive.
LEMMA StepPreserves == IInv /\ [Next]_vars => IInv'
<1> SUFFICES ASSUME IInv, [Next]_vars PROVE IInv'
  OBVIOUS
<1>1. TypeOK'
  BY TypePreserved DEF IInv
<1>2. LockDiscipline'
  BY LockPreserved DEF IInv
<1>3. TableInv'
  BY TablePreserved
<1> QED
  BY <1>1, <1>2, <1>3 DEF IInv, TableInv

\* The inductive invariant holds in every reachable state.
THEOREM Invariance == Spec => []IInv
<1>1. Init => IInv
  BY InitEstablishes
<1>2. IInv /\ [Next]_vars => IInv'
  BY StepPreserves
<1> QED
  BY <1>1, <1>2, PTL DEF Spec

\* Every variable keeps its type.
THEOREM TypeCorrect == Spec => []TypeOK
<1>1. IInv => TypeOK
  BY DEF IInv
<1> QED
  BY <1>1, Invariance, PTL

\* self._lock is held by exactly the task inside a critical section, whatever raised or was
\* cancelled there.
THEOREM MutualExclusion == Spec => []LockDiscipline
<1>1. IInv => LockDiscipline
  BY DEF IInv
<1> QED
  BY <1>1, Invariance, PTL

\* No publish ever sees the exchange or the queue it uses taken away.
THEOREM ExchangeThere == Spec => []ExchangePresent
<1>1. IInv => ExchangePresent
  BY DEF IInv
<1> QED
  BY <1>1, Invariance, PTL

\* A pending future somebody awaits has its entry in the table of requests in flight.
THEOREM NothingOrphaned == Spec => []NoOrphan
<1>1. IInv => NoOrphan
  BY DEF IInv
<1> QED
  BY <1>1, Invariance, PTL

\* And a call that has ended has left none there, however it ended.
THEOREM NothingLeaks == Spec => []NoLeak
<1>1. IInv => NoLeak
  BY DEF IInv
<1> QED
  BY <1>1, Invariance, PTL

\* No request waits for an answer from a connection that is gone.
THEOREM LossIsReported == Spec => []LossReported
<1>1. IInv => LossReported
  BY DEF IInv
<1> QED
  BY <1>1, Invariance, PTL

\* aiormq's internal CancelledError never ends a call.
THEOREM CancellationIsReal == Spec => []NoPhantomCancellation
<1>1. IInv => NoPhantomCancellation
  BY DEF IInv
<1> QED
  BY <1>1, Invariance, PTL
-----------------------------------------------------------------------------
\* A call that has not started has no future yet.
FutureFresh == \A c \in Calls : pc[c] \in {"idle", "lock"} => fut[c] = "none"

\* Initially no call has a future.
LEMMA FreshInit == Init => FutureFresh
  BY TasksAssumption DEF Init, FutureFresh, Tasks, Publishers

\* Only a call that holds the lock for the first time gets a future.
LEMMA FreshPreserved == IInv /\ FutureFresh /\ [Next]_vars => FutureFresh'
<1> SUFFICES ASSUME IInv /\ FutureFresh, [Next]_vars PROVE FutureFresh'
  OBVIOUS
<1> USE TasksAssumption DEF TypeOK, Stages, Outcomes, CallLabels, PubLabels, ManagerLabels, Tasks, Publishers,
        netVars, rpcVars, history,
        FutureFresh, IInv, LockDiscipline, InCritical, ExchangePresent, NoOrphan, NoLeak, LossReported, Outstanding, CanPublishCall,
        NoPhantomCancellation, WireFresh, LinkMatchesAttrs, CancelRecorded
<1>1. ASSUME NEW x \in Calls, BeginCall(x) PROVE FutureFresh'
  BY <1>1 DEF BeginCall, Goto, RegisterFuture
<1>2. ASSUME NEW x \in Calls, BeginCallUnconnected(x) PROVE FutureFresh'
  BY <1>2 DEF BeginCallUnconnected, Goto, Completed
<1>3. ASSUME NEW x \in Calls, CancelWait(x) PROVE FutureFresh'
  BY <1>3 DEF CancelWait, Goto, Completed
<1>4. ASSUME NEW x \in Calls, TimerFires(x) PROVE FutureFresh'
  BY <1>4 DEF TimerFires, Goto, Completed
<1>5. ASSUME NEW x \in Calls, WakeUp(x) PROVE FutureFresh'
  BY <1>5 DEF WakeUp, Goto, Forget
<1>6. ASSUME NEW x \in Calls, Unwind(x) PROVE FutureFresh'
  BY <1>6 DEF Unwind, Goto, Forget
<1>7. ASSUME NEW x \in Calls, AckResponse(x) PROVE FutureFresh'
  BY <1>7 DEF AckResponse
<1>8. ASSUME NEW x \in Calls, OnResponse(x) PROVE FutureFresh'
  BY <1>8 DEF OnResponse, Completed
<1>9. ASSUME NEW x \in Calls, Respond(x) PROVE FutureFresh'
  BY <1>9 DEF Respond
<1>10. ASSUME NEW x \in Pubs, BeginPub(x) PROVE FutureFresh'
  BY <1>10 DEF BeginPub, Goto
<1>11. ASSUME NEW x \in Pubs, BeginPubUnconnected(x) PROVE FutureFresh'
  BY <1>11 DEF BeginPubUnconnected, Goto, FailAwaiting, Completed
<1>12. ASSUME NEW x \in Publishers, Invoke(x) PROVE FutureFresh'
  BY <1>12 DEF Invoke, Goto
<1>13. ASSUME NEW x \in Publishers, PublishConfirmed(x) PROVE FutureFresh'
  BY <1>13 DEF PublishConfirmed, Goto
<1>14. ASSUME NEW x \in Publishers, PublishReturned(x) PROVE FutureFresh'
  BY <1>14 DEF PublishReturned, Goto
<1>15. ASSUME NEW x \in Publishers, PublishRaises(x) PROVE FutureFresh'
  BY <1>15 DEF PublishRaises, Goto, PublishFailed, FailAwaiting, Completed
<1>16. ASSUME NEW x \in Publishers, LibraryCancels(x) PROVE FutureFresh'
  BY <1>16 DEF LibraryCancels, Goto, PublishFailed, PublishCancelled, FailAwaiting, Completed, TaskWasActuallyCancelled
<1>17. ASSUME NEW x \in Publishers, CancelLock(x) PROVE FutureFresh'
  BY <1>17 DEF CancelLock, Goto
<1>18. ASSUME NEW x \in Publishers, CancelPublish(x) PROVE FutureFresh'
  BY <1>18 DEF CancelPublish, Goto, PublishFailed, PublishCancelled, FailAwaiting, Completed, TaskWasActuallyCancelled
<1>19. ASSUME NEW x \in Publishers, Accept(x) PROVE FutureFresh'
  BY <1>19 DEF Accept
<1>20. ASSUME NEW x \in Publishers, Confirm(x) PROVE FutureFresh'
  BY <1>20 DEF Confirm
<1>21. ASSUME NEW x \in Publishers, Return(x) PROVE FutureFresh'
  BY <1>21 DEF Return
<1>22. ASSUME NEW x \in Served, ServeRequest(x) PROVE FutureFresh'
  BY <1>22 DEF ServeRequest
<1>23. ASSUME NEW x \in Served, ServedDone(x) PROVE FutureFresh'
  BY <1>23 DEF ServedDone
<1>24. ASSUME NEW x \in Served, ReplyFails(x) PROVE FutureFresh'
  BY <1>24 DEF ReplyFails, FailAwaiting, Completed
<1>25. CASE CallConnect
  BY <1>25 DEF CallConnect, Goto
<1>26. CASE CallDisconnect
  BY <1>26 DEF CallDisconnect, Goto
<1>27. CASE BeginConnect
  BY <1>27 DEF BeginConnect, Goto
<1>28. CASE BeginDisconnect
  BY <1>28 DEF BeginDisconnect, Goto
<1>29. CASE Opened
  BY <1>29 DEF Opened, Goto
<1>30. CASE Declare
  BY <1>30 DEF Declare, Goto, NextStage
<1>31. CASE ConnectRaises
  BY <1>31 DEF ConnectRaises, Goto
<1>32. CASE CloseConnection
  BY <1>32 DEF CloseConnection, Goto, QueueLost
<1>33. CASE DeleteAttributes
  BY <1>33 DEF DeleteAttributes, Goto
<1>34. CASE Drop
  BY <1>34 DEF Drop, QueueLost
<1>35. CASE OnConnectionClosed
  BY <1>35 DEF OnConnectionClosed, FailAwaiting, Completed
<1>36. CASE Reconnect
  BY <1>36 DEF Reconnect
<1>37. CASE UNCHANGED vars
  BY <1>37 DEF vars
<1>38. CASE CloseRaises
  BY <1>38 DEF CloseRaises, Goto, QueueLost
<1>39. CASE CancelManager
  BY <1>39 DEF CancelManager, Goto
<1> QED
  BY <1>1, <1>2, <1>3, <1>4, <1>5, <1>6, <1>7, <1>8, <1>9, <1>10, <1>11, <1>12, <1>13, <1>14, <1>15, <1>16, <1>17, <1>18, <1>19, <1>20, <1>21, <1>22, <1>23, <1>24, <1>25, <1>26, <1>27, <1>28, <1>29, <1>30, <1>31, <1>32, <1>33, <1>34, <1>35, <1>36, <1>37, <1>38, <1>39 DEF Next, CallStep, PubStep, PublishStep, ManagerStep

\* A done future keeps its value.
SettledStays == \A c \in Calls :
    fut[c] \in {"result", "lost", "cancelled"} => fut'[c] = fut[c]

\* Every path that completes a future first looks whether it is done.
LEMMA StepSettles == IInv /\ FutureFresh /\ [Next]_vars => SettledStays
<1> SUFFICES ASSUME IInv /\ FutureFresh, [Next]_vars PROVE SettledStays
  OBVIOUS
<1> USE TasksAssumption DEF TypeOK, Stages, Outcomes, CallLabels, PubLabels, ManagerLabels, Tasks, Publishers,
        netVars, rpcVars, history,
        SettledStays, FutureFresh, IInv, LockDiscipline, InCritical, ExchangePresent, NoOrphan, NoLeak, LossReported, Outstanding, CanPublishCall,
        NoPhantomCancellation, WireFresh, LinkMatchesAttrs, CancelRecorded
<1>1. ASSUME NEW x \in Calls, BeginCall(x) PROVE SettledStays
  BY <1>1 DEF BeginCall, Goto, RegisterFuture
<1>2. ASSUME NEW x \in Calls, BeginCallUnconnected(x) PROVE SettledStays
  BY <1>2 DEF BeginCallUnconnected, Goto, Completed
<1>3. ASSUME NEW x \in Calls, CancelWait(x) PROVE SettledStays
  BY <1>3 DEF CancelWait, Goto, Completed
<1>4. ASSUME NEW x \in Calls, TimerFires(x) PROVE SettledStays
  BY <1>4 DEF TimerFires, Goto, Completed
<1>5. ASSUME NEW x \in Calls, WakeUp(x) PROVE SettledStays
  BY <1>5 DEF WakeUp, Goto, Forget
<1>6. ASSUME NEW x \in Calls, Unwind(x) PROVE SettledStays
  BY <1>6 DEF Unwind, Goto, Forget
<1>7. ASSUME NEW x \in Calls, AckResponse(x) PROVE SettledStays
  BY <1>7 DEF AckResponse
<1>8. ASSUME NEW x \in Calls, OnResponse(x) PROVE SettledStays
  BY <1>8 DEF OnResponse, Completed
<1>9. ASSUME NEW x \in Calls, Respond(x) PROVE SettledStays
  BY <1>9 DEF Respond
<1>10. ASSUME NEW x \in Pubs, BeginPub(x) PROVE SettledStays
  BY <1>10 DEF BeginPub, Goto
<1>11. ASSUME NEW x \in Pubs, BeginPubUnconnected(x) PROVE SettledStays
  BY <1>11 DEF BeginPubUnconnected, Goto, FailAwaiting, Completed
<1>12. ASSUME NEW x \in Publishers, Invoke(x) PROVE SettledStays
  BY <1>12 DEF Invoke, Goto
<1>13. ASSUME NEW x \in Publishers, PublishConfirmed(x) PROVE SettledStays
  BY <1>13 DEF PublishConfirmed, Goto
<1>14. ASSUME NEW x \in Publishers, PublishReturned(x) PROVE SettledStays
  BY <1>14 DEF PublishReturned, Goto
<1>15. ASSUME NEW x \in Publishers, PublishRaises(x) PROVE SettledStays
  BY <1>15 DEF PublishRaises, Goto, PublishFailed, FailAwaiting, Completed
<1>16. ASSUME NEW x \in Publishers, LibraryCancels(x) PROVE SettledStays
  BY <1>16 DEF LibraryCancels, Goto, PublishFailed, PublishCancelled, FailAwaiting, Completed, TaskWasActuallyCancelled
<1>17. ASSUME NEW x \in Publishers, CancelLock(x) PROVE SettledStays
  BY <1>17 DEF CancelLock, Goto
<1>18. ASSUME NEW x \in Publishers, CancelPublish(x) PROVE SettledStays
  BY <1>18 DEF CancelPublish, Goto, PublishFailed, PublishCancelled, FailAwaiting, Completed, TaskWasActuallyCancelled
<1>19. ASSUME NEW x \in Publishers, Accept(x) PROVE SettledStays
  BY <1>19 DEF Accept
<1>20. ASSUME NEW x \in Publishers, Confirm(x) PROVE SettledStays
  BY <1>20 DEF Confirm
<1>21. ASSUME NEW x \in Publishers, Return(x) PROVE SettledStays
  BY <1>21 DEF Return
<1>22. ASSUME NEW x \in Served, ServeRequest(x) PROVE SettledStays
  BY <1>22 DEF ServeRequest
<1>23. ASSUME NEW x \in Served, ServedDone(x) PROVE SettledStays
  BY <1>23 DEF ServedDone
<1>24. ASSUME NEW x \in Served, ReplyFails(x) PROVE SettledStays
  BY <1>24 DEF ReplyFails, FailAwaiting, Completed
<1>25. CASE CallConnect
  BY <1>25 DEF CallConnect, Goto
<1>26. CASE CallDisconnect
  BY <1>26 DEF CallDisconnect, Goto
<1>27. CASE BeginConnect
  BY <1>27 DEF BeginConnect, Goto
<1>28. CASE BeginDisconnect
  BY <1>28 DEF BeginDisconnect, Goto
<1>29. CASE Opened
  BY <1>29 DEF Opened, Goto
<1>30. CASE Declare
  BY <1>30 DEF Declare, Goto, NextStage
<1>31. CASE ConnectRaises
  BY <1>31 DEF ConnectRaises, Goto
<1>32. CASE CloseConnection
  BY <1>32 DEF CloseConnection, Goto, QueueLost
<1>33. CASE DeleteAttributes
  BY <1>33 DEF DeleteAttributes, Goto
<1>34. CASE Drop
  BY <1>34 DEF Drop, QueueLost
<1>35. CASE OnConnectionClosed
  BY <1>35 DEF OnConnectionClosed, FailAwaiting, Completed
<1>36. CASE Reconnect
  BY <1>36 DEF Reconnect
<1>37. CASE UNCHANGED vars
  BY <1>37 DEF vars
<1>38. CASE CloseRaises
  BY <1>38 DEF CloseRaises, Goto, QueueLost
<1>39. CASE CancelManager
  BY <1>39 DEF CancelManager, Goto
<1> QED
  BY <1>1, <1>2, <1>3, <1>4, <1>5, <1>6, <1>7, <1>8, <1>9, <1>10, <1>11, <1>12, <1>13, <1>14, <1>15, <1>16, <1>17, <1>18, <1>19, <1>20, <1>21, <1>22, <1>23, <1>24, <1>25, <1>26, <1>27, <1>28, <1>29, <1>30, <1>31, <1>32, <1>33, <1>34, <1>35, <1>36, <1>37, <1>38, <1>39 DEF Next, CallStep, PubStep, PublishStep, ManagerStep

\* A future is completed at most once, by whichever of its rivals comes first.
THEOREM SettledOnce == Spec => FutureSettledOnce
<1>1. Init => IInv /\ FutureFresh
  BY InitEstablishes, FreshInit
<1>2. IInv /\ FutureFresh /\ [Next]_vars => (IInv /\ FutureFresh)'
  BY StepPreserves, FreshPreserved
<1>3. IInv /\ FutureFresh /\ [Next]_vars
        => [\A c \in Calls : fut[c] \in {"result", "lost", "cancelled"} => fut'[c] = fut[c]]_vars
  BY StepSettles DEF SettledStays
<1> QED
  BY <1>1, <1>2, <1>3, PTL DEF Spec, FutureSettledOnce
-----------------------------------------------------------------------------
(* AmqpClient implements RpcContract.                                      *)

\* What the outcome of a call says about the broker and the worker: a result was
\* answered, an answer was preceded by an accepted request, NoRouteError by a
\* returned one, and only a call with a timeout times out.
Provenance ==
    /\ \A c \in Calls : fut[c] = "result" \/ inbox[c] # "none" => c \in answered
    /\ \A c \in answered : wire[c] \in {"accepted", "confirmed"}
    /\ \A c \in Calls : pc[c] = "noroute" => wire[c] = "returned"
    /\ \A c \in Calls : pc[c] = "timingout" => c \in Timed

\* Initially nothing was answered, returned or timed.
LEMMA ProvenanceInit == Init => Provenance
  BY TasksAssumption DEF Init, Provenance, Tasks, Publishers

\* Only a response completes a future with a result, only a worker that got the
\* request responds, and the broker decides once per request.
LEMMA ProvenancePreserved == IInv /\ Provenance /\ [Next]_vars => Provenance'
<1> SUFFICES ASSUME IInv /\ Provenance, [Next]_vars PROVE Provenance'
  OBVIOUS
<1> USE TasksAssumption DEF TypeOK, Stages, Outcomes, CallLabels, PubLabels, ManagerLabels, Tasks, Publishers,
        netVars, rpcVars, history,
        Provenance, IInv, WireFresh, LockDiscipline, InCritical
<1>1. ASSUME NEW x \in Calls, BeginCall(x) PROVE Provenance'
  BY <1>1 DEF BeginCall, Goto, RegisterFuture
<1>2. ASSUME NEW x \in Calls, BeginCallUnconnected(x) PROVE Provenance'
  BY <1>2 DEF BeginCallUnconnected, Goto, Completed
<1>3. ASSUME NEW x \in Calls, CancelWait(x) PROVE Provenance'
  BY <1>3 DEF CancelWait, Goto, Completed
<1>4. ASSUME NEW x \in Calls, TimerFires(x) PROVE Provenance'
  BY <1>4 DEF TimerFires, Goto, Completed
<1>5. ASSUME NEW x \in Calls, WakeUp(x) PROVE Provenance'
  BY <1>5 DEF WakeUp, Goto, Forget
<1>6. ASSUME NEW x \in Calls, Unwind(x) PROVE Provenance'
  BY <1>6 DEF Unwind, Goto, Forget
<1>7. ASSUME NEW x \in Calls, AckResponse(x) PROVE Provenance'
  BY <1>7 DEF AckResponse
<1>8. ASSUME NEW x \in Calls, OnResponse(x) PROVE Provenance'
  BY <1>8 DEF OnResponse, Completed
<1>9. ASSUME NEW x \in Calls, Respond(x) PROVE Provenance'
  BY <1>9 DEF Respond
<1>10. ASSUME NEW x \in Pubs, BeginPub(x) PROVE Provenance'
  BY <1>10 DEF BeginPub, Goto
<1>11. ASSUME NEW x \in Pubs, BeginPubUnconnected(x) PROVE Provenance'
  BY <1>11 DEF BeginPubUnconnected, Goto, FailAwaiting, Completed
<1>12. ASSUME NEW x \in Publishers, Invoke(x) PROVE Provenance'
  BY <1>12 DEF Invoke, Goto
<1>13. ASSUME NEW x \in Publishers, PublishConfirmed(x) PROVE Provenance'
  BY <1>13 DEF PublishConfirmed, Goto
<1>14. ASSUME NEW x \in Publishers, PublishReturned(x) PROVE Provenance'
  BY <1>14 DEF PublishReturned, Goto
<1>15. ASSUME NEW x \in Publishers, PublishRaises(x) PROVE Provenance'
  BY <1>15 DEF PublishRaises, Goto, PublishFailed, FailAwaiting, Completed
<1>16. ASSUME NEW x \in Publishers, LibraryCancels(x) PROVE Provenance'
  BY <1>16 DEF LibraryCancels, Goto, PublishFailed, PublishCancelled, FailAwaiting, Completed, TaskWasActuallyCancelled
<1>17. ASSUME NEW x \in Publishers, CancelLock(x) PROVE Provenance'
  BY <1>17 DEF CancelLock, Goto
<1>18. ASSUME NEW x \in Publishers, CancelPublish(x) PROVE Provenance'
  BY <1>18 DEF CancelPublish, Goto, PublishFailed, PublishCancelled, FailAwaiting, Completed, TaskWasActuallyCancelled
<1>19. ASSUME NEW x \in Publishers, Accept(x) PROVE Provenance'
  BY <1>19 DEF Accept
<1>20. ASSUME NEW x \in Publishers, Confirm(x) PROVE Provenance'
  BY <1>20 DEF Confirm
<1>21. ASSUME NEW x \in Publishers, Return(x) PROVE Provenance'
  BY <1>21 DEF Return
<1>22. ASSUME NEW x \in Served, ServeRequest(x) PROVE Provenance'
  BY <1>22 DEF ServeRequest
<1>23. ASSUME NEW x \in Served, ServedDone(x) PROVE Provenance'
  BY <1>23 DEF ServedDone
<1>24. ASSUME NEW x \in Served, ReplyFails(x) PROVE Provenance'
  BY <1>24 DEF ReplyFails, FailAwaiting, Completed
<1>25. CASE CallConnect
  BY <1>25 DEF CallConnect, Goto
<1>26. CASE CallDisconnect
  BY <1>26 DEF CallDisconnect, Goto
<1>27. CASE BeginConnect
  BY <1>27 DEF BeginConnect, Goto
<1>28. CASE BeginDisconnect
  BY <1>28 DEF BeginDisconnect, Goto
<1>29. CASE Opened
  BY <1>29 DEF Opened, Goto
<1>30. CASE Declare
  BY <1>30 DEF Declare, Goto, NextStage
<1>31. CASE ConnectRaises
  BY <1>31 DEF ConnectRaises, Goto
<1>32. CASE CloseConnection
  BY <1>32 DEF CloseConnection, Goto, QueueLost
<1>33. CASE DeleteAttributes
  BY <1>33 DEF DeleteAttributes, Goto
<1>34. CASE Drop
  BY <1>34 DEF Drop, QueueLost
<1>35. CASE OnConnectionClosed
  BY <1>35 DEF OnConnectionClosed, FailAwaiting, Completed
<1>36. CASE Reconnect
  BY <1>36 DEF Reconnect
<1>37. CASE UNCHANGED vars
  BY <1>37 DEF vars
<1>38. CASE CloseRaises
  BY <1>38 DEF CloseRaises, Goto, QueueLost
<1>39. CASE CancelManager
  BY <1>39 DEF CancelManager, Goto
<1> QED
  BY <1>1, <1>2, <1>3, <1>4, <1>5, <1>6, <1>7, <1>8, <1>9, <1>10, <1>11, <1>12, <1>13, <1>14, <1>15, <1>16, <1>17, <1>18, <1>19, <1>20, <1>21, <1>22, <1>23, <1>24, <1>25, <1>26, <1>27, <1>28, <1>29, <1>30, <1>31, <1>32, <1>33, <1>34, <1>35, <1>36, <1>37, <1>38, <1>39 DEF Next, CallStep, PubStep, PublishStep, ManagerStep

\* A task that goes to another label shows the contract that label, if it is an
\* outcome, or else that the call is in flight.
LEMMA StatusAfterGoto ==
  ASSUME TypeOK, NEW c \in Calls, NEW label \in CallLabels \ {"idle"}, Goto(c, label)
  PROVE  status' = [status EXCEPT ![c] = IF label \in Outcomes THEN label ELSE "inflight"]
  BY DEF TypeOK, Goto, status, Outcomes, CallLabels, Tasks, Publishers

\* A call that goes to an outcome the contract allows makes the contract's End step.
LEMMA GotoOutcomeEnds ==
  ASSUME TypeOK, NEW c \in Calls, NEW o \in Outcomes, Goto(c, o),
         pc[c] \notin {"idle"} \cup Outcomes, Contract!MayEnd(c, o),
         UNCHANGED <<answered, cancelReq>>
  PROVE  Contract!End(c)
<1>1. status' = [status EXCEPT ![c] = o]
  BY StatusAfterGoto DEF CallLabels, Outcomes
<1>2. status[c] = "inflight"
  BY DEF status
<1> QED
  BY <1>1, <1>2 DEF Contract!End, Contract!Outcomes, Outcomes

\* The refinement mapping's view of one step.
ContractStep == [Contract!Next]_(Contract!vars)

\* Invoke starts a call, Respond answers it, a cancellation is recorded, the steps
\* that reach an outcome end it, and all others leave the contract's state alone.
LEMMA StepImplements == IInv /\ Provenance /\ [Next]_vars => ContractStep
<1> SUFFICES ASSUME IInv, Provenance, [Next]_vars PROVE ContractStep
  OBVIOUS
<1> USE TasksAssumption, TimedAssumption
    DEF IInv, TypeOK, Provenance, WireFresh, NoPhantomCancellation, CancelRecorded, Tasks,
        Publishers, netVars, rpcVars, history, CallLabels, PubLabels, ManagerLabels, Outcomes,
        Stages, status, Contract!vars
<1> USE DEF ContractStep
<1>1. ASSUME NEW x \in Calls, BeginCall(x) PROVE ContractStep
  BY <1>1 DEF BeginCall, Goto, RegisterFuture
<1>2. ASSUME NEW x \in Calls, BeginCallUnconnected(x) PROVE ContractStep
  BY <1>2 DEF BeginCallUnconnected, Goto, Completed
<1>3. ASSUME NEW x \in Calls, CancelWait(x) PROVE ContractStep
  <2>1. Contract!Cancel(x)
    BY <1>3 DEF CancelWait, Goto, Completed, Contract!Cancel
  <2> QED
    BY <2>1 DEF Contract!Next
<1>4. ASSUME NEW x \in Calls, TimerFires(x) PROVE ContractStep
  BY <1>4 DEF TimerFires, Goto, Completed
<1>5. ASSUME NEW x \in Calls, WakeUp(x) PROVE ContractStep
  <2>1. Contract!End(x)
    BY GotoOutcomeEnds, <1>5 DEF WakeUp, Goto, Forget, Contract!MayEnd
  <2> QED
    BY <2>1 DEF Contract!Next
<1>6. ASSUME NEW x \in Calls, Unwind(x) PROVE ContractStep
  <2>1. Contract!End(x)
    BY GotoOutcomeEnds, <1>6 DEF Unwind, Goto, Forget, Contract!MayEnd
  <2> QED
    BY <2>1 DEF Contract!Next
<1>7. ASSUME NEW x \in Calls, AckResponse(x) PROVE ContractStep
  BY <1>7 DEF AckResponse
<1>8. ASSUME NEW x \in Calls, OnResponse(x) PROVE ContractStep
  BY <1>8 DEF OnResponse, Completed
<1>9. ASSUME NEW x \in Calls, Respond(x) PROVE ContractStep
  <2>1. Contract!Answer(x) \/ UNCHANGED Contract!vars
    BY <1>9 DEF Respond, Contract!Answer
  <2> QED
    BY <2>1 DEF Contract!Next
<1>10. ASSUME NEW x \in Pubs, BeginPub(x) PROVE ContractStep
  BY <1>10 DEF BeginPub, Goto
<1>11. ASSUME NEW x \in Pubs, BeginPubUnconnected(x) PROVE ContractStep
  BY <1>11 DEF BeginPubUnconnected, Goto, FailAwaiting, Completed
<1>12. ASSUME NEW x \in Publishers, Invoke(x) PROVE ContractStep
  <2>1. CASE x \in Calls
    <3>1. pc[x] = "idle" /\ Goto(x, "lock") /\ UNCHANGED <<answered, cancelReq>>
      BY <1>12, <2>1 DEF Invoke
    <3>2. status' = [status EXCEPT ![x] = "inflight"]
      BY <2>1, <3>1, StatusAfterGoto
    <3>3. status[x] = "idle"
      BY <2>1, <3>1
    <3>4. Contract!Start(x)
      BY <2>1, <3>1, <3>2, <3>3 DEF Contract!Start
    <3> QED
      BY <2>1, <3>4 DEF Contract!Next
  <2>2. CASE x \notin Calls
    BY <1>12, <2>2 DEF Invoke, Goto
  <2> QED
    BY <2>1, <2>2
<1>13. ASSUME NEW x \in Publishers, PublishConfirmed(x) PROVE ContractStep
  BY <1>13 DEF PublishConfirmed, Goto
<1>14. ASSUME NEW x \in Publishers, PublishReturned(x) PROVE ContractStep
  <2>1. CASE x \in Calls
    <3>1. Contract!End(x)
      BY GotoOutcomeEnds, <1>14, <2>1 DEF PublishReturned, Goto, Contract!MayEnd
    <3> QED
      BY <2>1, <3>1 DEF Contract!Next
  <2>2. CASE x \notin Calls
    BY <1>14, <2>2 DEF PublishReturned, Goto
  <2> QED
    BY <2>1, <2>2
<1>15. ASSUME NEW x \in Publishers, PublishRaises(x) PROVE ContractStep
  BY <1>15 DEF PublishRaises, Goto, PublishFailed, FailAwaiting, Completed
<1>16. ASSUME NEW x \in Publishers, LibraryCancels(x) PROVE ContractStep
  <2>1. CASE x \in Calls /\ TaskWasActuallyCancelled(x, cancelReq)
    <3>1. /\ pc[x] = "publish"
          /\ Goto(x, "cancelled")
          /\ UNCHANGED <<answered, cancelReq>>
      BY <1>16, <2>1 DEF LibraryCancels, PublishCancelled
    <3>2. Contract!MayEnd(x, "cancelled")
      BY <2>1 DEF Contract!MayEnd, TaskWasActuallyCancelled
    <3>3. Contract!End(x)
      BY <2>1, <3>1, <3>2, GotoOutcomeEnds
    <3> QED
      BY <2>1, <3>3 DEF Contract!Next
  <2>2. CASE x \in Calls /\ ~TaskWasActuallyCancelled(x, cancelReq)
    BY <1>16, <2>2 DEF LibraryCancels, PublishFailed, Goto
  <2>3. CASE x \notin Calls
    BY <1>16, <2>3 DEF LibraryCancels, PublishFailed, PublishCancelled, Goto
  <2> QED
    BY <2>1, <2>2, <2>3
<1>17. ASSUME NEW x \in Publishers, CancelLock(x) PROVE ContractStep
  <2>1. CASE x \in Calls
    <3>1. /\ pc[x] \in {"lock", "publish"}
          /\ Goto(x, "cancelled")
          /\ cancelReq' = cancelReq \cup {x} /\ UNCHANGED answered
      BY <1>17, <2>1 DEF CancelLock
    <3>2. status' = [status EXCEPT ![x] = "cancelled"]
      BY <2>1, <3>1, StatusAfterGoto
    <3>3. status[x] = "inflight"
      BY <2>1, <3>1
    <3>4. Contract!CancelNow(x)
      BY <2>1, <3>1, <3>2, <3>3 DEF Contract!CancelNow
    <3> QED
      BY <2>1, <3>4 DEF Contract!Next
  <2>2. CASE x \notin Calls
    BY <1>17, <2>2 DEF CancelLock, Goto
  <2> QED
    BY <2>1, <2>2
<1>18. ASSUME NEW x \in Publishers, CancelPublish(x) PROVE ContractStep
  <2>1. CASE x \in Calls
    <3>1. /\ pc[x] \in {"lock", "publish"}
          /\ Goto(x, "cancelled")
          /\ cancelReq' = cancelReq \cup {x} /\ UNCHANGED answered
      BY <1>18, <2>1 DEF CancelPublish, PublishCancelled, TaskWasActuallyCancelled
    <3>2. status' = [status EXCEPT ![x] = "cancelled"]
      BY <2>1, <3>1, StatusAfterGoto
    <3>3. status[x] = "inflight"
      BY <2>1, <3>1
    <3>4. Contract!CancelNow(x)
      BY <2>1, <3>1, <3>2, <3>3 DEF Contract!CancelNow
    <3> QED
      BY <2>1, <3>4 DEF Contract!Next
  <2>2. CASE x \notin Calls
    BY <1>18, <2>2 DEF CancelPublish, PublishCancelled, TaskWasActuallyCancelled, Goto
  <2> QED
    BY <2>1, <2>2
<1>19. ASSUME NEW x \in Publishers, Accept(x) PROVE ContractStep
  BY <1>19 DEF Accept
<1>20. ASSUME NEW x \in Publishers, Confirm(x) PROVE ContractStep
  BY <1>20 DEF Confirm
<1>21. ASSUME NEW x \in Publishers, Return(x) PROVE ContractStep
  BY <1>21 DEF Return
<1>22. ASSUME NEW x \in Served, ServeRequest(x) PROVE ContractStep
  BY <1>22 DEF ServeRequest
<1>23. ASSUME NEW x \in Served, ServedDone(x) PROVE ContractStep
  BY <1>23 DEF ServedDone
<1>24. ASSUME NEW x \in Served, ReplyFails(x) PROVE ContractStep
  BY <1>24 DEF ReplyFails, FailAwaiting, Completed
<1>25. CASE CallConnect
  BY <1>25 DEF CallConnect, Goto
<1>26. CASE CallDisconnect
  BY <1>26 DEF CallDisconnect, Goto
<1>27. CASE BeginConnect
  BY <1>27 DEF BeginConnect, Goto
<1>28. CASE BeginDisconnect
  BY <1>28 DEF BeginDisconnect, Goto
<1>29. CASE Opened
  BY <1>29 DEF Opened, Goto
<1>30. CASE Declare
  BY <1>30 DEF Declare, Goto, NextStage
<1>31. CASE ConnectRaises
  BY <1>31 DEF ConnectRaises, Goto
<1>32. CASE CloseConnection
  BY <1>32 DEF CloseConnection, Goto, QueueLost
<1>33. CASE DeleteAttributes
  BY <1>33 DEF DeleteAttributes, Goto
<1>34. CASE Drop
  BY <1>34 DEF Drop, QueueLost
<1>35. CASE OnConnectionClosed
  BY <1>35 DEF OnConnectionClosed, FailAwaiting, Completed
<1>36. CASE Reconnect
  BY <1>36 DEF Reconnect
<1>37. CASE UNCHANGED vars
  BY <1>37 DEF vars
<1>38. CASE CloseRaises
  BY <1>38 DEF CloseRaises, Goto, QueueLost
<1>39. CASE CancelManager
  BY <1>39 DEF CancelManager, Goto
<1> QED
  BY <1>1, <1>2, <1>3, <1>4, <1>5, <1>6, <1>7, <1>8, <1>9, <1>10, <1>11, <1>12, <1>13, <1>14, <1>15, <1>16, <1>17, <1>18, <1>19, <1>20, <1>21, <1>22, <1>23, <1>24, <1>25, <1>26, <1>27, <1>28, <1>29, <1>30, <1>31, <1>32, <1>33, <1>34, <1>35, <1>36, <1>37, <1>38, <1>39 DEF Next, CallStep, PubStep, PublishStep, ManagerStep

\* Every behaviour of the transport is one the contract of send_request allows.
THEOREM Refinement == Spec => ImplementsContract
<1>1. Init => IInv /\ Provenance
  BY InitEstablishes, ProvenanceInit
<1>2. IInv /\ Provenance /\ [Next]_vars => (IInv /\ Provenance)'
  BY StepPreserves, ProvenancePreserved
<1>3. Init => Contract!Init
  BY TasksAssumption DEF Init, Contract!Init, status, Outcomes, Tasks, Publishers
<1>4. IInv /\ Provenance /\ [Next]_vars => [Contract!Next]_(Contract!vars)
  BY StepImplements DEF ContractStep
<1> QED
  BY <1>1, <1>2, <1>3, <1>4, PTL DEF Spec, ImplementsContract, Contract!Spec
=============================================================================
