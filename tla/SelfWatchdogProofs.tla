------------------------- MODULE SelfWatchdogProofs -------------------------
(***************************************************************************)
(* Proofs about SelfWatchdog, for all durations and for any delay of the   *)
(* thread.                                                                 *)
(***************************************************************************)
EXTENDS SelfWatchdog, TLAPS

\* Only stop() leads the main thread away from the loop.
LoopMatchesStop == loop \in {"acking", "joining", "closed"} => stop

\* A probe exists once the thread has posted one, and no wait is longer than Timeout.
Probing == /\ thread \in {"posting", "awaiting", "deciding"} => ack # "none"
           /\ thread = "awaiting" => timer <= Timeout

\* While an acknowledgement is missing, the loop has been busy since the wait began.
SilentSincePost == thread = "awaiting" /\ ack = "clear" /\ ~stop =>
    /\ posted
    /\ loop = "busy" => blocked + timer >= Timeout
    /\ loop = "free" => timer = Timeout

\* So a wait that expired, and a decision to abort, follow a loop busy for Timeout.
ExpiredIsSilent ==
    /\ blocked <= longest
    /\ thread = "awaiting" /\ timer = 0 /\ ~stop => longest >= Timeout
    /\ thread = "deciding" /\ ~stop => longest >= Timeout
    /\ NoFalseAbort

\* The ticks the thread can still sleep after stop().
Remaining ==
    IF thread = "posting" \/ (thread = "waiting" /\ timer = 0) THEN Timeout
    ELSE IF thread = "awaiting" /\ ack = "clear" THEN timer ELSE 0

\* What is left of the join covers them, and what the thread was held up is made good by
\* the surplus of Period + 1.
JoinCovers == loop = "joining" /\ thread \notin {"gone", "aborting"} =>
    join + lag >= Period + 1 + Remaining

\* The ticks the thread can still sleep before it kills a process whose loop stays busy, and
\* those it slept, are within the deadline.
Owed == CASE thread = "waiting" -> timer + Timeout + KillAfter
          [] thread = "posting" -> Timeout + KillAfter
          [] thread = "awaiting" -> IF ack = "clear" THEN timer + KillAfter ELSE Deadline
          [] thread = "deciding" -> KillAfter
          [] OTHER -> timer
KillDue == ~stop =>
    /\ thread # "gone"
    /\ thread = "posting" => ack = "clear" /\ ~posted
    /\ loop # "busy" => slept = 0
    /\ slept + Owed <= Deadline

IInv == TypeOK /\ LoopMatchesStop /\ Probing /\ SilentSincePost /\ ExpiredIsSilent
        /\ JoinCovers /\ StopJoins /\ KillDue
-----------------------------------------------------------------------------
\* start() has just been called, on a loop that runs.
LEMMA InitEstablishes == Init => IInv
<1> USE DurationsAssumption DEF Init
<1>1. Init => TypeOK
  <2>1. 0 \in 0..Timeout /\ 0 \in 0..MaxLag /\ 0 \in 0..Period + Timeout + 1 /\ Period \in Nat
        /\ 0 \in 0..Deadline + 1
    BY DEF Deadline
  <2> QED
    BY <2>1 DEF TypeOK
<1>3. Init => LoopMatchesStop /\ Probing /\ SilentSincePost
  BY DEF LoopMatchesStop, Probing, SilentSincePost
<1>2. Init => ExpiredIsSilent /\ JoinCovers /\ StopJoins
  BY DEF ExpiredIsSilent, NoFalseAbort, JoinCovers, StopJoins
<1>4. Init => KillDue
  BY DEF KillDue, Owed, Deadline
<1> QED
  BY <1>1, <1>2, <1>3, <1>4 DEF IInv

\* Every step of either thread, and of the clock, keeps the types.
LEMMA TypePreserved == TypeOK /\ [Next]_vars => TypeOK'
<1> SUFFICES ASSUME TypeOK, [Next]_vars PROVE TypeOK'
  OBVIOUS
<1> USE DurationsAssumption DEF TypeOK, threadVars, loopVars, history
<1>1. CASE NewProbe
  BY <1>1 DEF NewProbe, At, Goto
<1>2. CASE Leave
  BY <1>2 DEF Leave, At, Goto
<1>3. CASE Post
  BY <1>3 DEF Post, At, Goto
<1>4. CASE PostFails
  BY <1>4 DEF PostFails, At, Goto
<1>5. CASE Acknowledged
  BY <1>5 DEF Acknowledged, At, Goto
<1>6. CASE Expired
  BY <1>6 DEF Expired, At, Goto
<1>7. CASE Decide
  BY <1>7 DEF Decide, At, Goto
<1>8. CASE Kill
  BY <1>8 DEF Kill, At
<1>9. CASE LoopAnswers
  BY <1>9 DEF LoopAnswers, RunPosted
<1>10. CASE SetAcknowledgement
  BY <1>10 DEF SetAcknowledgement
<1>11. CASE JoinReturns
  BY <1>11 DEF JoinReturns
<1>12. CASE LoopReturns
  <2>1. 0 \in 0..Timeout /\ 0 \in 0..Deadline + 1
    BY DEF Deadline
  <2> QED
    BY <1>12, <2>1 DEF LoopReturns, RunPosted
<1>13. CASE LoopBlocks
  BY <1>13 DEF LoopBlocks
<1>14. CASE Stop
  BY <1>14 DEF Stop
<1>15. CASE Close
  BY <1>15 DEF Close
<1>16. CASE Tick
  <2>1. Deadline \in Nat
    BY DEF Deadline
  <2>2. slept' \in 0..Deadline + 1
    BY <1>16, <2>1 DEF Tick, TimePasses
  <2> QED
    BY <1>16, <2>2 DEF Tick, TimePasses, Sleeping
<1>17. CASE UNCHANGED vars
  BY <1>17 DEF vars
<1> QED
  BY <1>1, <1>2, <1>3, <1>4, <1>5, <1>6, <1>7, <1>8, <1>9, <1>10, <1>11, <1>12, <1>13, <1>14, <1>15, <1>16, <1>17 DEF Next, ThreadStep, LoopStep

\* The main thread is away from the loop only in and after stop(), and a probe that is under
\* way has its event.
LEMMA FramePreserved == TypeOK /\ LoopMatchesStop /\ Probing /\ [Next]_vars => (LoopMatchesStop /\ Probing)'
<1> SUFFICES ASSUME TypeOK /\ LoopMatchesStop /\ Probing, [Next]_vars PROVE (LoopMatchesStop /\ Probing)'
  OBVIOUS
<1> USE DurationsAssumption DEF TypeOK, LoopMatchesStop, Probing, threadVars, loopVars, history
<1>1. CASE NewProbe
  BY <1>1 DEF NewProbe, At, Goto
<1>2. CASE Leave
  BY <1>2 DEF Leave, At, Goto
<1>3. CASE Post
  BY <1>3 DEF Post, At, Goto
<1>4. CASE PostFails
  BY <1>4 DEF PostFails, At, Goto
<1>5. CASE Acknowledged
  BY <1>5 DEF Acknowledged, At, Goto
<1>6. CASE Expired
  BY <1>6 DEF Expired, At, Goto
<1>7. CASE Decide
  BY <1>7 DEF Decide, At, Goto
<1>8. CASE Kill
  BY <1>8 DEF Kill, At
<1>9. CASE LoopAnswers
  BY <1>9 DEF LoopAnswers, RunPosted
<1>10. CASE SetAcknowledgement
  BY <1>10 DEF SetAcknowledgement
<1>11. CASE JoinReturns
  BY <1>11 DEF JoinReturns
<1>12. CASE LoopReturns
  BY <1>12 DEF LoopReturns, RunPosted
<1>13. CASE LoopBlocks
  BY <1>13 DEF LoopBlocks
<1>14. CASE Stop
  BY <1>14 DEF Stop
<1>15. CASE Close
  BY <1>15 DEF Close
<1>16. CASE Tick
  BY <1>16 DEF Tick, TimePasses, Sleeping
<1>17. CASE UNCHANGED vars
  BY <1>17 DEF vars
<1> QED
  BY <1>1, <1>2, <1>3, <1>4, <1>5, <1>6, <1>7, <1>8, <1>9, <1>10, <1>11, <1>12, <1>13, <1>14, <1>15, <1>16, <1>17 DEF Next, ThreadStep, LoopStep

\* A wait and the loop's silence grow together.
LEMMA SilencePreserved == TypeOK /\ LoopMatchesStop /\ Probing /\ SilentSincePost /\ [Next]_vars => SilentSincePost'
<1> SUFFICES ASSUME TypeOK /\ LoopMatchesStop /\ Probing /\ SilentSincePost, [Next]_vars PROVE SilentSincePost'
  OBVIOUS
<1> USE DurationsAssumption DEF TypeOK, LoopMatchesStop, Probing, SilentSincePost, threadVars, loopVars, history
<1>1. CASE NewProbe
  BY <1>1 DEF NewProbe, At, Goto
<1>2. CASE Leave
  BY <1>2 DEF Leave, At, Goto
<1>3. CASE Post
  BY <1>3 DEF Post, At, Goto
<1>4. CASE PostFails
  BY <1>4 DEF PostFails, At, Goto
<1>5. CASE Acknowledged
  BY <1>5 DEF Acknowledged, At, Goto
<1>6. CASE Expired
  BY <1>6 DEF Expired, At, Goto
<1>7. CASE Decide
  BY <1>7 DEF Decide, At, Goto
<1>8. CASE Kill
  BY <1>8 DEF Kill, At
<1>9. CASE LoopAnswers
  BY <1>9 DEF LoopAnswers, RunPosted
<1>10. CASE SetAcknowledgement
  BY <1>10 DEF SetAcknowledgement
<1>11. CASE JoinReturns
  BY <1>11 DEF JoinReturns
<1>12. CASE LoopReturns
  BY <1>12 DEF LoopReturns, RunPosted
<1>13. CASE LoopBlocks
  BY <1>13 DEF LoopBlocks
<1>14. CASE Stop
  BY <1>14 DEF Stop
<1>15. CASE Close
  BY <1>15 DEF Close
<1>16. CASE Tick
  BY <1>16 DEF Tick, TimePasses, Sleeping
<1>17. CASE UNCHANGED vars
  BY <1>17 DEF vars
<1> QED
  BY <1>1, <1>2, <1>3, <1>4, <1>5, <1>6, <1>7, <1>8, <1>9, <1>10, <1>11, <1>12, <1>13, <1>14, <1>15, <1>16, <1>17 DEF Next, ThreadStep, LoopStep

\* No wait expires, and no abort is decided, without that silence.
LEMMA ExpiryPreserved == TypeOK /\ LoopMatchesStop /\ Probing /\ SilentSincePost /\ ExpiredIsSilent /\ [Next]_vars => ExpiredIsSilent'
<1> SUFFICES ASSUME TypeOK /\ LoopMatchesStop /\ Probing /\ SilentSincePost /\ ExpiredIsSilent, [Next]_vars PROVE ExpiredIsSilent'
  OBVIOUS
<1> USE DurationsAssumption DEF TypeOK, LoopMatchesStop, Probing, SilentSincePost, ExpiredIsSilent, NoFalseAbort, threadVars, loopVars, history
<1>1. CASE NewProbe
  BY <1>1 DEF NewProbe, At, Goto
<1>2. CASE Leave
  BY <1>2 DEF Leave, At, Goto
<1>3. CASE Post
  BY <1>3 DEF Post, At, Goto
<1>4. CASE PostFails
  BY <1>4 DEF PostFails, At, Goto
<1>5. CASE Acknowledged
  BY <1>5 DEF Acknowledged, At, Goto
<1>6. CASE Expired
  BY <1>6 DEF Expired, At, Goto
<1>7. CASE Decide
  BY <1>7 DEF Decide, At, Goto
<1>8. CASE Kill
  BY <1>8 DEF Kill, At
<1>9. CASE LoopAnswers
  BY <1>9 DEF LoopAnswers, RunPosted
<1>10. CASE SetAcknowledgement
  BY <1>10 DEF SetAcknowledgement
<1>11. CASE JoinReturns
  BY <1>11 DEF JoinReturns
<1>12. CASE LoopReturns
  BY <1>12 DEF LoopReturns, RunPosted
<1>13. CASE LoopBlocks
  BY <1>13 DEF LoopBlocks
<1>14. CASE Stop
  BY <1>14 DEF Stop
<1>15. CASE Close
  BY <1>15 DEF Close
<1>16. CASE Tick
  BY <1>16 DEF Tick, TimePasses, Sleeping
<1>17. CASE UNCHANGED vars
  BY <1>17 DEF vars
<1> QED
  BY <1>1, <1>2, <1>3, <1>4, <1>5, <1>6, <1>7, <1>8, <1>9, <1>10, <1>11, <1>12, <1>13, <1>14, <1>15, <1>16, <1>17 DEF Next, ThreadStep, LoopStep

\* Each tick inside join() is one the thread sleeps or one it is held up.
LEMMA JoinPreserved == TypeOK /\ LoopMatchesStop /\ Probing /\ JoinCovers /\ StopJoins /\ [Next]_vars => (JoinCovers /\ StopJoins)'
<1> SUFFICES ASSUME TypeOK /\ LoopMatchesStop /\ Probing /\ JoinCovers /\ StopJoins, [Next]_vars PROVE (JoinCovers /\ StopJoins)'
  OBVIOUS
<1> USE DurationsAssumption DEF TypeOK, LoopMatchesStop, Probing, JoinCovers, StopJoins, Remaining, threadVars, loopVars, history
<1>1. CASE NewProbe
  BY <1>1 DEF NewProbe, At, Goto
<1>2. CASE Leave
  BY <1>2 DEF Leave, At, Goto
<1>3. CASE Post
  BY <1>3 DEF Post, At, Goto
<1>4. CASE PostFails
  BY <1>4 DEF PostFails, At, Goto
<1>5. CASE Acknowledged
  BY <1>5 DEF Acknowledged, At, Goto
<1>6. CASE Expired
  BY <1>6 DEF Expired, At, Goto
<1>7. CASE Decide
  BY <1>7 DEF Decide, At, Goto
<1>8. CASE Kill
  BY <1>8 DEF Kill, At
<1>9. CASE LoopAnswers
  BY <1>9 DEF LoopAnswers, RunPosted
<1>10. CASE SetAcknowledgement
  BY <1>10 DEF SetAcknowledgement
<1>11. CASE JoinReturns
  BY <1>11 DEF JoinReturns
<1>12. CASE LoopReturns
  BY <1>12 DEF LoopReturns, RunPosted
<1>13. CASE LoopBlocks
  BY <1>13 DEF LoopBlocks
<1>14. CASE Stop
  BY <1>14 DEF Stop
<1>15. CASE Close
  BY <1>15 DEF Close
<1>16. CASE Tick
  BY <1>16 DEF Tick, TimePasses, Sleeping
<1>17. CASE UNCHANGED vars
  BY <1>17 DEF vars
<1> QED
  BY <1>1, <1>2, <1>3, <1>4, <1>5, <1>6, <1>7, <1>8, <1>9, <1>10, <1>11, <1>12, <1>13, <1>14, <1>15, <1>16, <1>17 DEF Next, ThreadStep, LoopStep

\* While the loop is busy each tick the thread sleeps brings the kill nearer.
LEMMA KillPreserved == TypeOK /\ LoopMatchesStop /\ Probing /\ KillDue /\ [Next]_vars => KillDue'
<1> SUFFICES ASSUME TypeOK /\ LoopMatchesStop /\ Probing /\ KillDue, [Next]_vars PROVE KillDue'
  OBVIOUS
<1> USE DurationsAssumption DEF TypeOK, LoopMatchesStop, Probing, KillDue, Owed, Deadline, threadVars, loopVars, history
<1>1. CASE NewProbe
  BY <1>1 DEF NewProbe, At, Goto
<1>2. CASE Leave
  BY <1>2 DEF Leave, At, Goto
<1>3. CASE Post
  BY <1>3 DEF Post, At, Goto
<1>4. CASE PostFails
  BY <1>4 DEF PostFails, At, Goto
<1>5. CASE Acknowledged
  BY <1>5 DEF Acknowledged, At, Goto
<1>6. CASE Expired
  BY <1>6 DEF Expired, At, Goto
<1>7. CASE Decide
  BY <1>7 DEF Decide, At, Goto
<1>8. CASE Kill
  BY <1>8 DEF Kill, At
<1>9. CASE LoopAnswers
  BY <1>9 DEF LoopAnswers, RunPosted
<1>10. CASE SetAcknowledgement
  BY <1>10 DEF SetAcknowledgement
<1>11. CASE JoinReturns
  BY <1>11 DEF JoinReturns
<1>12. CASE LoopReturns
  BY <1>12 DEF LoopReturns, RunPosted
<1>13. CASE LoopBlocks
  BY <1>13 DEF LoopBlocks
<1>14. CASE Stop
  BY <1>14 DEF Stop
<1>15. CASE Close
  BY <1>15 DEF Close
<1>16. CASE Tick
  BY <1>16 DEF Tick, TimePasses, Sleeping
<1>17. CASE UNCHANGED vars
  BY <1>17 DEF vars
<1> QED
  BY <1>1, <1>2, <1>3, <1>4, <1>5, <1>6, <1>7, <1>8, <1>9, <1>10, <1>11, <1>12, <1>13, <1>14, <1>15, <1>16, <1>17 DEF Next, ThreadStep, LoopStep

\* The inductive invariant holds in every reachable state.
LEMMA Invariance == Spec => []IInv
<1>1. IInv /\ [Next]_vars => IInv'
  BY TypePreserved, FramePreserved, SilencePreserved, ExpiryPreserved, JoinPreserved,
     KillPreserved DEF IInv
<1> QED
  BY InitEstablishes, <1>1, PTL DEF Spec

\* Every variable of the watchdog keeps its type.
THEOREM TypeCorrect == Spec => []TypeOK
<1>1. IInv => TypeOK
  BY DEF IInv
<1> QED
  BY Invariance, <1>1, PTL

\* A process whose loop always answers within Timeout is never aborted.
THEOREM AbortsOnlyTheSilent == Spec => []NoFalseAbort
<1>1. IInv => NoFalseAbort
  BY DEF IInv, ExpiredIsSilent
<1> QED
  BY Invariance, <1>1, PTL

\* stop() outlasts the thread, unless that is held up for more than Period.
THEOREM StopOutlastsThread == Spec => []StopJoins
<1>1. IInv => StopJoins
  BY DEF IInv
<1> QED
  BY Invariance, <1>1, PTL

\* A hanging loop is killed within a period, a timeout and the delay of _abort of the
\* thread's own time.
THEOREM HangsAreKilledInTime == Spec => []KilledInTime
<1>1. IInv => KilledInTime
  <2>1. SUFFICES ASSUME IInv, ~stop PROVE slept <= Deadline
    BY DEF KilledInTime
  <2>2. slept + Owed <= Deadline /\ slept \in Nat /\ Owed \in Nat /\ Deadline \in Nat
    BY <2>1, DurationsAssumption DEF IInv, KillDue, TypeOK, Owed, Deadline
  <2>3. QED BY <2>2
<1> QED
  BY Invariance, <1>1, PTL
=============================================================================
