---------------------------- MODULE SelfWatchdog ----------------------------
(***************************************************************************)
(* _SelfWatchdog of "atasks service": a thread that posts a callback to    *)
(* the main asyncio loop every now and then and aborts the process when it *)
(* is not run in time - while the loop may be busy, and while the loop's   *)
(* own thread is inside stop(), which blocks it.                           *)
(*                                                                         *)
(* Time is counted in ticks.  Both threads may be preempted between any    *)
(* two statements that touch what they share.                              *)
(***************************************************************************)
EXTENDS Naturals

CONSTANTS Period, Timeout, KillAfter,   \* the durations of the command line
          MaxLag                        \* bound on how long a runnable thread is held up

\* _positive_seconds
ASSUME DurationsAssumption == /\ Period \in Nat \ {0}
                              /\ Timeout \in Nat \ {0}
                              /\ KillAfter \in Nat \ {0}
                              /\ MaxLag \in Nat

VARIABLES thread,    \* where the probing thread is
          timer,     \* ticks left of its wait() or sleep()
          stop,      \* _stop
          ack,       \* the current _acknowledgement: "none" yet, "clear" or "set"
          posted,    \* its set() is among the loop's ready callbacks
          loop,      \* the main thread: "free", "busy" in user code, inside stop()
                     \* at "acking" or "joining", or "closed"
          join,      \* ticks left of join(timeout=...)
          process,   \* "alive" or "dead"
          blocked,   \* history: ticks since a busy loop ran its callbacks
          longest,   \* history: the largest blocked, up to Timeout
          slept,     \* history: ticks the thread slept since the loop became busy
          lag        \* history: ticks the thread was held up since stop()

threadVars == <<thread, timer>>
loopVars == <<loop, join>>
history == <<blocked, longest, slept, lag>>
vars == <<threadVars, stop, ack, posted, loopVars, process, history>>

\* start()
Init == /\ thread = "waiting" /\ timer = Period
        /\ stop = FALSE /\ ack = "none" /\ posted = FALSE
        /\ loop = "free" /\ join = 0
        /\ process = "alive"
        /\ blocked = 0 /\ longest = 0 /\ slept = 0 /\ lag = 0
-----------------------------------------------------------------------------
(* The probing thread, _run. *)

At(place) == process = "alive" /\ thread = place
Goto(place, ticks) == thread' = place /\ timer' = ticks

\* _stop.wait(period) returns False: there is a new event to acknowledge.  A stop() that
\* comes after the wait has expired is not noticed.
NewProbe ==
    /\ At("waiting") /\ timer = 0
    /\ Goto("posting", 0)
    /\ ack' = "clear" /\ posted' = FALSE
    /\ UNCHANGED <<stop, loopVars, process, history>>

\* _stop.wait(period) returns True.
Leave ==
    /\ At("waiting") /\ stop
    /\ Goto("gone", 0)
    /\ UNCHANGED <<stop, ack, posted, loopVars, process, history>>

\* call_soon_threadsafe, and the wait for the acknowledgement.
Post ==
    /\ At("posting") /\ loop # "closed"
    /\ Goto("awaiting", Timeout)
    /\ posted' = TRUE
    /\ UNCHANGED <<stop, ack, loopVars, process, history>>

\* It raises RuntimeError on a closed loop.
PostFails ==
    /\ At("posting") /\ loop = "closed"
    /\ IF stop THEN Goto("gone", 0) ELSE Goto("aborting", KillAfter)
    /\ UNCHANGED <<stop, ack, posted, loopVars, process, history>>

\* The acknowledgement is there.  One that is set after the wait expired may be missed.
Acknowledged ==
    /\ At("awaiting") /\ ack = "set"
    /\ Goto("waiting", Period)
    /\ UNCHANGED <<stop, ack, posted, loopVars, process, history>>
Expired ==
    /\ At("awaiting") /\ timer = 0
    /\ Goto("deciding", 0)
    /\ UNCHANGED <<stop, ack, posted, loopVars, process, history>>

\* Unacknowledged: forgiven if stop() was called meanwhile.
DecideAborts ==
    /\ At("deciding")
    /\ Goto("aborting", KillAfter)
    /\ UNCHANGED <<stop, ack, posted, loopVars, process, history>>
DecideContinues ==
    /\ At("deciding")
    /\ Goto("waiting", Period)
    /\ UNCHANGED <<stop, ack, posted, loopVars, process, history>>
Decide ==
    /\ At("deciding")
    /\ IF stop THEN Goto("waiting", Period) ELSE Goto("aborting", KillAfter)
    /\ UNCHANGED <<stop, ack, posted, loopVars, process, history>>

\* _abort: SIGABRT, which the process may survive for a while, and SIGKILL, which it
\* does not.
Kill ==
    /\ At("aborting")
    /\ process' = "dead"
    /\ UNCHANGED <<threadVars, stop, ack, posted, loopVars, history>>

ThreadStep == \/ NewProbe \/ Leave \/ Post \/ PostFails
              \/ Acknowledged \/ Expired \/ Decide \/ Kill
-----------------------------------------------------------------------------
(* The main thread. *)

\* A callback of the loop blocks it.  Each iteration runs what was posted before it.
LoopBlocks ==
    /\ process = "alive" /\ loop = "free" /\ ~posted
    /\ loop' = "busy"
    /\ UNCHANGED <<threadVars, stop, ack, posted, join, process, history>>

\* The loop gets round to the callbacks posted so far, at once or after what blocked it.
RunPosted ==
    /\ ack' = IF posted THEN "set" ELSE ack
    /\ posted' = FALSE
    /\ UNCHANGED <<threadVars, stop, join, process, longest, lag>>
LoopReturns ==
    /\ process = "alive" /\ loop = "busy"
    /\ loop' = "free" /\ blocked' = 0 /\ slept' = 0
    /\ RunPosted
LoopAnswers ==
    /\ process = "alive" /\ loop = "free" /\ posted
    /\ UNCHANGED <<loop, blocked, slept>>
    /\ RunPosted

\* stop(), called by aiomain on the loop's own thread.
Stop ==
    /\ process = "alive" /\ loop = "free" /\ ~stop
    /\ stop' = TRUE /\ loop' = "acking"
    /\ UNCHANGED <<threadVars, ack, posted, join, process, history>>
JoinBriefly ==
    /\ process = "alive" /\ loop = "acking"
    /\ ack' = IF ack = "none" THEN ack ELSE "set"
    /\ loop' = "joining" /\ join' = Timeout
    /\ UNCHANGED <<threadVars, stop, posted, process, history>>
SetAcknowledgement ==
    /\ process = "alive" /\ loop = "acking"
    /\ ack' = IF ack = "none" THEN ack ELSE "set"
    /\ loop' = "joining" /\ join' = Period + Timeout + 1
    /\ UNCHANGED <<threadVars, stop, posted, process, history>>

\* join() returns; the loop goes on until main() closes it.
JoinReturns ==
    /\ process = "alive" /\ loop = "joining" /\ (thread = "gone" \/ join = 0)
    /\ loop' = "free" /\ join' = 0
    /\ UNCHANGED <<threadVars, stop, ack, posted, process, history>>
Close ==
    /\ process = "alive" /\ loop = "free" /\ stop
    /\ loop' = "closed"
    /\ UNCHANGED <<threadVars, stop, ack, posted, join, process, history>>
-----------------------------------------------------------------------------
(* Time. *)

\* The thread waits in a call that nothing has ended yet.
Sleeping == \/ thread = "waiting" /\ ~stop /\ timer > 0
            \/ thread = "awaiting" /\ ack = "clear" /\ timer > 0
            \/ thread = "aborting" /\ timer > 0
            \/ thread = "gone"

\* Code of the loop that does not block takes no time.  The thread may be held up, after
\* stop() for MaxLag ticks in all.
Deadline == Period + Timeout + KillAfter
TimePasses(asleep) ==
    /\ process = "alive"
    /\ loop \in {"busy", "joining", "closed"} \/ (loop = "free" /\ ~posted)
    /\ loop = "joining" => join > 0 /\ thread # "gone"
    /\ asleep \/ lag < MaxLag
    /\ join' = IF loop = "joining" THEN join - 1 ELSE join
    /\ blocked' = IF loop = "busy" /\ blocked < Timeout THEN blocked + 1 ELSE blocked
    /\ longest' = IF blocked' > longest THEN blocked' ELSE longest
    /\ slept' = IF loop = "busy" /\ asleep /\ ~stop /\ slept <= Deadline THEN slept + 1 ELSE slept
    /\ lag' = IF stop /\ ~asleep THEN lag + 1 ELSE lag
    /\ UNCHANGED <<thread, stop, ack, posted, loop, process>>

Tick == TimePasses(Sleeping) /\ timer' = IF Sleeping /\ timer > 0 THEN timer - 1 ELSE timer

LoopStep == LoopAnswers \/ SetAcknowledgement \/ JoinReturns
Next == ThreadStep \/ LoopStep \/ LoopReturns \/ LoopBlocks \/ Stop \/ Close \/ Tick

Spec == Init /\ [][Next]_vars

\* Both threads run and time passes; the loop may stay busy for ever, and the service need
\* never stop.
FairSpec == Spec /\ WF_vars(ThreadStep) /\ WF_vars(LoopStep) /\ WF_vars(Tick)
-----------------------------------------------------------------------------
(* Properties. *)

\* Type invariant.
TypeOK ==
    /\ thread \in {"waiting", "posting", "awaiting", "deciding", "aborting", "gone"}
    /\ timer \in Nat /\ join \in 0..Period + Timeout + 1
    /\ stop \in BOOLEAN /\ posted \in BOOLEAN
    /\ ack \in {"none", "clear", "set"}
    /\ loop \in {"free", "busy", "acking", "joining", "closed"}
    /\ process \in {"alive", "dead"}
    /\ blocked \in 0..Timeout /\ longest \in 0..Timeout /\ lag \in 0..MaxLag
    /\ slept \in 0..Deadline + 1

\* A process whose loop always gets back to its callbacks within Timeout is never aborted
\* (service.py:150-153) - not by a probe posted while stop() blocks the loop, nor by one
\* that finds the loop closed, whatever the order of the two threads' steps.
NoFalseAbort == thread = "aborting" => longest >= Timeout

\* join()'s timeout, service.py:132, is long enough: when stop() returns, the thread has
\* left or is already aborting, unless it was held up for longer than Period meanwhile.
StopJoins == stop /\ loop \notin {"acking", "joining"} =>
    thread \in {"gone", "aborting"} \/ lag > Period

\* A loop that hangs is killed in time: after the rest of a period, a timeout and the delay
\* of _abort at most, not counting what the thread is held up - also when it hangs between
\* a probe's answer and the thread's next look at it.
KilledInTime == process = "alive" /\ loop = "busy" /\ ~stop => slept <= Deadline

\* A loop that never returns is noticed, and the process killed: "Terminate this process
\* when its main asyncio loop stops responding" (the help of --self-watchdog).
StuckIsKilled == <>[](loop = "busy" /\ ~stop) => <>(process = "dead")
=============================================================================
