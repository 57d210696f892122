----------------------------- MODULE ThreadLists -----------------------------
(***************************************************************************)
(* The two kinds of lists thread.c keeps of its threads: the circular      *)
(* queues on nextThread, and the timer queue on nextAlarmThread.  They     *)
(* share no state.                                                         *)
(***************************************************************************)
EXTENDS Naturals, FiniteSets

CONSTANTS
    Thread, Queue,
    Sleeper,              \* the threads that set alarms
    WakeupCall, NULL, MaxDelta, MaxTime

\* NULL is no THREAD, no callback and no alarm.
ASSUME ListsAssumption ==
    /\ IsFiniteSet(Thread) /\ Sleeper \subseteq Thread
    /\ MaxDelta \in Nat /\ MaxTime \in Nat
    /\ NULL \notin Thread \cup WakeupCall
    /\ NULL \notin [time : Nat, call : WakeupCall]

VARIABLES
    nextThread, last, result,                                   \* queues
    TimerQueue, nextAlarmThread, wakeupTime, wakeupCall,        \* timers
    now, rung, nextTimerDelta

queueVars == <<nextThread, last, result>>
timerVars == <<TimerQueue, nextAlarmThread, wakeupTime, wakeupCall, now, rung, nextTimerDelta>>

Queues == INSTANCE CircularQueue WITH NIL <- NULL
Timers == INSTANCE TimerQueue WITH Thread <- Sleeper, NIL <- NULL

\* addThreadToQueue(), removeQueueStart() and removeFromQueue() do to the lists
\* what every other module takes them to do to sequences.
ImplementsThreadQueues == Queues!ImplementsThreadQueues

\* registerAlarm(), checkTimerQueue() and removePendingAlarm() lose no alarm, ring
\* none early or twice, and know how long it is until the next one.
ImplementsAlarmClock == Timers!ImplementsAlarmClock
=============================================================================
