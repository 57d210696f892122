------------------------------ MODULE TimerQueue ------------------------------
(***************************************************************************)
(* The timer queue of thread.c on its pointers: a list of THREADs linked   *)
(* by nextAlarmThread and sorted by wakeupTime, the variable TimerQueue    *)
(* naming the first.  A thread's wakeupCall is NULL exactly when it is not *)
(* on the list, which is what inTimerQueue() goes by.                      *)
(***************************************************************************)
EXTENDS Integers, Sequences, FiniteSets

CONSTANTS
    Thread, WakeupCall, NIL,
    MaxDelta,     \* bound: the longest delta of registerAlarm()
    MaxTime       \* bound: the last value of the clock

VARIABLES
    TimerQueue, nextAlarmThread, wakeupTime, wakeupCall,
    now,              \* CurrentTime_md()
    rung,             \* the calls checkTimerQueue() makes, in order
    nextTimerDelta    \* what it answers

fields == <<TimerQueue, nextAlarmThread, wakeupTime, wakeupCall>>
vars   == <<fields, now, rung, nextTimerDelta>>

Init ==
    /\ TimerQueue = NIL
    /\ nextAlarmThread = [t \in Thread |-> NIL]
    /\ wakeupTime = [t \in Thread |-> 0]
    /\ wakeupCall = [t \in Thread |-> NIL]
    /\ now = 0
    /\ rung = << >>
    /\ nextTimerDelta = 0

-----------------------------------------------------------------------------
\* Walk[n] is the thread n links behind the head, or NIL behind the end.
Walk ==
    LET walk[n \in 0..Cardinality(Thread)] ==
            IF n = 0 THEN TimerQueue ELSE IF walk[n - 1] = NIL THEN NIL
                                          ELSE nextAlarmThread[walk[n - 1]]
    IN  walk

OnList == {Walk[n] : n \in DOMAIN Walk} \ {NIL}

\* How many links the loop "while (q != NULL)" follows before it stops at a
\* thread of ts, or at the end.
LinksUntil(ts) ==
    CHOOSE n \in DOMAIN Walk :
        /\ Walk[n] \in ts \cup {NIL}
        /\ \A k \in 0..(n - 1) : Walk[k] \notin ts \cup {NIL}

-----------------------------------------------------------------------------
\* Only checkTimerQueue() makes calls and answers.
Silent == rung' = << >> /\ nextTimerDelta' = 0

\* registerAlarm() leaves a thread alone that is on the list already.
Registered(t) == t \in OnList

RegisterAlarm(t, delta, call) ==
    LET time == now + delta
        n    == LinksUntil({q \in Thread : wakeupTime[q] >= time})
    IN  /\ IF Registered(t) THEN UNCHANGED fields
           ELSE /\ wakeupTime' = [wakeupTime EXCEPT ![t] = time]
                /\ wakeupCall' = [wakeupCall EXCEPT ![t] = call]
                /\ IF n = 0
                   THEN /\ TimerQueue' = t
                        /\ nextAlarmThread' = [nextAlarmThread EXCEPT ![t] = TimerQueue]
                   ELSE /\ UNCHANGED TimerQueue
                        /\ nextAlarmThread' = [nextAlarmThread EXCEPT
                                                 ![Walk[n - 1]] = t, ![t] = Walk[n]]
        /\ UNCHANGED now /\ Silent

\* Bug: an alarm for the present moment is left for later.
DueEarlier(q) == wakeupTime[q] < now
Due(q) == wakeupTime[q] <= now

\* The clock is read once; the callbacks do not touch the timer queue.
CheckTimerQueue ==
    LET n    == LinksUntil({q \in Thread : ~Due(q)})
        gone == {Walk[k] : k \in 0..(n - 1)}
    IN  /\ TimerQueue' = Walk[n]
        /\ nextAlarmThread' = [t \in Thread |-> IF t \in gone THEN NIL ELSE nextAlarmThread[t]]
        /\ wakeupCall' = [t \in Thread |-> IF t \in gone THEN NIL ELSE wakeupCall[t]]
        /\ rung' = [k \in 1..n |-> <<Walk[k - 1], wakeupCall[Walk[k - 1]]>>]
        /\ nextTimerDelta' = IF Walk[n] = NIL THEN 0 ELSE wakeupTime[Walk[n]] - now
        /\ UNCHANGED <<wakeupTime, now>>

RemovePendingAlarm(t) ==
    LET n == LinksUntil({t}) IN
    /\ IF t \notin OnList THEN UNCHANGED fields
       ELSE /\ wakeupCall' = [wakeupCall EXCEPT ![t] = NIL]
            /\ IF n = 0
               THEN /\ TimerQueue' = nextAlarmThread[t]
                    /\ nextAlarmThread' = [nextAlarmThread EXCEPT ![t] = NIL]
               ELSE /\ UNCHANGED TimerQueue
                    /\ nextAlarmThread' = [nextAlarmThread EXCEPT
                                             ![Walk[n - 1]] = nextAlarmThread[t], ![t] = NIL]
            /\ UNCHANGED wakeupTime
    /\ UNCHANGED now /\ Silent

Tick == now < MaxTime /\ now' = now + 1 /\ UNCHANGED fields /\ Silent

Next ==
    \/ \E t \in Thread :
         \/ \E delta \in 0..MaxDelta, call \in WakeupCall : RegisterAlarm(t, delta, call)
         \/ RemovePendingAlarm(t)
    \/ CheckTimerQueue
    \/ Tick

Spec == Init /\ [][Next]_vars

-----------------------------------------------------------------------------
\* The list keeps the promise of AlarmClock: no alarm is lost, none rings early
\* or twice, and the time to the next one is right.
Clock == INSTANCE AlarmClock WITH
           alarm <- [t \in Thread |->
                       IF wakeupCall[t] = NIL THEN NIL
                       ELSE [time |-> wakeupTime[t], call |-> wakeupCall[t]]]

ImplementsAlarmClock == Clock!Spec
=============================================================================
