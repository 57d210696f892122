------------------------------ MODULE AlarmClock ------------------------------
(***************************************************************************)
(* What the timer queue of thread.c promises: every thread has one alarm   *)
(* at most, a check rings all those that are due, earliest first, and says *)
(* how long it is until the next one.  KvmThreads takes alarms this way,   *)
(* with times that count from the present.                                 *)
(***************************************************************************)
EXTENDS Integers, Sequences

CONSTANTS Thread, WakeupCall, NIL, MaxDelta, MaxTime

VARIABLES
    alarm,            \* alarm[t]: when t's alarm rings and whom it calls, or NIL
    now,
    rung,             \* the calls a check makes, in order
    nextTimerDelta    \* its answer, 0 for no alarm

vars == <<alarm, now, rung, nextTimerDelta>>

Set == {t \in Thread : alarm[t] # NIL}
DueSet == {t \in Set : alarm[t].time <= now}

Init ==
    /\ alarm = [t \in Thread |-> NIL]
    /\ now = 0
    /\ rung = << >>
    /\ nextTimerDelta = 0

Silent == rung' = << >> /\ nextTimerDelta' = 0

Register(t, delta, call) ==
    /\ alarm' = IF t \in Set THEN alarm
                ELSE [alarm EXCEPT ![t] = [time |-> now + delta, call |-> call]]
    /\ UNCHANGED now /\ Silent

Remove(t) ==
    /\ alarm' = [alarm EXCEPT ![t] = NIL]
    /\ UNCHANGED now /\ Silent

Check ==
    LET left == Set \ DueSet IN
    /\ alarm' = [t \in Thread |-> IF t \in DueSet THEN NIL ELSE alarm[t]]
    /\ \E order \in [1..Len(rung') -> DueSet] :
         /\ \A t \in DueSet : \E i \in DOMAIN order : order[i] = t
         /\ \A i, j \in DOMAIN order : i < j =>
              /\ order[i] # order[j]
              /\ alarm[order[i]].time <= alarm[order[j]].time
         /\ rung' = [i \in DOMAIN order |-> <<order[i], alarm[order[i]].call>>]
    /\ IF left = {} THEN nextTimerDelta' = 0
       ELSE \E t \in left : /\ nextTimerDelta' = alarm[t].time - now
                            /\ \A u \in left : alarm[t].time <= alarm[u].time
    /\ UNCHANGED now

Tick == now < MaxTime /\ now' = now + 1 /\ UNCHANGED alarm /\ Silent

Next ==
    \/ \E t \in Thread :
         \/ \E delta \in 0..MaxDelta, call \in WakeupCall : Register(t, delta, call)
         \/ Remove(t)
    \/ Check
    \/ Tick

Spec == Init /\ [][Next]_vars
=============================================================================
