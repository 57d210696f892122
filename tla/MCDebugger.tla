----------------------------- MODULE MCDebugger -----------------------------
(***************************************************************************)
(* The scheduler's parts beside KvmThreads, for TLC: the debugger agent    *)
(* with two threads, two spots and the requests of a debugger, and the     *)
(* lists thread.c keeps of its threads, which are the circular queues on   *)
(* nextThread and the timer queue on nextAlarmThread.  A behaviour is of   *)
(* one kind.                                                               *)
(***************************************************************************)
EXTENDS Debugger, ThreadLists

CONSTANTS t1, t2, t3, t4, a, b, q1, q2, c1, c2

VARIABLE kind

FourThreads == {t1, t2, t3, t4}
ThreeThreads == {t1, t2, t3}
TwoQueues == {q1, q2}
TwoCalls == {c1, c2}

TwoThreads == {t1, t2}
TwoSpots == {a, b}

Mod(modifier) ==
    [kind |-> modifier, spot |-> NIL, thread |-> NIL, caught |-> FALSE, uncaught |-> FALSE]

Ask(event, policy, count, mods) ==
    [kind |-> event, policy |-> policy, count |-> count, mods |-> mods]

At(spot) == <<[Mod("LocationOnly") EXCEPT !.spot = spot]>>
Thrown(c, u) == <<[Mod("ExceptionOnly") EXCEPT !.caught = c, !.uncaught = u]>>

AllRequests ==
    {Ask("BREAKPOINT", "ALL", 0, At(a)), Ask("BREAKPOINT", "EVENT_THREAD", 0, At(b)),
     Ask("STEP", "EVENT_THREAD", 1, <<[Mod("Step") EXCEPT !.thread = t1]>>),
     Ask("START", "ALL", 0, << >>), Ask("END", "EVENT_THREAD", 0, << >>),
     Ask("PREPARE", "EVENT_THREAD", 2, << >>),
     Ask("EXCEPTION", "ALL", 0, Thrown(TRUE, FALSE)),
     Ask("EXCEPTION", "ALL", 0, Thrown(FALSE, TRUE)),
     Ask("EXCEPTION", "NONE", 1, Thrown(TRUE, TRUE))}

----------------------------------------------------------------------------
allVars == <<vars, queueVars, timerVars, kind>>

MCInit == Init /\ Queues!Init /\ Timers!Init /\ kind \in {"debugger", "queues", "timers"}

MCNext ==
    /\ \/ kind = "debugger" /\ Next /\ UNCHANGED <<queueVars, timerVars>>
       \/ kind = "queues" /\ Queues!Next /\ UNCHANGED <<vars, timerVars>>
       \/ kind = "timers" /\ Timers!Next /\ UNCHANGED <<vars, queueVars>>
    /\ UNCHANGED kind

MCSpec == MCInit /\ [][MCNext]_allVars
=============================================================================
