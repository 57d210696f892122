SPECIFICATION MCSpec
CONSTANTS
    t1 = t1
    t2 = t2
    t3 = t3
    t4 = t4
    a = a
    b = b
    q1 = q1
    q2 = q2
    c1 = c1
    c2 = c2
    NIL = NIL
    NULL = NIL
    Thread <- FourThreads
    Sleeper <- ThreeThreads
    Queue <- TwoQueues
    WakeupCall <- TwoCalls
    Threads <- TwoThreads
    MainThread = t1
    Spots <- TwoSpots
    Entry = a
    Requests <- AllRequests
    MaxRequests = 2
    MaxCommands = 2
    MaxCount = 1
    SuspendAtStart = {TRUE, FALSE}
    Unchecked = {}
    MaxDelta = 2
    MaxTime = 3
INVARIANTS
    SuspendedStandStill
    BreakpointsHit
    CodeRestored
PROPERTIES
    ImplementsThreadQueues
    ImplementsAlarmClock
CHECK_DEADLOCK FALSE
