SPECIFICATION Spec
CONSTANTS
    t1 = t1
    t2 = t2
    t3 = t3
    o1 = o1
    o2 = o2
    m1 = m1
    m2 = m2
    NIL = NIL
    Thread <- ThreeThreads
    Object <- OneObject
    Monitor <- OneMonitor
    HashCode <- NoHash
    MainThread = t1
    javaThread <- NoThreadObject
    MaxDepth = 1
    MaxDelta = 1
    MaxLate = 0
    ShortMax = 7
    Interruptible <- ThreeThreads
    RepeatInterrupt = TRUE
INVARIANTS
    WaitersAreQueued
CHECK_DEADLOCK FALSE
