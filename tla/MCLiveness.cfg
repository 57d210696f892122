SPECIFICATION FairSpec
CONSTANTS
    t1 = t1
    t2 = t2
    t3 = t3
    o1 = o1
    o2 = o2
    m1 = m1
    m2 = m2
    NIL = NIL
    Thread <- ThreeThreads
    Object <- OneObject
    Monitor <- OneMonitor
    HashCode <- NoHash
    MainThread = t1
    javaThread <- NoThreadObject
    MaxDepth = 2
    MaxDelta = 1
    MaxLate = 0
    ShortMax = 7
    Interruptible <- OnlyT2
    RepeatInterrupt = FALSE
PROPERTIES
    RunnableRuns
    EntryIsFair
    TimeoutEnds
CHECK_DEADLOCK FALSE
