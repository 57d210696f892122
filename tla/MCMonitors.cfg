SPECIFICATION MCSpec
CONSTANTS
    t1 = t1
    t2 = t2
    t3 = t3
    o1 = o1
    o2 = o2
    m1 = m1
    m2 = m2
    NIL = NIL
    Thread <- ThreeThreads
    Object <- TwoObjects
    Monitor <- TwoMonitors
    HashCode <- TwoHashes
    MainThread = t1
    javaThread <- JoinableThread
    MaxDepth = 2
    MaxDelta = 2
    MaxLate = 1
    ShortMax = 7
    Interruptible <- ThreeThreads
    RepeatInterrupt = FALSE
INVARIANTS
    MonitorsUnshared
    ExtendedLocksUnshared
    NoIdleWaiters
    InOnePlace
    NoFatalError
    InterruptedComesBack
PROPERTIES
    HashKept
    ImplementsJavaMonitors
CHECK_DEADLOCK FALSE
