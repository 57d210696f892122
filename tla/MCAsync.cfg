SPECIFICATION FairSpec
CONSTANTS
    t1 = t1
    t2 = t2
    t3 = t3
    n1 = n1
    n2 = n2
    n3 = n3
    NIL = NIL
    Thread <- TwoThreads
    MainThread = t1
    IoThread <- TwoIoThreads
    IocbCount = 2
    MaxWorld = 2
INVARIANTS
    CollectorAlone
    IocbsUnshared
    NoFatalError
    WorldsApart
PROPERTIES
    CallsEnd
CHECK_DEADLOCK FALSE
