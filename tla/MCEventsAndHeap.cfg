SPECIFICATION MCFairSpec
CONSTANTS
    t1 = t1
    t2 = t2
    t3 = t3
    key = key
    pen = pen
    NIL = NIL
    Thread <- ThreeThreads
    Reader <- OnlyT1
    Event <- KeyAndPen
    ArgCount <- Arguments
    MAXPARMLENGTH = 3
    MaxDelta = 2
    MaxLate = 1
    MAX_GC_DEPTH = 1
    DEFERRED_OBJECT_TABLE_SIZE = 1
    PermanentUnit = 3
    Heaps <- AllHeaps
INVARIANTS
    BufferInBounds
    MarkedIsReachable
    WeakReferencesCleared
    ObjectsIntact
PROPERTIES
    ImplementsEventStream
    ThreadsNotHeldUp
    ReaderIsAnswered
    GarbageCollectionEnds
CHECK_DEADLOCK FALSE
