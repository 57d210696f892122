SPECIFICATION MCSpec
CONSTANTS
    t1 = t1
    t2 = t2
    t3 = t3
    O = O
    A = A
    B = B
    C = C
    I = I
    NIL = NIL
    NULL = NIL
    JavaLangObject = O
    ClassName <- AllClasses
    Thread <- ThreeThreads
    Class <- ThreeClasses
    Programs <- AllPrograms
    ClassPaths <- FlawedPaths
    Kinds <- OnlyLoading
INVARIANTS
    NothingLeftBehind
CHECK_DEADLOCK FALSE
