SPECIFICATION Spec
CONSTANTS
    Classes <- MCClasses
    Interfaces <- MCInterfaces
    SuperClass <- MCSuperClass
    Implements <- MCImplements
    Objects <- MCObjects
    Inputs <- TryBlocks
INVARIANTS
    HandlersKeepReferences
CHECK_DEADLOCK FALSE
