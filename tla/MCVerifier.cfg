SPECIFICATION Spec
CONSTANTS
    Classes <- MCClasses
    Interfaces <- MCInterfaces
    SuperClass <- MCSuperClass
    Implements <- MCImplements
    Objects <- MCObjects
    Inputs <- MCInputs
INVARIANTS
    NeverGoesWrong
    FramesDescribe
    CollectorSeesReferences
PROPERTIES
    MapsAccepted
CHECK_DEADLOCK FALSE
