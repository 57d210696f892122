SPECIFICATION Spec
CONSTANTS
    Classes <- MCClasses
    Interfaces <- MCInterfaces
    SuperClass <- MCSuperClass
    Implements <- MCImplements
    Objects <- MCObjects
    Inputs <- OnlyForeignField
INVARIANTS
    EarlyFieldsAreOwn
CHECK_DEADLOCK FALSE
