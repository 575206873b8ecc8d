SPECIFICATION Spec
CONSTANTS
    a = a
    b = b
    None = None
    Ids <- MCIds
    Classes <- MCClasses
    Reasons <- MCReasons
    MaxEvents = 5
    ArgsAreStreamed = TRUE
INVARIANTS
    TypeOK
    StreamIsClosed
    RoleOnce
    CallsReassemble
    ModesAgree
    ErrorSurfaces
SYMMETRY IdSymmetry
CHECK_DEADLOCK FALSE
