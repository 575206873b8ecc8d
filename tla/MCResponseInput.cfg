SPECIFICATION Spec
CONSTANTS
    a = a
    b = b
    None = None
    Ids <- MCIds
    Classes <- MCClasses
    Reasons <- MCReasons
    MaxEvents = 4
    ArgsAreStreamed = FALSE
INVARIANTS
    ModesAgree
CHECK_DEADLOCK FALSE
