SPECIFICATION Spec
CONSTANTS
    a = a
    b = b
    None = None
    Ids <- MCIds
    Classes <- MCClasses
    Reasons <- MCReasons
    MaxEvents = 3
    ArgsAreStreamed = TRUE
INVARIANTS
    NoFakeSuccess
CHECK_DEADLOCK FALSE
