SPECIFICATION Spec
CONSTANTS
    h1 = h1
    h2 = h2
    None = None
    Handlers <- MCHandlers
    beaconAttempts = 2
    maxAttempts = 1
INVARIANTS
    TypeOK
    BornBeforeGenerate
PROPERTIES
    BeaconRunsOnce
SYMMETRY HandlerSymmetry
CHECK_DEADLOCK FALSE
