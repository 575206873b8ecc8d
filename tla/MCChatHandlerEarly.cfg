SPECIFICATION Spec
CONSTANTS
    h1 = h1
    h2 = h2
    None = None
    Handlers <- MCHandlers
    beaconAttempts = 2
    maxAttempts = 3
INVARIANTS
    OnlyTimeoutOvertakes
CHECK_DEADLOCK FALSE
