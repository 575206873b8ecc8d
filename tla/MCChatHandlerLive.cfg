SPECIFICATION FairSpec
CONSTANTS
    h1 = h1
    h2 = h2
    None = None
    Handlers <- MCOneHandler
    beaconAttempts = 3
    maxAttempts = 3
INVARIANTS
    RetriesOnlyServerErrors
    BodiesAreClosed
    ReplyFitsAnswer
PROPERTIES
    EveryoneIsServed
CHECK_DEADLOCK FALSE
