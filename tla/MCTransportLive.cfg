SPECIFICATION FairSpec
CONSTANTS
    r1 = r1
    r2 = r2
    r3 = r3
    c1 = c1
    c2 = c2
    c3 = c3
    c4 = c4
    None = None
    Requests <- MCTwoRequests
    Conns <- MCFourConns
INVARIANTS
    RepeatOnlyOverPool
    WaitHasDeadline
PROPERTIES
    Implements
    Termination
CHECK_DEADLOCK FALSE
