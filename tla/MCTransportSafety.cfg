SPECIFICATION Spec
CONSTANTS
    r1 = r1
    r2 = r2
    r3 = r3
    c1 = c1
    c2 = c2
    c3 = c3
    c4 = c4
    None = None
    Requests <- MCThreeRequests
    Conns <- MCTwoConns
INVARIANTS
    TypeOK
    ExclusiveUse
    PoolIsIdleSet
    HeldIsOpen
    AnswerIsMine
SYMMETRY RequestSymmetry
CHECK_DEADLOCK FALSE
