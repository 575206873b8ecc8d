SPECIFICATION Spec
CONSTANTS
    r1 = r1
    r2 = r2
    r3 = r3
    r4 = r4
    c1 = c1
    c2 = c2
    None = None
    Requests <- MCRequests
    Conversations <- MCConversations
    sessionTTL = 4
    MaxLag = 1
    MaxTime = 7
INVARIANTS
    TypeOK
    StableSession
PROPERTIES
    IdleSessionExpires
SYMMETRY SessionSymmetry
CHECK_DEADLOCK FALSE
