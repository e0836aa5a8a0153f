SPECIFICATION FairSpec
CONSTANTS
    t1 = t1
    t2 = t2
    t3 = t3
    c1 = c1
    c2 = c2
    c3 = c3
    Closer = Closer
    Null = Null
    Caller <- MCCaller
    Conn <- MCConn
    maxIdle = 1
    ATTEMPTS = 2
    MAX_STARTS_PER_MINUTE = 1
    MAX_GENERATION = 2
INVARIANTS OneOwner
    NoOrphan LiveChildNotKilled
PROPERTY CloseReleases
