SPECIFICATION Spec
CONSTANTS
    t1 = t1
    t2 = t2
    t3 = t3
    c1 = c1
    c2 = c2
    c3 = c3
    Closer = Closer
    Null = Null
    Caller <- MCCaller3
    Conn <- MCConn
    maxIdle = 3
    ATTEMPTS = 3
    MAX_STARTS_PER_MINUTE = 1
    MAX_GENERATION = 1
SYMMETRY Symmetry
INVARIANTS ClosedConnectionReplaced
