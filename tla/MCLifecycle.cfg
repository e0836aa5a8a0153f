SPECIFICATION LifecycleSpec
CHECK_DEADLOCK FALSE
CONSTANTS
    Callers = {"c1", "c2"}
    Sources <- MCSources
    MaxConns = 4
    Client = {a, b, c}
    Task = {k1, k2}
    Instance = {i1, i2}
    Places = 3
    Uploads = 1
    Workers = 1
    Nobody = Nobody
INVARIANT OneServer
PROPERTIES Released ChildFollowsParent EveryRequestEnds ShutdownEnds
