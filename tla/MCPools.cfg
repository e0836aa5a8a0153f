SPECIFICATION PoolsSpec
CONSTANTS
    Nobody = Nobody
    Caller = {t1, t2, t3, t4}
    Instance = {i1, i2, i3, i4, i5}
    maxIdle = 2
SYMMETRY Symmetry
INVARIANTS CounterCatchesUp AtMostSizeInstances
PROPERTIES ImplementsPool ImplementsInstancePool ImplementsLooserPool
