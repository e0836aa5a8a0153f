SPECIFICATION Spec
CONSTANTS
    Nobody = Nobody
    Caller = {t1, t2, t3}
    Instance = {i1, i2, i3, i4}
    MAX_IDLE = 2
INVARIANT IdleWithinCap
