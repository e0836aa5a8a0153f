SPECIFICATION Spec
CHECK_DEADLOCK FALSE
CONSTANTS
    Jobs = {j1, j2}
    Components = {c1, c2}
    Targets = {t1, t2}
    Versions = {v1, v2}
    Features = {f1, f2}
    MaxBuilds = 2
INVARIANT EmbeddedIsWhatWasChecked
