SPECIFICATION Spec
CONSTANTS
    a = a
    b = b
    c = c
    d = d
    k1 = k1
    k2 = k2
    k3 = k3
    i1 = i1
    i2 = i2
    i3 = i3
    Nobody = Nobody
    Client <- MCClient
    Task <- MCTask
    Instance <- MCInstance
    MAX_CONNECTIONS = 3
    UPLOADS = 2
    WORKERS = 2
SYMMETRY Symmetry
INVARIANTS OneInstancePerWorker AnswersMatch
