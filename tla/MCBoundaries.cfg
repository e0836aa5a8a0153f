SPECIFICATION BoundarySpec
CHECK_DEADLOCK FALSE
CONSTANTS
    a1 = a1
    a2 = a2
    c3 = c3
    c4 = c4
    Readable <- McReadable
    AppleRoots <- McAppleRoots
    BundledFiles <- McBundledFiles
    Inputs <- McInputs
    AbiInputs <- McAbiInputs
    AbiCore <- McAbiCore
    Instants = {1, 2}
    Environments = {0, 2}
    MaxStrings = 3
    Caller = {t1, t2}
    Instance = {i1, i2}
    Nobody = Nobody
    GoLengths = {1, 2, 3, 4}
    Clock = {1}
    MAX_REQUEST_BYTES = 2
    MAX_RECEIPT_BYTES = 2
    MAX_JWS_BYTES = 1
    Cert = {Apple, Mine, NoCert}
    Apple = Apple
    NoCert = NoCert
    Caps = {2, 4}
    PhpLengths = {1, 2, 3, 4, 5, 6}
    MaxInput = 10
    MaxFrame = 4
    BodyTexts <- McBodyTexts
    Bodies = {0, 1, 2, 3, 4, 5, 6, 7, 8, 9, 10, 11, 12, 13, 14, 15, 16, 17, 18, 19, 20}
    BODY_DRAIN = 14
    MAX_DRAIN = 4
    Stated = {0, 1, 2, 3, 4, 5}
    StdinLengths = {0, 1, 2, 3, 4, 5, 6}
    Jobs = {t1, t2}
    Components = {"c1", "c2"}
    Targets = {"t1", "t2"}
    Versions = {"v1", "v2"}
    Features = {"f1", "f2"}
    MaxBuilds = 1
    Installers = {"a1", "a2", "b1"}
    JvmOf <- McJvmOf
    MaxFaults = 2
    MaxChanges = 1
    MaxTries = 2
 
INVARIANT HandedOverOnce
INVARIANT AnswerIsForTheWholeInput
INVARIANT NeverOutOfOrder
INVARIANT JudgedAsAsked
INVARIANT KeptConnectionIsInStep
INVARIANT StatusTellsWhatStdoutHolds
INVARIANT ReportedIsRunning
INVARIANT OnlyPinnedIsExecutable
