SPECIFICATION Spec
CONSTANTS
    MaxPools = 3
    YAML_MAX_VAL_LEN = 128
    MIO_POOL_MAX_NAME_LEN = 32
    Files <- MCFiles
    AppFile <- MCAppFile
    MaxInits = 2
    BlocksPerOp = 2
    NrThreads = 2
    NrObjs = 2
    BlockCount = 3
    RwlThreads = 2
    RwlBlocks = 3
    AioBlocks = 3
    AioSteps = {0, 1, 2, 3}
CHECK_DEADLOCK FALSE
INVARIANTS
    ConfAsDeclared
    NothingLeftRunning
    HandedOverOnce
    ReportTrue
    ReadersMatch
    AsyncSafe
    AsyncComplete
PROPERTIES
    AppEnds
