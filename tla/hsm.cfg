SPECIFICATION HsmSpec
CONSTANTS
    HintRoom = 4
    PoolConfs <- MCPoolConfs
    NrObjs = 2
    MaxBlocks = 2
    MaxHot = 4
    Thlds = {1, 3}
    Junk = {0, 3}
    MaxCmds = 4
    BlocksPerOp = 2
INVARIANTS
    MoveKeepsData
    MoveArrives
    PoolsOrdered
