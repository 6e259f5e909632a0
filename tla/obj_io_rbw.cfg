SPECIFICATION FairSpec
CONSTANTS
    OpA = OpA
    OpB = OpB
    Ops = {OpA, OpB}
    Vectors <- MCVectors
    Sizes = {7}
    PageSize = 3
    MaxSizePerOp = 3
    MayFail = FALSE
    PagesApart = TRUE
    ExtendAlone = TRUE
    RbwOneOp = FALSE
CHECK_DEADLOCK FALSE
PROPERTIES
    OnlyOwnBytes
