SPECIFICATION FairSpec
CONSTANTS
    OpA = OpA
    OpB = OpB
    Ops = {OpA, OpB}
    Vectors <- MCVectors
    Sizes = {0, 4, 7}
    PageSize = 3
    MaxSizePerOp = 6
    MayFail = TRUE
    PagesApart = TRUE
    ExtendAlone = TRUE
    RbwOneOp = TRUE
CHECK_DEADLOCK FALSE
INVARIANTS
    BatchesLegal
    WithinRoom
    SizeStored
PROPERTIES
    OnlyOwnBytes
    WriteLands
    ReadDelivers
    CallsEnd
