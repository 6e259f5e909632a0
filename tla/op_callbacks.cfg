SPECIFICATION FairSpec
CONSTANTS
    Ops = {o1, o2}
    Links <- MotrLinkKinds
    FirstLinks <- MCFirstLinks
    PpTable <- MotrPpTable
    MaxLinks = 4
INVARIANTS
    OpInv
    PostProcOnce
    ReportOnce
    ReportTruthful
PROPERTIES
    EventuallyReported
    ImplementsAsyncOp
