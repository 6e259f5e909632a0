SPECIFICATION Spec
CONSTANTS
    Ops = {o1, o2}
    Links <- MotrLinkKinds
    FirstLinks <- MCFirstLinks
    PpTable <- MotrPpTable
    MaxLinks = 4
INVARIANTS
    ErrorReported
