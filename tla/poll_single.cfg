SPECIFICATION PollFairSpec
CONSTANTS
    Ops = {o1, o2}
    Links <- MotrLinkKinds
    FirstLinks <- MCFirstLinks
    PpTable <- MotrPpTable
    MaxLinks = 4
    Never = Never
    Threads = {t1}
    MaxPollOps = 1
    Timeouts = {Never}
    MaxTicks = 0
    WaitErrors = FALSE
    Cbs = {TRUE, FALSE}
INVARIANTS
    PollTruthful
PROPERTIES
    PollReturns
    PollImplementsAsyncOp
