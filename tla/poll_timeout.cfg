SPECIFICATION PollFairSpec
CONSTANTS
    Ops = {o1, o2}
    Links <- MotrLinkKinds
    FirstLinks <- MCSingleLinks
    PpTable <- MotrPpTable
    MaxLinks = 1
    Never = Never
    Threads = {t1}
    MaxPollOps = 2
    Timeouts = {Never, 0, 2}
    MaxTicks = 3
    WaitErrors = TRUE
    Cbs = {FALSE}
INVARIANTS
    PollAll
PROPERTIES
    PollReturns
