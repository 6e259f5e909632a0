SPECIFICATION PollFairSpec
CONSTANTS
    Ops = {o1, o2}
    Links <- MotrLinkKinds
    FirstLinks <- MCCompLinks
    PpTable <- MotrPpTable
    MaxLinks = 2
    Never = Never
    Threads = {t1}
    MaxPollOps = 2
    Timeouts = {Never}
    MaxTicks = 0
    WaitErrors = FALSE
    Cbs = {FALSE}
PROPERTIES
    PollReturns
