SPECIFICATION FairSpec
CONSTANTS
    Events <- BusyEvents
    Input <- Busy
    Irps = {1}
    QueueCap <- Caps
    PendingCap = 2
    RecentCap = 2
    Hold = 1
    Never <- Earliest
    Forever = 1000
    Window = 2
    ConfirmKeep = 3
    EnrichDeadline = 1
    ExpandDeadline = 1
    MaxClock = 1
    MaxArrivals = 4
INVARIANTS OrderKept OutcomesRight PendingOK
PROPERTIES PipelineEnds
