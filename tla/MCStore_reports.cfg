SPECIFICATION Spec
CONSTANTS
    Senders <- Threads
    Cap = 1
    BacklogCap = 3
    ReportSize = 2
    HeldCap = 1
    Oversized = {}
    Wrap = 2
    MayPanic <- Both
    MaxEvents = 1
    MaxCount = 1
    MaxLost = 2
    MaxPeriodic = 1
    MaxFails = 0
    MaxEvicted = 1
INVARIANT ReportsRight
CHECK_DEADLOCK FALSE
