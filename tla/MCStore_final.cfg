SPECIFICATION Spec
CONSTANTS
    Senders <- Threads
    Cap = 1
    BacklogCap = 3
    ReportSize = 2
    HeldCap = 1
    Oversized = {}
    Wrap = 2
    MayPanic = {}
    MaxEvents = 2
    MaxCount = 0
    MaxLost = 0
    MaxPeriodic = 0
    MaxFails = 1
    MaxEvicted = 0
INVARIANTS FinalReportWritten
CHECK_DEADLOCK FALSE
