SPECIFICATION FairSpec
CONSTANTS
    Senders <- Threads
    Cap = 1
    BacklogCap = 2
    ReportSize = 2
    HeldCap = 2
    Oversized <- Second
    Wrap = 2
    MayPanic <- Both
    MaxEvents = 3
    MaxCount = 0
    MaxLost = 0
    MaxPeriodic = 0
    MaxFails = 1
    MaxEvicted = 0
INVARIANTS SinkOK EveryEventAccounted LogRight
PROPERTIES StopEnds ReportsCome
CHECK_DEADLOCK FALSE
