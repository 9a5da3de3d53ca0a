SPECIFICATION MCSensorSpec
CONSTANTS
    Procs = {p, q}
    Tries = 3
    MaxEvents = 1
    MaxCrashes = 1
    MaxOutside = 2
    Cuts = {0, 1, 2, 3, 6, 12}
    Pids = {1, 2}
    Rate = 2
    Frequency = 2
    BucketCap = 1
    Idle = 3
    Jitter = 1
    MaxTicks = 5
    MaxQueries = 6
    Callers = {c, d, e}
    MaxFailures = 1
    MaxCuts = 1
    Plain = {"a"}
    MaxPattern = 5
    Inside = {"[", "]", "!", "a"}
    MaxInside = 8
    MaxPath = 2
    Addresses = {h, x, y}
    Before = {h}
    KeyCaps = {1, 2, 3}
    MaxOps = 6
    MaxPasses = 1
SYMMETRY RunSymmetry
INVARIANTS
    SessionsOwned
    NothingLeft
    NoEventLost
    ParsedRight
    RateKept
    DeviceKept
    PreCheckSound
    LevelsRight
CHECK_DEADLOCK FALSE
