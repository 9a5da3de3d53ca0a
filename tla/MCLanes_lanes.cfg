SPECIFICATION LanesSpec
CONSTANTS
    Workers = {w1, w2}
    LaneCap = 1
    HashCacheCap = 1
    MaxJobs = 2
    MaxWrites = 2
    MaxForgets = 1
    InvCap = 1
    ExpandCap = 2
    MaxChanges = 2
    MaxExpands = 3
    CpuLimit = 2
    CpuWindow = 2
    MaxCpu = 2
    MaxStuck = 1
    SeedQueue = 1
    MaxClock = 6
    MaxSeeds = 5
    MaxHandles = 2
    Sids = {a, b, c}
    AccountCap = 2
    Refresh = 3
    MissRefresh = 2
    MaxNow = 7
    MaxMounts = 3
    MaxNames = 5
    MaxRecs = 4
    RecLen <- Lens
    MaxFrame = 10
    HeaderLen = 1
    SegmentBytes = 3
    CapBytes = 12
    BacklogBytes = 10
    Policy = "DropOldest"
    MaxSeg = 3
    MaxFaults = 1
    MaxCrashes = 2
    MaxRot = 1
SYMMETRY WorkerSymmetry
INVARIANTS
    TypeOK
    LogInOrder
    NothingVanishes
    HashOK
    ExpandOK
    SeederOK
    LookupsOK
PROPERTIES
    FlushedSurvive
    SealedFinal
CHECK_DEADLOCK FALSE
