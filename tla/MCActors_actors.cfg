SPECIFICATION Spec
CONSTANTS
    idle = idle
    first = first
    second = second
    Procs = {idle, first, second}
    PidOf <- MCPidOf
    Parent <- MCParent
    IdleProc = idle
    MayRun = {first}
    Ends = {"e"}
    Retention = 1
    ProcessCap = 2
    FlowCap = 1
    UdpIdle = 1
    Hold = 1
    JoinWindow = 1
    SweepEvery = 1
    Doing = {"call", "send", "connect"}
    MayBeLost = {"classic", "start"}
    MayBeLate = {"classic"}
    PidRest = 1
    MaxClock = 4
    MaxActivities = 2
INVARIANTS TablesOK BlamedRight OneLaunch
