SPECIFICATION Spec
CONSTANTS
    Threads = {t1, t2}
    FileObjects = {f1, f2}
    FileKeys = {1}
    SilentOps = 4
    SeedOnMiss = TRUE
    Window = 2
    OutcomeWindow = 2
    CleanedKeep = 6
    MaxOps = 5
    t1 = t1
    t2 = t2
    f1 = f1
    f2 = f2
INVARIANTS FilesOK DeletesOK UpdatesRight
SYMMETRY Symmetry
CHECK_DEADLOCK FALSE
