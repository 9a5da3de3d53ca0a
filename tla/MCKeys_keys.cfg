SPECIFICATION Spec
CONSTANTS
    Addresses = {1, 2}
    KeyCaps = {1, 2}
    Roots <- MCRoots
    Rel <- MCRel
    Before <- MCBefore
    SeedOnMiss = TRUE
    EarlyCap = 2
    MaxOps = 3
    MaxFlight = 2
    MaxPasses = 1
INVARIANTS NameRight DataRight
CHECK_DEADLOCK FALSE
