SPECIFICATION WatchSpec
CONSTANTS
    Plain = {"a"}
    MaxPattern = 3
    Inside = {"[", "]", "!", "a"}
    MaxInside = 8
    MaxPath = 2
INVARIANTS RunInMatches
CHECK_DEADLOCK FALSE
