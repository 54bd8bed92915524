SPECIFICATION FuseSpec
CONSTANTS
    Keys = {1,2,3,4}
    Hidden = {}
    Initial = {1,2,4}
    MaxLimit = 2
    Batch = 4
    MaxCommits = 3
    MaxRewinds = 1
INVARIANT ListedOnce
CHECK_DEADLOCK FALSE
