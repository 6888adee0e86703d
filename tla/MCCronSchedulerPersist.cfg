SPECIFICATION Spec
CONSTANTS
    Users = {u1}
    Execs = {x1}
    Boot = Boot
    Ids = {i1, i2, i3}
    ShardOf <- OwnShard
    NoJob = NoJob
    NoId = NoId
    NoProc = NoProc
    MaxRetries = 1
    MaxTime = 0
    MaxCrashes = 2
SYMMETRY Symmetry
INVARIANT PersistedJobStays
CHECK_DEADLOCK FALSE
