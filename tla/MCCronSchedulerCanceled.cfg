SPECIFICATION Spec
CONSTANTS
    Users = {u1, u2}
    Execs = {x1}
    Boot = Boot
    Ids = {i1, i2}
    ShardOf <- OwnShard
    NoJob = NoJob
    NoId = NoId
    NoProc = NoProc
    MaxRetries = 1
    MaxTime = 1
    MaxCrashes = 0
SYMMETRY Symmetry
INVARIANT CanceledJobStaysGone
CHECK_DEADLOCK FALSE
