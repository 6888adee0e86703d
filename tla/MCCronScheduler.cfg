SPECIFICATION Spec
CONSTANTS
    Users = {u1, u2}
    Execs = {x1, x2}
    Boot = Boot
    Ids = {i1, i2, i3}
    ShardOf <- OwnShard
    NoJob = NoJob
    NoId = NoId
    NoProc = NoProc
    MaxRetries = 1
    MaxTime = 2
    MaxCrashes = 1
SYMMETRY Symmetry
INVARIANT TypeOK
INVARIANT ScheduledJobsKnown
INVARIANT DisabledJobOff
INVARIANT OneShotOnce
INVARIANT CanceledRepeatStaysGone
CHECK_DEADLOCK FALSE
