SPECIFICATION FairSpec
CONSTANTS
    Users = {u1}
    Execs = {x1}
    Boot = Boot
    Ids = {i1, i2}
    ShardOf <- OwnShard
    NoJob = NoJob
    NoId = NoId
    NoProc = NoProc
    MaxRetries = 1
    MaxTime = 1
    MaxCrashes = 0
PROPERTY ScheduledJobRuns
CHECK_DEADLOCK FALSE
