SPECIFICATION FairSpec
CONSTANTS
    Users = {u1, u2}
    Execs = {x1}
    Boot = Boot
    Ids = {i1, i2}
    ShardOf <- OwnShard
    NoJob = NoJob
    NoId = NoId
    NoProc = NoProc
    MaxRetries = 0
    MaxTime = 0
    MaxCrashes = 0
PROPERTY RemovalReturns
CHECK_DEADLOCK FALSE
