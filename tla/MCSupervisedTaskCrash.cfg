SPECIFICATION FairSpec
CONSTANTS
    Runs = {e1}
    First = e1
    Requests = {r1}
    Watchers = {v1}
    MaxProbes = 1
    MaxCrashes = 1
PROPERTY InterruptedTaskRecovers
CHECK_DEADLOCK FALSE
