SPECIFICATION FairSpec
CONSTANTS
    Calls = {c1}
    Requests = {r1, r2}
    NoTask = NoTask
    MaxSteps = 1
    MaxRetries = 0
PROPERTY ResumedJobContinues
CHECK_DEADLOCK FALSE
