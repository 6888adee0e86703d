SPECIFICATION FairSpec
CONSTANTS
    Calls = {c1, c2}
    Requests = {r1}
    NoTask = NoTask
    MaxSteps = 1
    MaxRetries = 0
PROPERTY CancelledJobEnds
CHECK_DEADLOCK FALSE
