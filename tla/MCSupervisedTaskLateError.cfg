SPECIFICATION Spec
CONSTANTS
    Runs = {e1}
    First = e1
    Requests = {r1}
    Watchers = {v1}
    MaxProbes = 1
    MaxCrashes = 0
PROPERTY ErrorFinalizesActiveTask
CHECK_DEADLOCK FALSE
