SPECIFICATION Spec
CONSTANTS
    Runs = {e1, e2}
    First = e1
    Requests = {r1, r2}
    Watchers = {v1}
    MaxProbes = 1
    MaxCrashes = 0
SYMMETRY Symmetry
INVARIANT CancelledOnlyOnRequest
CHECK_DEADLOCK FALSE
