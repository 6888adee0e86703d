SPECIFICATION Spec
CONSTANTS
    Runs = {e1, e2, e3}
    First = e1
    Requests = {r1, r2}
    Watchers = {v1}
    MaxProbes = 1
    MaxCrashes = 0
SYMMETRY Symmetry
PROPERTY RecoveryRespectsUserPause
CHECK_DEADLOCK FALSE
