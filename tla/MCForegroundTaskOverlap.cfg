SPECIFICATION Spec
CONSTANTS
    Calls = {c1, c2}
    Requests = {r1}
    NoTask = NoTask
    MaxSteps = 1
    MaxRetries = 0
SYMMETRY Symmetry
INVARIANT OverlappingStartsControllable
CHECK_DEADLOCK FALSE
