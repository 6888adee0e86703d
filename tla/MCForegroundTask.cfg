SPECIFICATION Spec
CONSTANTS
    Calls = {c1, c2}
    Requests = {r1, r2}
    NoTask = NoTask
    MaxSteps = 2
    MaxRetries = 1
SYMMETRY Symmetry
INVARIANT TypeOK
INVARIANT ActiveJobControllable
INVARIANT PauseStopsAtNextCheckpoint
CHECK_DEADLOCK FALSE
