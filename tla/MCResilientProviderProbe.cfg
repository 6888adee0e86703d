SPECIFICATION Spec
CONSTANTS
    Requests = {r1, r2, r3}
    FailureThreshold = 3
    ResetTimeout = 2
    MaxDrops = 1
    Never = Never
INVARIANT HalfOpenTriesOne
