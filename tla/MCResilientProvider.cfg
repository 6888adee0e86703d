SPECIFICATION FairSpec
CONSTANTS
    Requests = {r1, r2, r3}
    FailureThreshold = 3
    ResetTimeout = 2
    MaxDrops = 1
    Never = Never
INVARIANT TypeOK
INVARIANT OpenCircuitCanReset
PROPERTY OpensOnStreak
PROPERTY CoolDown
PROPERTY CircuitRecovers
