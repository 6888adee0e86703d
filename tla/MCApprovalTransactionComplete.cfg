SPECIFICATION Spec
CONSTANTS
    b1 = b1
    b2 = b2
    Bodies = {b1, b2}
    Nothing = Nothing
    MaxTx = 1
    MaxAudits = 1
    MaxSnapshots = 0
    MaxCrashes = 2
INVARIANT RollbackIsComplete
CHECK_DEADLOCK FALSE
