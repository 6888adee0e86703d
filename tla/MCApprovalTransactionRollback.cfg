SPECIFICATION Spec
CONSTANTS
    b1 = b1
    Bodies = {b1}
    Nothing = Nothing
    MaxTx = 1
    MaxAudits = 1
    MaxSnapshots = 2
    MaxCrashes = 2
INVARIANT RollbackKeepsBody
CHECK_DEADLOCK FALSE
