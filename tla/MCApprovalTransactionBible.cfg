SPECIFICATION Spec
CONSTANTS
    b1 = b1
    b2 = b2
    Bodies = {b1, b2}
    Nothing = Nothing
    MaxTx = 2
    MaxAudits = 2
    MaxSnapshots = 0
    MaxCrashes = 2
\* One at a time: INVARIANT BibleHoldsOnlyApproved
INVARIANT BibleHoldsApproved
CHECK_DEADLOCK FALSE
SYMMETRY Symmetry
