SPECIFICATION Spec
CONSTANTS
    b1 = b1
    b2 = b2
    Bodies = {b1, b2}
    Nothing = Nothing
    MaxTx = 2
    MaxAudits = 2
    MaxSnapshots = 1
    MaxCrashes = 1
INVARIANT TypeOK
INVARIANT TrustedHasEvidence
PROPERTY TrustedUntilEdited
CHECK_DEADLOCK FALSE
SYMMETRY Symmetry
