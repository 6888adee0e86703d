SPECIFICATION FairSpec
CONSTANTS
    b1 = b1
    b2 = b2
    Bodies = {b1, b2}
    Nothing = Nothing
    MaxTx = 1
    MaxAudits = 1
    MaxSnapshots = 1
    MaxCrashes = 1
INVARIANT TypeOK
INVARIANT TrustedHasEvidence
PROPERTY TrustedUntilEdited
PROPERTY PreparedIsSettled
CHECK_DEADLOCK FALSE
