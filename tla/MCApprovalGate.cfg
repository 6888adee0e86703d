SPECIFICATION FairSpec
CONSTANTS
    Calls = {c1, c2}
    Answers = {a1, a2}
    Codes = {k1, k2}
    None = None
    ReceiptLimit = 3
INVARIANT TypeOK
INVARIANT OnlyApprovedProceeds
INVARIANT OneVerdict
INVARIANT DenialIsTrue
INVARIANT NothingLeftBehind
PROPERTY EveryCallReturns
CHECK_DEADLOCK FALSE
