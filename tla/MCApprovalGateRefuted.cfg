SPECIFICATION Spec
CONSTANTS
    Calls = {c1, c2}
    Answers = {a1}
    Codes = {k1, k2}
    None = None
    ReceiptLimit = 3
INVARIANT ExistsAfterInsertion
INVARIANT ProceedingIsTrue
INVARIANT CodeNamesRequest
INVARIANT PendingIsAwaited
CHECK_DEADLOCK FALSE
