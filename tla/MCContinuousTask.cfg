SPECIFICATION FairSpec
CONSTANTS
    Plans <- SmallPlans
    MaxRetries = 1
    StopOnRepeat = TRUE
    TotalBudget = TRUE
    Outputs = {o1, o2}
    NoOutput = NoOutput
    MaxControls = 3
INVARIANT TypeOK
INVARIANT RecordsAgree
INVARIANT CompletedIsWhole
INVARIANT StopsWithinOneStep
PROPERTY RunEnds
PROPERTY ImplementsLedger
CHECK_DEADLOCK FALSE
