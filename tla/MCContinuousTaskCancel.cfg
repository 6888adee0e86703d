SPECIFICATION Spec
CONSTANTS
    Plans <- SmallPlans
    MaxRetries = 1
    StopOnRepeat = TRUE
    TotalBudget = TRUE
    Outputs = {o1, o2}
    NoOutput = NoOutput
    MaxControls = 1
PROPERTY CancelSticks
CHECK_DEADLOCK FALSE
