SPECIFICATION Spec
CONSTANTS
    Plans <- SmallPlans
    MaxRetries = 1
    StopOnRepeat = TRUE
    TotalBudget = TRUE
    Outputs = {o1, o2}
    NoOutput = NoOutput
    MaxControls = 1
INVARIANT CompletedArtifactIsWhole
CHECK_DEADLOCK FALSE
