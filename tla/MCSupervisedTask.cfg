SPECIFICATION Spec
CONSTANTS
    Runs = {e1, e2}
    First = e1
    Requests = {r1}
    Watchers = {v1, v2}
    MaxProbes = 1
    MaxCrashes = 1
SYMMETRY Symmetry
INVARIANT TypeOK
INVARIANT ProviderPauseWatched
PROPERTY CancelIsFinal
PROPERTY EndIsFinal
CHECK_DEADLOCK FALSE
