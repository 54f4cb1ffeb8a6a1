CONSTANTS
    Instruments = {i1}
    Starts = {1}
    Planners = {p1, p2}
    RetryLimit = 1
    MaxClaims = 2
    MaxFaults = 0
SPECIFICATION Spec
INVARIANTS
    WindowWasRun
CHECK_DEADLOCK FALSE
