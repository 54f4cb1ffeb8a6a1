CONSTANTS
    Runs = {r1, r2}
    MaxPairings = 2
    MaxRetries = 1
    MaxLapses = 0
    MaxCrashes = 0
SPECIFICATION Spec
INVARIANTS
    SessionOfAccount
CHECK_DEADLOCK FALSE
