CONSTANTS
    Runs = {r1, r2}
    MaxPairings = 1
    MaxRetries = 0
    MaxLapses = 0
    MaxCrashes = 0
SPECIFICATION Spec
INVARIANTS
    ClaimNotTaken
CHECK_DEADLOCK FALSE
