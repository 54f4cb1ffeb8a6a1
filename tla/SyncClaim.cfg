CONSTANTS
    Runs = {r1, r2}
    MaxPairings = 1
    MaxRetries = 1
    MaxLapses = 1
    MaxCrashes = 1
SPECIFICATION FairSpec
INVARIANTS
    NoOverlap
PROPERTIES
    ClaimEnds
CHECK_DEADLOCK FALSE
