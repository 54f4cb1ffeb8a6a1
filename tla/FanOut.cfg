CONSTANTS
    Instruments = {i1, i2}
    Starts = {1}
    Planners = {p1, p2}
    RetryLimit = 1
    MaxClaims = 2
    MaxFaults = 1
    First = p1
    Shared = {i1}
SPECIFICATION MCSpec
INVARIANTS
    SnapshotsFollowFetch
    FailedIsFinal
    OwnershipKept
PROPERTIES
    LiveRowsStay
    PlannerEnds
CHECK_DEADLOCK FALSE
