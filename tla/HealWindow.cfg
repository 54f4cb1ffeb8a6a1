SPECIFICATION HealSpec
CONSTANTS
    LastDay = 5
    Carry = 1
    Threshold = 2
    Lookback = 4
    RetryLimit = 0
    MaxSweeps = 1
    MaxEdits = 0
    MaxFaults = 0
INVARIANT SnapshotsFollowPrices
CHECK_DEADLOCK FALSE
