SPECIFICATION MCSpec
CONSTANTS
    Changes = {1, 2, 3}
    Backfills = {b}
    Today = 2
    RetryLimit = 1
    MaxFaults = 1
ACTION_CONSTRAINT InstanceBounds
INVARIANTS
    TypeOK
    NoChangeForgotten
PROPERTIES
    NoStaleOverwrite
    EveryChangeShown
CHECK_DEADLOCK FALSE
