SPECIFICATION CacheSpec
CONSTANTS
    ByRequest = {w}
    ByWorker = {}
    Reads = {a1, a2}
    TTL = 1
    Horizon = 0
    Nobody = Nobody
INVARIANT TradeLogsAreFresh
CHECK_DEADLOCK FALSE
