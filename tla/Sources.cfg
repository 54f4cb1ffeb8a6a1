\* One event and two syncs at Interactive Brokers.  Two market-data providers,
\* the first with a daily cap, over a midnight.
CONSTANTS
    FlexEvents = {x1}
    Syncs = {s1, s2}
    NProviders = 2
    Probed = {1}
    QuoteWorkers = {w1, w2}
    Outside = Outside
    Quotes = 3
    Budget = 1
    Cooldown = 2
    DayLength = 2
    LastTick = 2
SPECIFICATION SourcesSpec
SYMMETRY SourceSymmetry
INVARIANTS
    SourcesTypeOK
    DecisionsStand
    HeldOnce
    CooldownKept
    FailuresBounded
