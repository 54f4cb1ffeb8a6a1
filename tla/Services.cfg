SPECIFICATION ServicesSpec
CONSTANTS
    Portfolios = {p1, p2}
    Calls = {c1, c2, c3}
    NoCall = NoCall
    N = 2
    Manual = {m}
    Requests = {q1, q2}
    Job = Job
    NoOne = NoOne
    Payoff = Payoff
    Starts = {s1, s2}
    Verifies = {v1, v2}
    None = None
    p1 = p1
    s1 = s1
    s2 = s2
    v1 = v1
    v2 = v2
INVARIANTS
    ServicesTypeOK
    SettledOnce
    PaidOffOnce
    NoChildLeft
PROPERTIES
    ImplementsLock
    EveryCallRuns
    NothingBookedAfterPayoff
    DueIsSettled
    CallsAnswered
CHECK_DEADLOCK FALSE
