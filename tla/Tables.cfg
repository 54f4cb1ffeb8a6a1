SPECIFICATION TablesSpec
CONSTANTS
    LastDay = 4
    Carry = 1
    Threshold = 2
    Lookback = 4
    RetryLimit = 1
    MaxSweeps = 2
    MaxEdits = 1
    MaxFaults = 2
    ByRequest = {w}
    ByWorker = {j}
    Reads = {a1, a2}
    TTL = 2
    Horizon = 3
    Nobody = Nobody
    Staged = {d1, d2}
    Reports = {e1, e2}
    Tasks = {k1, k2, k3}
    Failures = 1
    NoDoc = NoDoc
    Imports = {csv, pdf}
    Trades = {t1, t2}
    Portfolios = {p1}
    Requests = {r1, r2, r3}
    Drafts <- MCDrafts
    Documented = {pdf}
    NoImport = NoImport
    NoRequest = NoRequest
    csv = csv
    pdf = pdf
    t1 = t1
    t2 = t2
    r1 = r1
    r2 = r2
    r3 = r3
    HistoryDays = 2
    MaxEvents = 4
    MaxShares = 2
    Fee = 1
INVARIANTS
    TablesTypeOK
    SnapshotsAgree
    NoHoleAfterSweep
    ValuationsAreFresh
    RowsMatchObjects
    EveryDraftOnce
    BooksAgree
    AsOfAgrees
CHECK_DEADLOCK FALSE
