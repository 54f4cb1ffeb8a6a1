-------------------------------- MODULE Heal --------------------------------
(***************************************************************************)
(* The prices and the snapshots of one portfolio that holds one instrument *)
(* (backfillStalePortfolios, backfillPortfolioHistory,                     *)
(* writeSnapshotSeries).                                                   *)
(*                                                                         *)
(* A sweep, nightly or asked for, looks for prices that are missing and    *)
(* sends a job that fetches them from a day on and rewrites the snapshots  *)
(* from that day on; a change of the transactions sends the same job.  A   *)
(* feed that keeps missing is left alone for a while.                      *)
(*                                                                         *)
(* Days are numbers; a snapshot is the day whose price it is valued with,  *)
(* or AtCost, or Unpriced when the last price is too old to be carried.    *)
(* The jobs of a portfolio run one at a time (FifoLock); here one is sent  *)
(* when the last has ended, and a sweep before that sends nothing.  since, *)
(* calm and failed are history.                                            *)
(***************************************************************************)
EXTENDS Integers, FiniteSets, FiniteSetsExt

CONSTANTS
    LastDay,      \* bound: the days of a behaviour
    Carry,        \* MAX_PRICE_CARRY_FORWARD_DAYS
    Threshold,    \* DEAD_FEED_MISS_THRESHOLD
    Lookback,     \* MID_GAP_LOOKBACK_DAYS
    RetryLimit,   \* of the queue
    MaxSweeps,    \* bound: such sweeps of a day
    MaxEdits,     \* bound: changes of the first transaction
    MaxFaults     \* bound: outages, failed jobs, missing exchange rates

ASSUME ConstantsAssumption ==
    /\ {LastDay, Threshold} \subseteq Nat \ {0}
    /\ {Carry, Lookback, RetryLimit, MaxSweeps, MaxEdits, MaxFaults} \subseteq Nat

VARIABLES
    today,
    feed,         \* the days the provider has a candle for
    first,        \* the day of the first transaction
    prices,       \* the days with a stored price
    miss,         \* priceFeedMissCount, priceFeedLastMissAt
    snap,         \* portfolio_snapshots
    job,          \* the job under way
    swept,        \* sweeps of today, but those whose send came to nothing
    edits, faults,
    since,        \* history: where the window began that wrote a snapshot
    calm,         \* history: nothing went wrong since the last sweep of today
    failed        \* history: a job was given up, or wrote nothing

healVars == <<today, feed, first, prices, miss, snap, job, swept, edits, faults,
              since, calm, failed>>

-----------------------------------------------------------------------------
Days == 1 .. LastDay
Never    == 0                           \* no miss yet
Missing  == -1                          \* no row for this day
AtCost   == -2                          \* the holding is valued at its cost
Unpriced == -3                          \* the holding is left out of the value
Inception == 0                          \* a job without fromDate

JobState == {"none", "queued", "started", "fetched", "stored"}

NoJob == [pc |-> "none", from |-> Inception, tailOnly |-> FALSE, retryDead |-> FALSE,
          try |-> 0, start |-> 1, now |-> 1, got |-> {}]

Queued(from, tailOnly, retryDead) ==
    [NoJob EXCEPT !.pc = "queued", !.from = from, !.tailOnly = tailOnly,
                  !.retryDead = retryDead]

HealTypeOK ==
    /\ today \in Days /\ feed \subseteq Days /\ first \in Days /\ prices \subseteq Days
    /\ miss \in [count: Nat, last: Days \cup {Never}]
    /\ snap \in [Days -> Days \cup {Missing, AtCost, Unpriced}]
    /\ job \in [pc: JobState, from: Days \cup {Inception}, tailOnly: BOOLEAN,
                retryDead: BOOLEAN, try: 0 .. RetryLimit, start: Days, now: Days,
                got: SUBSET Days]
    /\ swept \in 0 .. MaxSweeps /\ edits \in 0 .. MaxEdits /\ faults \in 0 .. MaxFaults
    /\ since \in [Days -> Days] /\ calm \in BOOLEAN /\ failed \in BOOLEAN

HealInit ==
    /\ today = 1 /\ first = 1
    /\ feed \in SUBSET Days
    /\ prices = {} /\ snap = [d \in Days |-> Missing]
    /\ miss = [count |-> 0, last |-> Never]
    /\ job = NoJob
    /\ swept = 0 /\ edits = 0 /\ faults = 0
    /\ since = [d \in Days |-> 1] /\ calm = FALSE /\ failed = FALSE

-----------------------------------------------------------------------------
(* Holes of a set of days with prices.                                     *)

LaterDay(a, b) == IF a > b THEN a ELSE b

(* The days before which more than Carry days are without a price.         *)
HoleEnds(P) == {x \in P : \E p \in P : p < x /\ x - p > Carry /\ \A q \in P : ~(p < q /\ q < x)}
HoleStart(P, x) == Max({p \in P : p < x}) + 1

CoolingDown(m, day) ==
    m.count >= Threshold /\ m.last # Never /\ day - m.last < Threshold

(* priceGapRemains                                                         *)
GapRemains(from, fetched, day) ==
    LET older  == {p \in prices : p < from}
        graded == (prices \ older) \cup fetched
                  \cup (IF older = {} THEN {} ELSE {Max(older)})
    IN  HoleEnds(graded) # {} \/ (graded # {} /\ day - Max(graded) > Carry)

-----------------------------------------------------------------------------
(* The sweep (05:00 and the button of an administrator).                   *)

NeedsFullHeal == \A d \in 1 .. first : snap[d] = Missing

SkipsDeadFeed(retryDead) == ~retryDead /\ CoolingDown(miss, today)

TrailingStale(retryDead) ==
    ~SkipsDeadFeed(retryDead) /\ (prices = {} \/ today - Max(prices) > Carry)

SeenByGapQuery == {p \in prices : p >= today - Lookback}

MidGapStarts(retryDead) ==
    IF SkipsDeadFeed(retryDead) THEN {}
    ELSE {LaterDay(HoleStart(SeenByGapQuery, x), first) :
             x \in {y \in HoleEnds(SeenByGapQuery) : y - 1 >= first}}

TrailingSkipsADay == Max(prices) + 2    \* bug: one day too far
TrailingFrom == Max(prices) + 1         \* nextDay(worst)

HealFrom(full, retryDead) ==
    LET trailing == IF SkipsDeadFeed(retryDead) \/ prices = {} THEN {} ELSE {TrailingFrom}
        starts   == trailing \cup MidGapStarts(retryDead)
    IN  IF full \/ starts = {} THEN Inception ELSE Min(starts)

Sweep(force, retryDead) ==
    LET full == force \/ NeedsFullHeal
        heal == full \/ TrailingStale(retryDead) \/ MidGapStarts(retryDead) # {}
        from == HealFrom(full, retryDead)
    IN
    /\ swept < MaxSweeps /\ swept' = swept + 1
    /\ job = NoJob
    /\ calm' = ~SkipsDeadFeed(retryDead)
    /\ job' = IF heal THEN Queued(from, from # Inception, retryDead) ELSE NoJob
    /\ UNCHANGED <<today, feed, first, prices, miss, snap, edits, faults, since, failed>>

(* The send of the sweep fails, or is absorbed by a job sent before it     *)
(* (enqueue.ts:159-177): no heal follows.                                  *)
SweepUnsent ==
    /\ calm' = FALSE
    /\ UNCHANGED <<today, feed, first, prices, miss, snap, job, swept, edits, faults, since, failed>>

(* A change of the transactions moves the first one to day d.              *)
Edit(d) ==
    /\ edits < MaxEdits /\ edits' = edits + 1
    /\ job = NoJob /\ d <= today /\ d # first
    /\ first' = d
    /\ job' = Queued(Min({d, first}), FALSE, FALSE)
    /\ calm' = FALSE
    /\ UNCHANGED <<today, feed, prices, miss, snap, swept, faults, since, failed>>

NewDay ==
    /\ today < LastDay
    /\ today' = today + 1
    /\ swept' = 0 /\ calm' = FALSE
    /\ UNCHANGED <<feed, first, prices, miss, snap, job, edits, faults, since, failed>>

-----------------------------------------------------------------------------
(* The job.                                                                *)

(* loadBackfillContext; a feed that cools down is not asked.               *)
Start ==
    LET start == LaterDay(job.from, first) IN
    /\ job.pc = "queued"
    /\ IF start > today
       THEN job' = NoJob
       ELSE job' = [job EXCEPT !.start = start, !.now = today, !.got = {},
                               !.pc = IF SkipsDeadFeed(job.retryDead) THEN "fetched" ELSE "started"]
    /\ calm' = (calm /\ ~SkipsDeadFeed(job.retryDead))
    /\ UNCHANGED <<today, feed, first, prices, miss, snap, swept, edits, faults, since, failed>>

Missed == miss' = [count |-> miss.count + 1, last |-> today]
Worked == miss' = [count |-> 0, last |-> Never]

(* getHistoryFrom answers.  Without candles in the window it asks for the  *)
(* whole history, unless the job only heals the tail.                      *)
FetchAnswers ==
    LET got      == {d \in feed : job.start <= d /\ d <= today}
        answered == got # {} \/ (~job.tailOnly /\ \E d \in feed : d <= today)
    IN
    /\ job.pc = "started"
    /\ job' = [job EXCEPT !.pc = "fetched", !.got = got]
    /\ IF answered /\ ~GapRemains(job.start, got, job.now) THEN Worked ELSE Missed
    /\ UNCHANGED <<today, feed, first, prices, snap, swept, edits, faults, since, calm, failed>>

(* It throws: a miss, and the job goes on without candles.                 *)
FetchThrows ==
    /\ job.pc = "started" /\ faults < MaxFaults /\ faults' = faults + 1
    /\ job' = [job EXCEPT !.pc = "fetched", !.got = {}]
    /\ Missed
    /\ calm' = FALSE
    /\ UNCHANGED <<today, feed, first, prices, snap, swept, edits, since, failed>>

StorePrices ==
    /\ job.pc = "fetched"
    /\ prices' = prices \cup job.got
    /\ job' = [job EXCEPT !.pc = "stored"]
    /\ UNCHANGED <<today, feed, first, miss, snap, swept, edits, faults, since, calm, failed>>

(* The prices the snapshots are valued with: fetched, or stored, both from *)
(* the start of the window.                                                *)
WindowFetchedOnly == job.got            \* bug: the stored ones not merged in
WindowPrices == {p \in prices : p >= job.start}

(* The forward fill of writeSnapshotSeries.                                *)
Filled(P, d) ==
    LET known == {p \in P : p <= d} IN
    IF known = {} THEN AtCost
    ELSE IF d - Max(known) <= Carry THEN Max(known) ELSE Unpriced

WriteSnapshots ==
    LET window == job.start .. job.now IN
    /\ job.pc = "stored"
    /\ snap' = [d \in Days |-> IF d \in window THEN Filled(WindowPrices, d) ELSE snap[d]]
    /\ since' = [d \in Days |-> IF d \in window THEN job.start ELSE since[d]]
    /\ job' = NoJob
    /\ UNCHANGED <<today, feed, first, prices, miss, swept, edits, faults, calm, failed>>

(* An exchange rate is missing: nothing is written, and the job is done.   *)
WriteNothing ==
    /\ job.pc = "stored" /\ faults < MaxFaults /\ faults' = faults + 1
    /\ job' = NoJob
    /\ failed' = TRUE /\ calm' = FALSE
    /\ UNCHANGED <<today, feed, first, prices, miss, snap, swept, edits, since>>

(* A statement throws or the process dies: the queue tries again.          *)
RetriedForever ==                       \* bug: no limit
    /\ job' = [Queued(job.from, job.tailOnly, job.retryDead) EXCEPT !.try = job.try + 1]
    /\ UNCHANGED <<calm, failed>>
Retried ==
    IF job.try < RetryLimit
    THEN /\ job' = [Queued(job.from, job.tailOnly, job.retryDead) EXCEPT !.try = job.try + 1]
         /\ UNCHANGED <<calm, failed>>
    ELSE /\ job' = NoJob
         /\ failed' = TRUE /\ calm' = FALSE

Fail ==
    /\ job.pc \in {"started", "fetched", "stored"}
    /\ faults < MaxFaults /\ faults' = faults + 1
    /\ Retried
    /\ UNCHANGED <<today, feed, first, prices, miss, snap, swept, edits, since>>

HealNext ==
    \/ \E force, retryDead \in BOOLEAN : Sweep(force, retryDead)
    \/ \E d \in Days : Edit(d)
    \/ SweepUnsent \/ NewDay
    \/ Start \/ FetchAnswers \/ FetchThrows \/ StorePrices
    \/ WriteSnapshots \/ WriteNothing \/ Fail

HealSpec == HealInit /\ [][HealNext]_healVars

-----------------------------------------------------------------------------
(* What a day is worth, over all the prices since the first transaction    *)
(* (services/valuation.ts keeps the same bound for the live value).        *)
CarriedTo(d) == {p \in prices : first <= p /\ p <= d /\ d - p <= Carry}
Worth(d) ==
    IF \A p \in prices : ~(first <= p /\ p <= d) THEN AtCost
    ELSE IF CarriedTo(d) = {} THEN Unpriced ELSE Max(CarriedTo(d))

Settled == job = NoJob /\ ~failed

(* The snapshots agree with the stored prices after any sequence of heals, *)
(* outages, retries and edits in which no job was given up or lacked an    *)
(* exchange rate, but for the first days of a window that has no price     *)
(* yet, which are at cost (see SnapshotsFollowPrices).                     *)
SnapshotsAgree ==
    Settled => \A d \in first .. today :
        \/ snap[d] \in {Missing, Worth(d)}
        \/ snap[d] = AtCost /\ \A p \in prices : ~(since[d] <= p /\ p <= d)

(* A heal of the tail carries the last price before its window into it,    *)
(* as the comment on the merge of stored prices says (core.ts:337-347).    *)
SnapshotsFollowPrices ==
    Settled => \A d \in first .. today : snap[d] \in {Missing, Worth(d)}

(* After a sweep and its heal no price is missing that the provider has,   *)
(* wherever the gap is longer than a price is carried: in the tail, and    *)
(* between two prices of the last Lookback days (sweep.ts:258-327).        *)
NoHoleAfterSweep ==
    calm /\ job = NoJob =>
        \A d \in {x \in feed : first <= x /\ x <= today /\ x \notin prices} :
            LET before == {p \in prices : p < d}
                after  == {p \in prices : p > d}
            IN  /\ prices # {}
                /\ before # {} /\ after = {} => today - Max(before) <= Carry
                /\ before # {} /\ after # {} /\ Max(before) >= today - Lookback
                      => Min(after) - Max(before) <= Carry
=============================================================================
