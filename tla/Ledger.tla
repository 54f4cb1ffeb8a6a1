------------------------------- MODULE Ledger -------------------------------
(***************************************************************************)
(* The position in one instrument, as five pieces of code derive it from   *)
(* the same transactions and corporate actions: holdings at average cost   *)
(* (computeHoldings, createHoldingsCursor), first-in first-out lots        *)
(* (openLots), the share count over time (buildShareTimelines), the trade  *)
(* log (computeTrades) and the cash balance (cashFlow).                    *)
(*                                                                         *)
(* Events are recorded in the order in which the code sorts them: by day,  *)
(* and of one day the transactions before the corporate actions.  Of       *)
(* receipts the model has one kind: transfer_in, the bonus of a broker and *)
(* a cash_neutral purchase add shares at a cost and move the fee only.     *)
(* Nothing is rounded, so the dust a sale may leave is none.  naked,       *)
(* outside and the field out of a trade are history.                       *)
(***************************************************************************)
EXTENDS Fractions, Sequences, SequencesExt

CONSTANTS
    HistoryDays,  \* bound: the days of a history
    MaxEvents,    \* bound: the events of a history
    MaxShares,    \* bound: the shares of one transaction
    Fee           \* of each transaction

ASSUME LedgerAssumption == {HistoryDays, MaxEvents, MaxShares, Fee} \subseteq Nat

VARIABLES
    history,      \* transactions and corporate actions in their order
    pool,         \* the fold of computeHoldings
    lots,         \* the lots of openLots
    shares,       \* the checkpoints of buildShareTimelines
    log,          \* the average-cost pool, lots and open episode of computeTrades
    trades,       \* the closed trades
    cash,         \* the balance
    cursor,       \* a cursor over the history
    naked,        \* history: fees of sales that found no share
    outside       \* history: money that came or went without cash, or with
                  \* cash but not for shares that were held

ledgerVars == <<history, pool, lots, shares, log, trades, cash, cursor, naked, outside>>

-----------------------------------------------------------------------------
LedgerDays == 1 .. HistoryDays
Acquisitions == {"buy", "receipt"}
Disposals    == {"sell", "transfer_out"}
Actions      == {"split", "bonus"}

Price(day) == D(day)                    \* another one each day
f == D(Fee)

(* A two for one split, and one bonus share for every two.                 *)
Ratio(kind) == IF kind = "split" THEN D(2) ELSE Lowest(1, 2)
Factor(kind) == IF kind = "split" THEN Ratio(kind) ELSE D(1) ++ Ratio(kind)

HistoryEvents ==
    [kind: Acquisitions \cup Disposals, qty: {D(n) : n \in 1 .. MaxShares}, day: LedgerDays]
    \cup [kind: Actions, qty: {D(0)}, day: LedgerDays]

IsAction(ev) == ev.kind \in Actions

(* How many of the events are due, when those up to from were before.      *)
Due(events, from, day) ==
    CHOOSE n \in from .. Len(events) :
        /\ \A i \in from + 1 .. n : events[i].day <= day
        /\ n < Len(events) => events[n + 1].day > day

Total(qtys) == FoldLeft(++, D(0), qtys)

-----------------------------------------------------------------------------
(* Holdings (holdings.ts).                                                 *)

NoPool == [qty |-> D(0), cost |-> D(0), realized |-> D(0)]

ApplyShareAction(qty, kind) ==
    IF kind = "split" THEN qty ** Ratio(kind) ELSE qty ++ (qty ** Ratio(kind))

AverageOf(cost, qty) == IF qty = D(0) THEN D(0) ELSE cost // qty

FoldEvent(st, ev) ==
    LET gone == Lesser(ev.qty, st.qty)
        costOf == AverageOf(st.cost, st.qty) ** gone
        left == [st EXCEPT !.qty = @ -- gone, !.cost = @ -- costOf]
    IN  CASE IsAction(ev) -> [st EXCEPT !.qty = ApplyShareAction(@, ev.kind)]
          [] ev.kind \in Acquisitions ->
                [st EXCEPT !.qty = @ ++ ev.qty,
                           !.cost = (@ ++ (ev.qty ** Price(ev.day))) ++ f]
          [] ev.kind = "sell" ->
                [left EXCEPT !.realized =
                    @ ++ (((gone ** Price(ev.day)) -- f) -- costOf)]
          [] ev.kind = "transfer_out" -> left

(* The fold of the events that count, from a state on.                     *)
Replay(from, events, counted) ==
    FoldLeft(LAMBDA st, ev : IF ev \in counted THEN FoldEvent(st, ev) ELSE st, from, events)

(* computeHoldings(..., asOf): the transactions up to the day and every    *)
(* corporate action.                                                       *)
CountsAsOf(ev, day) == ev.day <= day \/ IsAction(ev)
HoldingAsOf(events, day) ==
    Replay(NoPool, events, {ev \in HistoryEvents : CountsAsOf(ev, day)})

-----------------------------------------------------------------------------
(* Lots, oldest first.                                                     *)

NewLot(ev) ==
    [day |-> ev.day, qty |-> ev.qty,
     unit |-> ((ev.qty ** Price(ev.day)) ++ f) // ev.qty]

ScaledLot(lot, kind) ==
    [lot EXCEPT !.qty = @ ** Factor(kind), !.unit = @ // Factor(kind)]

(* What a disposal of qty takes from lot i when it begins at the lot from. *)
TakenFrom(ls, from, i, qty) ==
    LET before == Total([j \in 1 .. i - from |-> ls[from + j - 1].qty])
    IN  IF i < from \/ qty \preceq before THEN D(0) ELSE Lesser(ls[i].qty, qty -- before)

Drained(ls, from, qty) ==
    [i \in DOMAIN ls |-> [ls[i] EXCEPT !.qty = @ -- TakenFrom(ls, from, i, qty)]]
IsLeft(lot) == lot.qty # D(0)

(* The first lot from the index on that is not used up.                    *)
NextLot(ls, idx) ==
    CHOOSE i \in idx .. Len(ls) + 1 :
        /\ i <= Len(ls) => IsLeft(ls[i])
        /\ \A j \in idx .. i - 1 : ~IsLeft(ls[j])

LotsAfter(ev) ==
    CASE IsAction(ev) -> [i \in DOMAIN lots |-> ScaledLot(lots[i], ev.kind)]
      [] ev.kind \in Acquisitions -> Append(lots, NewLot(ev))
      [] ev.kind \in Disposals ->
            LET ls == Drained(lots, 1, ev.qty) IN SubSeq(ls, NextLot(ls, 1), Len(ls))

-----------------------------------------------------------------------------
(* The share count over time.                                              *)

LastCount == IF shares = <<>> THEN D(0) ELSE Last(shares).qty

CountAfter(ev) ==
    CASE IsAction(ev) -> ApplyShareAction(LastCount, ev.kind)
      [] ev.kind \in Acquisitions -> LastCount ++ ev.qty
      [] ev.kind \in Disposals -> LastCount -- Lesser(ev.qty, LastCount)

(* sharesHeldAt: the last checkpoint not after the day.                    *)
SharesHeldAt(day) ==
    LET n == Due(shares, 0, day) IN IF n = 0 THEN D(0) ELSE shares[n].qty

-----------------------------------------------------------------------------
(* The trade log.                                                          *)

NoEpisode == 0
EmptyLog ==
    [qty |-> D(0), cost |-> D(0), lots |-> <<>>, lotIdx |-> 1, entry |-> NoEpisode,
     average |-> D(0), fifo |-> D(0), out |-> D(0)]

(* What a disposal takes out of the pool and the lots.                     *)
LogWithout(gone) ==
    LET ls == Drained(log.lots, log.lotIdx, gone)
    IN  [log EXCEPT !.qty = @ -- gone,
                    !.cost = @ -- (AverageOf(log.cost, log.qty) ** gone),
                    !.lots = ls, !.lotIdx = NextLot(ls, @)]

CostFifo(gone) ==
    Total([i \in DOMAIN log.lots |->
        TakenFrom(log.lots, log.lotIdx, i, gone) ** log.lots[i].unit])

Sold(ev) ==
    LET gone == Lesser(ev.qty, log.qty)
        proceeds == (gone ** Price(ev.day)) -- f
        costAverage == AverageOf(log.cost, log.qty) ** gone
    IN  [LogWithout(gone) EXCEPT
            !.average = @ ++ (proceeds -- costAverage),
            !.fifo = @ ++ (proceeds -- CostFifo(gone))]

TradeOf(l, day) ==
    [entry |-> l.entry, exit |-> day, average |-> l.average, fifo |-> l.fifo, out |-> l.out]

EpisodeKeepsIndex(l) ==                  \* bug: the index outlives its lots
    [EmptyLog EXCEPT !.lotIdx = l.lotIdx]
AfterClose(l) == EmptyLog

TradesAfterNothing == UNCHANGED <<log, trades>>

LogAcquires(ev) ==
    /\ log' = [log EXCEPT !.qty = @ ++ ev.qty,
                          !.cost = (@ ++ (ev.qty ** Price(ev.day))) ++ f,
                          !.lots = Append(@, NewLot(ev)),
                          !.entry = IF @ = NoEpisode THEN ev.day ELSE @]
    /\ UNCHANGED trades

LogSells(ev) ==
    IF log.entry = NoEpisode \/ log.qty = D(0) THEN TradesAfterNothing
    ELSE LET l == Sold(ev) IN
         IF l.qty = D(0) THEN /\ trades' = Append(trades, TradeOf(l, ev.day))
                              /\ log' = AfterClose(l)
         ELSE log' = l /\ UNCHANGED trades

(* A transfer of all shares leaves the episode open.                       *)
LogTransfers(ev) ==
    IF log.entry = NoEpisode \/ log.qty = D(0) THEN TradesAfterNothing
    ELSE LET gone == Lesser(ev.qty, log.qty) IN
         /\ log' = [LogWithout(gone) EXCEPT !.out = @ ++ gone]
         /\ UNCHANGED trades

LogScales(ev) ==
    IF log.qty = D(0) THEN TradesAfterNothing
    ELSE /\ log' = [log EXCEPT !.qty = @ ** Factor(ev.kind),
                               !.lots = [i \in DOMAIN @ |-> ScaledLot(@[i], ev.kind)]]
         /\ UNCHANGED trades

LogAfter(ev) ==
    CASE IsAction(ev) -> LogScales(ev)
      [] ev.kind \in Acquisitions -> LogAcquires(ev)
      [] ev.kind = "sell" -> LogSells(ev)
      [] ev.kind = "transfer_out" -> LogTransfers(ev)

-----------------------------------------------------------------------------
(* Cash: a sale brings the money of every share sold, held or not.         *)

CashFlow(ev) ==
    CASE ev.kind = "buy"  -> D(0) -- ((ev.qty ** Price(ev.day)) ++ f)
      [] ev.kind = "sell" -> (ev.qty ** Price(ev.day)) -- f
      [] ev.kind \in {"receipt", "transfer_out"} -> D(0) -- f
      [] IsAction(ev) -> D(0)

(* The worth of received shares, the cost of shares that left, and what    *)
(* was paid for shares that were not held.                                 *)
FromOutside(ev) ==
    LET held == Lesser(ev.qty, pool.qty) IN
    CASE ev.kind = "receipt" -> ev.qty ** Price(ev.day)
      [] ev.kind = "sell" -> (ev.qty -- held) ** Price(ev.day)
      [] ev.kind = "transfer_out" ->
            D(0) -- ((AverageOf(pool.cost, pool.qty) ** held) ++ f)
      [] OTHER -> D(0)

-----------------------------------------------------------------------------
(* A cursor over the history (createHoldingsCursor).                       *)

Closed == 0 - 1                         \* there is no cursor
StartOfTime == 0
NewCursor == [asOf |-> StartOfTime, pos |-> 0, st |-> NoPool]

NeverRewound(day) == cursor             \* bug: only forward
Rewound(day) == IF day < cursor.asOf THEN NewCursor ELSE cursor

(* snapshot(): the corporate actions not yet due on top.                   *)
Snapshot(events, cur) ==
    Replay(cur.st, SubSeq(events, cur.pos + 1, Len(events)),
           {ev \in HistoryEvents : IsAction(ev)})

(* holdingWithout(tx, asOf)                                                *)
HoldingWithout(i, day) ==
    LET rest == RemoveAt(history, i)
        due  == Due(rest, 0, day)
    IN  Snapshot(rest, [asOf |-> day, pos |-> due,
                        st |-> Replay(NoPool, SubSeq(rest, 1, due), HistoryEvents)])

-----------------------------------------------------------------------------
LedgerInit ==
    /\ history = <<>> /\ pool = NoPool /\ lots = <<>> /\ shares = <<>>
    /\ log = EmptyLog /\ trades = <<>> /\ cash = D(0)
    /\ cursor = [NewCursor EXCEPT !.asOf = Closed]
    /\ naked = D(0) /\ outside = D(0)

(* Of one day the transactions come first.                                 *)
Rank(ev) == IF IsAction(ev) THEN 2 * ev.day + 1 ELSE 2 * ev.day
IsNext(ev) == history # <<>> => Rank(Last(history)) <= Rank(ev)

Record(ev) ==
    /\ cursor.asOf = Closed /\ Len(history) < MaxEvents /\ IsNext(ev)
    /\ history' = Append(history, ev)
    /\ pool' = FoldEvent(pool, ev)
    /\ lots' = LotsAfter(ev)
    /\ shares' = Append(shares, [day |-> ev.day, qty |-> CountAfter(ev)])
    /\ LogAfter(ev)
    /\ cash' = cash ++ CashFlow(ev)
    /\ naked' = IF ev.kind = "sell" /\ pool.qty = D(0) THEN naked ++ f ELSE naked
    /\ outside' = outside ++ FromOutside(ev)
    /\ UNCHANGED cursor

OpenCursor ==
    /\ cursor.asOf = Closed /\ history # <<>>
    /\ cursor' = NewCursor
    /\ UNCHANGED <<history, pool, lots, shares, log, trades, cash, naked, outside>>

AdvanceTo(day) ==
    /\ cursor.asOf # Closed
    /\ LET from == Rewound(day)
           due  == Due(history, from.pos, day)
       IN  cursor' = [asOf |-> day, pos |-> due,
                      st |-> Replay(from.st, SubSeq(history, from.pos + 1, due),
                                    HistoryEvents)]
    /\ UNCHANGED <<history, pool, lots, shares, log, trades, cash, naked, outside>>

LedgerNext ==
    \/ \E ev \in HistoryEvents : Record(ev)
    \/ OpenCursor
    \/ \E day \in LedgerDays : AdvanceTo(day)

LedgerSpec == LedgerInit /\ [][LedgerNext]_ledgerVars

-----------------------------------------------------------------------------
PoolType == [qty: Frac, cost: Frac, realized: Frac]
LotType  == [day: LedgerDays, qty: Frac, unit: Frac]
LogType  == [qty: Frac, cost: Frac, lots: Seq(LotType), lotIdx: Nat \ {0},
             entry: LedgerDays \cup {NoEpisode}, average: Frac, fifo: Frac, out: Frac]
TradeType == [entry: LedgerDays, exit: LedgerDays, average: Frac, fifo: Frac, out: Frac]

LedgerTypeOK ==
    /\ history \in Seq(HistoryEvents) /\ Len(history) <= MaxEvents
    /\ pool \in PoolType
    /\ lots \in Seq(LotType)
    /\ shares \in Seq([day: LedgerDays, qty: Frac])
    /\ log \in LogType
    /\ trades \in Seq(TradeType)
    /\ cursor \in [asOf: LedgerDays \cup {Closed, StartOfTime}, pos: Nat, st: PoolType]
    /\ {cash, naked, outside} \subseteq Frac

Quantities(ls) == Total([i \in DOMAIN ls |-> ls[i].qty])
Realized(ts) == Total([i \in DOMAIN ts |-> ts[i].average])

(* The four ledgers hold the same number of shares after every history,    *)
(* sales of more than is held and actions on nothing included              *)
(* (holdings.ts:294-303, lots.ts:5-13).                                    *)
SharesAgree ==
    {Quantities(lots), LastCount, log.qty, Quantities(log.lots)} = {pool.qty}

(* A past position is the same by a replay up to the day, by a cursor      *)
(* moved there from anywhere, and by the timeline, whose count of that day *)
(* is in the shares of that day (holdings.ts:189-201, 321-333); and a      *)
(* position without one transaction is that of the history without it.     *)
LaterFactor(events, day) ==
    FoldLeft(LAMBDA x, ev : IF IsAction(ev) /\ ev.day > day THEN x ** Factor(ev.kind) ELSE x,
             D(1), events)

AsOfAgrees ==
    cursor.asOf > StartOfTime =>
        LET day == cursor.asOf
            past == HoldingAsOf(history, day)
        IN  /\ Snapshot(history, cursor) = past
            /\ SharesHeldAt(day) ** LaterFactor(history, day) = past.qty
            /\ \A i \in DOMAIN history :
                  ~IsAction(history[i]) =>
                      HoldingWithout(i, day) = HoldingAsOf(RemoveAt(history, i), day)

(* The money adds up: the holdings and the trade log realize the same but  *)
(* for the fees of sales of nothing, which the trade log leaves out; both  *)
(* methods realize the same over a closed trade that no transfer left; and *)
(* cash and cost follow from the gains and what came from outside.         *)
GainsAgree ==
    /\ pool.realized ++ naked = Realized(trades) ++ log.average
    /\ log.cost = pool.cost
    /\ \A i \in DOMAIN trades : trades[i].out = D(0) => trades[i].average = trades[i].fifo
    /\ cash ++ pool.cost = pool.realized ++ outside

(* Five derivations of one history agree on the shares and on the money.   *)
BooksAgree == SharesAgree /\ GainsAgree
=============================================================================
