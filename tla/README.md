# Pocket Portfolio Tracker, specified in TLA+

This directory specifies the parts of the portfolio tracker in which several
actors write the same rows or wait for one another: the broker syncs and the
claim that keeps them apart, the imports, the backfill and the recompute of a
portfolio's history with the lock and the queue they share, the repayments of a
loan, the pairing with a broker, documents, caches and data providers; and the
ledger arithmetic that several pieces of code do side by side. The modules are
translated from the TypeScript source; `PROJECT.json` maps every
definition to the lines it stands for. Paths below are relative to
`services/api/src/` unless they start with another top directory.

## 1. The system

One Node process serves the HTTP API (Fastify) and runs the workers of a job
queue (pg-boss) over one Postgres database. A deployment without a queue
(PGlite, tests) runs the same code inline. A web application and an assistant
talk to the API; brokers, market-data providers and an object store are outside.

| component | state | operations | hard behaviour | what makes it correct |
|---|---|---|---|---|
| TR sync (`services/pytr/sync/core.ts`, `cancellation.ts`) | transactions of source pytr, event ledger `tr_resolved_events`, anchor import | export, un-import cancelled events, seed and read the ledger, self-heal, map, anchor, materialise | a dozen separate statements; the user edits the same rows; restart between two | nothing decided is offered again, nothing is skipped unseen, nothing is held twice |
| TR connection (`routes/tr/*`, `services/scheduler.ts`) | `tr_connections`: status, session, `syncing` with a lease | pair, verify, sync button, hourly sweep, disconnect, startup reset | claim handed from request to job; redelivery; throttled send; re-pairing | one sync at a time; the flag ends; the session belongs to the account |
| Backfill fan-out (`services/backfill/fan-out.ts`) | `backfill_jobs`, the queue | plan, send, poll, clean; sub-job fetches and marks | reruns over leftovers, sub-jobs that outlive their run, lost sends | snapshots follow the fetches; the planner ends |
| Portfolio lock (`scheduler/portfolio-lock.ts`) | a map of promises | enter, leave | deletion of the tail | mutual exclusion, first in first out |
| Recompute (`scheduler/recompute.ts`, `enqueue.ts`) | queue slot, snapshots | throttled send with follow-up, batch worker | dropped sends, one of several failing | every change's days are recomputed |
| Backfill sweep and heal (`services/backfill/sweep.ts`, `core.ts`, `snapshots.ts`) | prices, snapshots, miss counters | choose what is missing, fetch, merge, carry forward, rewrite | holes made by sequences of outages; a feed that stays dead; a window that begins after the price it needs | snapshots agree with the prices; no hole survives a sweep |
| Imports (`routes/imports/*`, `materialize-drafts/*`) | `screenshot_imports`, transactions | upload, parse, materialise, confirm, discard, undo | confirm reads before its transaction; two confirms; duplicates across sources | an import is booked once; a trade is held once |
| Transactions (`routes/transactions/crud.ts`) | transactions | create, edit, status, delete, resolve drafts | concurrent with a sync | see TR sync |
| IBKR sync, reassign, merge (`services/ibkr/sync.ts`, `reassign.ts`, `merge/core.ts`) | as TR, for Flex reports, in two portfolios | as TR; move rows to another portfolio, merge a row with its twin | the nightly job takes no claim; the ledger is read before the rows and stays where it is when a row moves | a decision stands; an event is held once |
| pytr runner (`services/pytr/runner/core.ts`) | one pending pairing per user, a child process, a timer | start, line, exit, verify, cancel | late exit of a replaced child | an answer reaches the pairing it belongs to |
| Receipts, inbox (`storage/*`) | object store and `documents` | put and insert, link, collect | one of the two fails | no row without object, orphans are collected |
| Loans (`services/loan-installments.ts`) | loans, installments as transactions | book, skip, pay off | cron against the user | an installment is booked once |
| Caches (`lib/derivation-cache.ts`, `services/price-cache.ts`) | promises with expiry | read through, flush | a read that started before a write | staleness is bounded |
| Data providers (`packages/market-data/src/service.ts`) | blocks, probe times, failures of a run | ask in turn, block, probe, lift | a probe that answers after the block it did not see; workers that listed a provider before it failed | a cooldown is kept; a dead provider costs a bounded number of calls |
| Portfolio arithmetic (`packages/core`) | folds over a history | holdings, lots, timeline, trade log, cash, tax, returns | the same history in five derivations; splits and transfers between them | the derivations agree |
| Integrity rules, assistant, auth, admin, web | none shared, or read-only | | | |

How they interact: a route writes rows and sends a job; a worker reads rows,
calls a broker or provider, and writes rows and further jobs. They share
nothing but the tables and the queue, except the in-process lock and caches.
pg-boss delivers at least once, gives up on a handler that outlives its expiry
without stopping it, and silently drops a send within a throttle slot. So the
hazards (listed with their lines in `PROJECT.json`) are reads that are several
statements old, redelivered jobs, and ends of one run that touch another.

## 2. Modules

| module | what it is |
|---|---|
| `TrSync` | one sync, statement by statement, against the user's routes, file imports, the broker and a restart |
| `SyncClaim` | who may sync a connection: routes, worker, queue, restart, pairing |
| `FanOut` | planners, sub-jobs and the queue around the coordination table |
| `FifoLock` | the abstract specification of the portfolio lock |
| `PortfolioLock` | the promise chain that implements it |
| `Recompute` | changes, the throttled queue, its worker, planners and the daily job on the snapshots of a portfolio; uses `FifoLock` as an `INSTANCE` |
| `Heal` | prices and snapshots day by day: sweep, fetch, merge, forward fill, feed health |
| `Imports` | requests on the imports of a user and the rows they write |
| `Loans` | the repayments of a loan: booking job, requests and row locks |
| `Pairing` | login processes, timers and promises of the pairings of a user |
| `DerivationCache` | the two caches of derived figures |
| `Receipts` | objects and rows of documents |
| `Ledger`, `Fractions` | one history of an instrument in five derivations, over exact fractions |
| `IbkrSync` | overlapping syncs of one portfolio, with moves and merges of rows |
| `Feeds` | the chain of market-data providers with its breaker and probe |
| `MCFanOut`, `MCRecompute`, `MCTrSync` | instances of one module |
| `MCSources`, `MCServices`, `MCTables` | instances of several |
| `SyncClaimProofs`, `FanOutProofs`, `RecomputeProofs`, `LedgerProofs` | theorems of the modules they are named after |
| `FractionProofs` | lemmas on the arithmetic of `Fractions`, and induction over numbers as a fact about sets |
| `SourcesProofs` | theorems of `TrSync`, `IbkrSync`, `Feeds` and their instance |
| `ServicesProofs` | theorems of `PortfolioLock`, `Loans`, `Pairing` and their instance |
| `TablesProofs` | theorems of `Imports`, `DerivationCache`, `Receipts`, `Heal` and, with `LedgerProofs`, of their instance |

An instance of several modules is their sum, not their product: the parts share
no state, a behaviour runs one of them, chosen initially, and the others keep
their initial values. One run then answers the questions of all its parts at the
cost of the sum of their states. `MCSources` holds `IbkrSync` and `Feeds`;
`MCServices` holds `PortfolioLock`, `Loans` and `Pairing`; `MCTables` holds `Heal`,
`DerivationCache`, `Receipts`, `Imports` and `Ledger`.

### TrSync

State: `rows` (status of the pytr transaction of each event), `ledger`
(`tr_resolved_events`), `anchor` (status and issues of the newest pytr import),
`other` (the same trade from another source), `request` (a confirm or a discard of
an import between its statements, with the copy it read), and the locals of the running
sync (`existing`, `seed`, `resolved`, `healable`, `open`, `drafts`, `issues`,
`collapsed`) with its program counter `pc`. Each await of `syncTrConnection`
that reads or writes these tables is an action: `Export`, `CancelRows`,
`CancelLedger`, `ReadRows`, `Seed`, `ReadLedger`, `Heal`, `ReadCollector`,
`InsertAnchor`, `Materialize` (one transaction), `Collapse`, `UpdateAnchor`. The
handlers of the user are one action each, but for two. The confirm of an import
(`ConfirmReads`, `ConfirmWrites`) prunes the issues from the copy it read before its
transaction and writes the rest back by id, into the import it read, whether that
is still the anchor or not (`WrittenBack`). The discard (`DiscardReads`,
`DiscardRecords`, `DiscardCloses`) reads the import, records its events from that copy
and closes it by id in statements of no transaction. Either may end early
(`GivesUp`). `Crash` is a throw or a restart of the sync between any two of its statements.

Five variables are history. `verdict` is the user's decision about an event,
`settled` the events anyone decided, `asked` those the user wanted twice.
`overtaken` are events decided while a sync was past its reads and `torn` those
whose cancellation died between its two deletes: they name the exceptions of
the properties, and no action reads any of the five.

Simplifications. One sync runs at a time (the claim is `SyncClaim`'s subject), and
one confirm or discard of an import. Of an import older than the anchor only the
copy that such a request has read is kept: no sync finds it, as none becomes a
draft again, and a request that begins then reads what one that began earlier has
read and may still hold.
An export that fails changes none of these tables and is no step. `cash_neutral`
counts as `normal`. The `:original` legs of a split event and the collapse of
perk legs follow their event. `drafts` of an anchor is always empty in today's
code and is left out. Undoing an import deletes its rows. Documents, the balance
reconciliation and the roll of the session are not here.

### SyncClaim

State: the row of the connection, the functions in flight (requests of the
route, handlers of the worker) with what each remembers of the row it selected,
the waiting jobs, the throttle slot, and the handler the worker awaits. A sync
is one step with four outcomes: success, failed export, throw, and the early
return for a deleted portfolio. History: `holder` is the run for which the flag
is set, `displaced` the runs whose claim another run took or cleared, `lost`
whether the sync a flag waits for can no longer come, `interrupted` the accounts
paired while a sync ran.

Simplifications. The clock: a lease may lapse and a slot may end at any time.
At most one job of a kind waits. `expired` is one of the error statuses.
Pairing with the broker is one step. Jobs of a deleted row select nothing and
are dropped with it. One worker process.

### FanOut

State: `row` (the coordination table, one row per instrument and first day of
its chunk), `planner` (deliveries of the portfolio's job), `jobs` (sub-jobs,
waiting or with a handler, which may be one the queue has given up on).
`claimedAt` is the number of the run; the id of a row is the claim that inserted
it, so that a re-inserted row has another. `oneProcess` is chosen initially: one
process, where the promise lock keeps planners apart, or several, where it does
not. Actions: `PlanStarts`, `PlanUpsert` per instrument, `Reap` (orphans), `Send`
per sub-job, the poll (`PollDecides`, `PollLost`, `PollAborts`), `Clean`,
`Snapshots`; `SubStarts`, `SubFetches`, `SubMarks`, `SubThrows`, `SubExpires`;
`Restart` and `Age`. History: `fed` (rows fetched under the claim that stands) and
`raced` (rows claimed over a sub-job still under way).

Simplifications. A provider that fails is counted by the code, not thrown, so
`SubFetches` always succeeds; a throw is a failed statement. The first day of a
chunk stands for all that the window depends on. The deadline and an abort may
come at any look of the poller. A retry of the planner's job is any later start.
A row ages only when no live run claims it, since six hours exceed every run.

### FifoLock and PortfolioLock

`FifoLock` is what `withPortfolioLock` promises: per portfolio a queue of calls, of
which the first may hold the lock (`Enter`, `Acquire`, `Release`). `PortfolioLock`
is the code: a map (`tails`) from a portfolio to the newest call, the call each
one found there (`prev`), and its place (`pc`). `Ask` is one turn of the event
loop; `Run`, `Settle` and `Leave` are later turns, between which anyone may ask. `asked` is history
and becomes the queue of the abstract lock.

### Recompute

A change commits, then sends (`SendTaken`, `SendDropped` when the slot is taken,
`SendFails`); a dropped send sends a follow-up of its own day (`FollowUpTaken`,
`FollowUpAbsorbed`). `SlotEnds` moves the clock to the next slot. `JobStarts`,
`LockGranted`, `Read`, `Write` and their failures are the worker; a backfill's
planner does the same without a job, the daily job (`CronReads`, `CronWrites`)
without the lock. What a snapshot holds is the set of changes committed when its
writer read the transactions. History: `gaveUp`.

### Heal

`Sweep` chooses what is missing (trailing hole, gap between two prices, missing
snapshots) and sends one job; `Start`, `FetchAnswers` or `FetchThrows`,
`StorePrices`, `WriteSnapshots` are the job; `WriteNothing` is its early return for
a missing exchange rate. `SweepUnsent` is a sweep whose send fails or creates no job.
There may be several sweeps a day (the job of the night, restarts, the button).
`Edit` moves the first transaction and sends the same
job. A snapshot is named by the day whose price it uses, or says that it is at
cost, or unpriced. The provider has a candle on some of the days, chosen
initially. History: `since`, `calm`, `failed`. Gold, bonds, funds, FX series and
the other portfolios whose fetches fill the same prices are left out.

### Imports

A request reads its import (`Call`), locks the portfolio and classifies
(`Classify`), writes and unlocks (`ConfirmWrites`, `MaterializeWrites`); the
closing of a materialised import, and each statement of discard, undo and clear,
are steps. A row's key is its import, since the imports are of different sources.
Worth knowing, and in the model: a confirm does not refuse an import that was
discarded meanwhile; two confirms into different portfolios both write; a confirm
writes back the list of staged drafts it read, so that a draft written in between
is offered again and then classified as a duplicate. History: `forced`, `done`.

### Loans

`Call` reads; `Locks` takes the row of the loan `FOR UPDATE` and reads under it;
`Books`, `Skips`, `Unskips`, `PaysOff`, `Reopens`, `LinksUnderLock` and the delete
write and commit. A delete locks its row before the loan, skip and reopen the
other way around: the database then aborts one (`Deadlock`). An edit that does not
change the link takes no lock and writes the link it had read; `relinked` names
what it overwrites. An archived repayment still counts as one that covers.

### Pairing

The map `pending` names the entry of the user; `Spawns`, `FirstLine`, `CodeRefused`,
`TimerFires`, `ChildErrors`, `ChildEnds` and `ExitReported` are the events of a child or
of its timer, `SessionRead` the await in the handling of an exit, `Verify` and
`Disconnect` the calls. Every event looks the entry up by user. So a cancelled
child's late exit settles the pairing that replaced it, a second verify replaces
the callback of the first, two concurrent starts leave the first child alone, a
cancel answers nobody, and an exit with code 0 before any line answers no start:
`crossed` and `dropped` name them. A timer that fires is spent; an error clears the
timer of the pairing that is pending, whosever child it was.

### DerivationCache

`Hits`, `Misses`, `Queries` and `Computes` of the valuation, whose promise is in the
cache before it is computed; `Resumes` of a read that awaited the promise of another,
in a turn of its own after that one has settled; `LogHits`, `LogMisses` and `Derives` of the trade log,
which is stored after an await. `Flush` follows the writes of requests only. What a
read gets is a set of writes. A failed computation drops its entry.

### Receipts

Functions go through rows they read once (`Lists`), one call of the store or the
database at a step: `Puts`, `Inserts`, `LosesRace`, `Copies`, `DeletesSource`, `Rekeys`,
`DeletesObject`, `DeletesRows`; each may fail. `spoilt` names documents of which a
function was left half done or was overtaken. The first key of a receipt is its
import and its file name (`receipts/keys.ts:12-21`), so staged documents may share
one (`name`, chosen initially; `Under` is what stands under a key): a put replaces
what another put there, and a move or a delete takes it away from both rows.

### Ledger

`Record` appends an event to `history` and runs each fold of the code on it:
holdings at average cost, lots, checkpoints of the timeline, the trade log with
both methods, cash. `OpenCursor` and `AdvanceTo` move the cursor: `Due` is how many
events the loop of `advanceTo` reaches, `Replay` the fold of those that count.
`AfterClose` is the reset of the trade log when an episode ends. One instrument and
one currency; nothing is rounded, so the dust a sale may leave is none. Mergers, advance
taxation, dividends and exchange rates are left out.

### IbkrSync

Each sync loads the ledger, then the rows, seeds, finds the collector import,
writes, collapses and closes (`LoadsLedger` to `Closes`), or throws in between.
Beside it the user decides, deletes, confirms a twin from another source, merges in
either direction, discards the collector (its record in the ledger and its
deletion are two statements), re-imports, and moves rows to another portfolio and
back (`MoveReads`, `MoveChecks`, `MoveWrites`). The ledger belongs to the portfolio
of the connection. History: `chosen`, `loose`, `reread`.

### Feeds

`blockedUntil`, `lastProbeAt` and the failures of a run are the code's maps, the
clock is ticks. `Begins` lists the providers that are not blocked; `Finds`,
`FindsNothing` and `Fails` end a call, and the next provider is asked in the same
turn. `Probes` starts a usage probe, `QuotaUsedUp`, `HasHeadroom` and `ProbeFails`
are its answers. History: `wasted`, `cooling`.

## 3. What is checked

| run | instance | shows |
|---|---|---|
| `TrSync` | 1 event, outcomes draft and attention, every operation, 1 restart; 2 events in a batch, outcomes draft and attention for one, attention and info for the other | `CancelledIsGone`, `OneLiveCopy`, `NothingLost`, `ConfirmInv`, `ConfirmedNeverReoffered`, and `EventuallyShown` under fairness |
| `SyncClaim` | 2 functions, 1 expiry, 1 lapse, 1 restart | `NoOverlap`, `ClaimEnds` |
| `SyncClaimPairing` | 2 functions, 2 accounts, 1 expiry | `SessionOfAccount` |
| `FanOut` | 2 instruments, 2 runs, 1 retry, 1 fault | `SnapshotsFollowFetch`, `FailedIsFinal`, `OwnershipKept`, `LiveRowsStay`, `PlannerEnds` |
| `Recompute` | 3 changes, 2 days, 1 planner, the daily job, 1 retry, 1 fault | `NoChangeForgotten`, `NoStaleOverwrite`, `EveryChangeShown` |
| `Services` | lock: 3 calls, 2 portfolios; loan: 2 installments, 1 repayment by hand, payoff, 2 requests and the job; pairing: 2 starts, 2 verifies | `ImplementsLock`, `EveryCallRuns`; `SettledOnce`, `PaidOffOnce`, `NothingBookedAfterPayoff`, `DueIsSettled`; `NoChildLeft`, `CallsAnswered` |
| `Tables` | history: 4 days, 2 sweeps a day, 1 edit, 2 faults; figures: 2 reads, 1 write of a request and 1 of a worker; documents: 2 staged, with one name or two, 2 fetches of a report, 3 functions, 1 failure; imports: 2 of which one has the trade of the other, 3 requests; books: 4 events in 2 days | `SnapshotsAgree`, `NoHoleAfterSweep`; `ValuationsAreFresh`; `RowsMatchObjects`; `EveryDraftOnce`; `BooksAgree`, `AsOfAgrees` |
| `Sources` | ibkr: 1 event, 2 syncs; market data: 2 providers, 2 workers and a lookup beside them, 3 quotes | `DecisionsStand`, `HeldOnce`; `CooldownKept`, `FailuresBounded` |
| `SyncClaimNotTaken`, `FanOutWindow`, `HealWindow`, `CacheTradeLog` | smaller | what a comment says and the code does not do (section 5) |

Why the bounds are enough.

- `TrSync`. Trade Republic events meet only in the anchor's status, in
  its list of issues and in the all-or-nothing confirm, so one event explores the
  races of a row and two those of a batch: an import confirmed in part, closed with
  an ignorable issue left, discarded, or written back from a copy that lacks what a
  sync has added. `MCTrSync` runs either. The batch leaves out cancellations, decisions
  about rows, twins, restarts and a re-import, which act on one event and which the
  other instance has. The mapper's third outcome matters only beside another event.
- `Sources`. Interactive Brokers events meet
  only in a blocked batch, which a throw before the write imitates; two syncs are the
  least that overlap. Two workers and a lookup outside the run are the least that ask
  a provider after another has seen it fail; a budget of 1 and 3 instruments
  exceed it; the clock passes a midnight, and a cooldown reaches over it.
- `SyncClaim`. Two functions are the least that can overlap or displace each
  other's claim; a third adds another of the same kind. Each fault is allowed once,
  at every point.
- `FanOut`. Two runs of a planner are the least in which one meets the leftovers of
  another; two instruments make a plan that is partly finished, and one is shared
  between two processes. `MCFanOut` restricts which of two interchangeable
  planners starts first.
- `Recompute`. Two changes of the same or of different days meet in the slot and
  in the queue; the third change exists only to be absorbed by the follow-up of
  another (`ThirdIsAbsorbed`), in a run without faults, and the daily job writes
  once (`DailyJobOnce`). Changes are numbered in the order of their days.
- `Services`. Three calls give a waiting call and a newer one beside the one that
  ends; two installments are the least of which one is settled and one due. Of the
  calls of the pairing that differ in name only the first one comes first, and a
  second start and a second verify do not come together.
- `Tables`. Four days with a carry of one hold a hole, a gap between prices and a
  recovery; `HealWindow` needs a fifth. Three requests are two that write and one that
  removes. Four events are the shortest histories in which a closed episode
  is followed by another with a disposal, or a split falls between the lots of
  one; a fee and up to two shares make sales of more than is held.

Symmetry is used in `Sources` only, over the syncs: that run has invariants and no temporal property. The type invariant of
every module is proved, those of the three instances included.
Deadlock is checked in `TrSync` and `Sources`. It is
off where the system may rest: a disconnected connection, a backfill after its last claim,
calls and requests of which each is made once, and a clock that stops at its bound.

Every property of a passing run has a mutant in `PROJECT.json`: a plausible
slip in the code under which the property fails in the same run. The mutants
stand in the modules beside what they replace, marked `bug:`.

### Refinement

`ImplementsLock` says that `PortfolioLock` implements the safety of `FifoLock`, with `asked`
for its queue and the running calls for its holders. `Recompute` is composed
with the same `FifoLock`, so that its workers rely on what the chain provides.

### Fairness

- `TrSync`: a started sync goes on, and syncs whose export answers keep being
  started: the hourly cron (`TR_SYNC_CRON`). Nothing is assumed of the user; a confirm
  or discard may stay between its statements for ever, or write back a stale copy at
  any time, and both instances of the run are checked under the same fairness.
  `EventuallyShown` needs that no unconfirmed row of another source blocks the
  event for ever: such a row absorbs the draft.
- `SyncClaim`: an asynchronous function in flight goes on (weak fairness per
  run), and the queue hands out its jobs in the order of their creation, so that a
  targeted job is not passed over for ever (strong fairness of its fetch, since
  the worker is busy and idle again and again).
- `FanOut`: a planner that was started goes on. Nothing is assumed of sub-jobs:
  the poller's deadline must be enough.
- `Recompute`: a request whose change committed goes on to its sends, the slot ends, the
  queue hands out what waits, and the handler whose turn it is goes on. Nothing is
  assumed of backfills, the daily job or the absence of faults; `gaveUp` and a
  lost send are the exceptions `EveryChangeShown` names.
- `PortfolioLock`: the event loop runs what is ready, and a function settles.
- `Loans`: the booking job is started every day, and what has begun goes on.
- `Pairing`: the event loop, as above: a call goes on, timers fire, ends are
  reported, files are read. Nothing is assumed of a child that runs: the timer
  must be enough.

## 4. What is proved

The theorems hold for every set of events, functions, accounts, instruments, planners,
portfolios, calls, providers, workers, imports, trades, repayments, documents, reads and
requests and every bound. They assume what the modules state as named assumptions, which
every run evaluates: bounds, lengths and the fee are natural numbers; the mapper's outcomes are
the three of the code; a marker such as `NoCall`, `None` or `Nobody` is no member of the
set beside it; sets of different actors are disjoint; the probed providers are some
of the providers; the workers that ask for quotes are finite in number and one at
least, as are the repayments by hand finite, since theorems count them.

- `TypeCorrect` of `TrSync`, `SyncClaim` and `FanOut` is inductive as it stands. That of
  `Recompute` needs that the worker awaits exactly the active delivery (`JobInv`), that of
  `Feeds` that an awaited probe began at a tick the clock has shown (`ProbeInv`).
  `SourcesTypeCorrect`, `ServicesTypeCorrect` and `TablesTypeCorrect` carry the types to the
  instances: a step of an instance is a step of one part and a stutter of the others.
- `ConfirmInvariant`. `ConfirmedNeverReoffered` alone is not inductive: a sync
  that has read the tables is about to write what it decided then. The
  strengthening says that its reads still hold for every event no one has decided
  since (`ReadsStillHold`): what it will forget or materialise belongs to no
  confirmed event. `KnownIsRecorded` ties the user's decision to the ledger.
  `ConfirmedStaysConfirmed` follows.
- `LedgerHoldsDecisions` (`NothingLost`) rests on `SettledInv`: a counted or
  archived row was decided, and so is what a sync is about to seed.
- `NoSecondCopy` (`OneLiveCopy`) is inductive once `TypeOK` is known.
- `CancelledStaysGone` (`CancelledIsGone`) rests on `GoneInv`: what a sync is about to write
  are drafts of its own export, and what it is about to seed or merge it has read since
  its deletes. So an event it saw cancelled has no row after the first delete and no
  ledger entry after the second, also one that an earlier sync left there when it died
  between the two, unless the user decided the event since, or a re-import undid such a
  decision while the sync was seeding it (`torn`).
- `IbkrInvariant` of `IbkrSync`, for any number of overlapping syncs. `StaleReads`: of the
  events a sync may still offer, those decided since it read the ledger have a row or a
  twin that it will find, and none has a row in the other portfolio; what it will
  record was counted or merged. `DecidedRows`: a counted or archived row was
  chosen. `loose` names the exceptions of both: events whose row or twin changed, or whose
  import was discarded or re-imported, while a sync ran; undecided rows that moved;
  rows a re-import left in the other portfolio; rows whose import was discarded beside
  them. `reread` names what a sync seeds after a re-import.
  `IbkrDecisionsStand` (`DecisionsStand`) and `IbkrHeldOnce` (`HeldOnce`) are conjuncts.
- `SessionKept` (`SessionOfAccount`) of `SyncClaim`: a function remembers a
  session of the row it selected, and ids are never given twice.
- `SyncsDoNotOverlap` (`NoOverlap`): a function that has passed the claim, is no second
  delivery and was not displaced holds the flag of its row (`HoldsFlag`), and so does the
  waiting job that the claim was handed to (`JobWaits`). When the row is gone there is
  no flag: ids are never given twice, so no other function of that id can come (`Sole`).
- `RowsStayOwned` (`OwnershipKept`) of `FanOut`: with one process the lock leaves
  one planner inside, so the rows it claimed so far keep its claim (`RowsHeld`).
- The other theorems of `FanOut` hold for any number of processes and rest on
  `Sorted`: live claims are distinct, ids given to new rows are fresh
  (`FreshIds`), and a row whose claim stands and is not raced (`Sole`) is named
  only by sub-jobs of the run that claimed it (`SoleJobs`, `SoleSends`). Most steps
  are `Quiet` (they neither begin a run nor claim a row) and preserve it for one
  reason; the two others have a lemma each.
- `SnapshotsAreFed` (`SnapshotsFollowFetch`): a fetched sub-job, and hence a row
  that says done, was fetched under the claim that stands (`FetchedIsFed`,
  `DoneIsFed`).
- `FailedRowsAreFinal` (`FailedIsFinal`): of the deliveries of a sub-job one is
  awaited and has the highest attempt (`Ordered`), so a handler on its final
  attempt has no successor.
- `LiveRowsAreKept` (`LiveRowsStay`), an action property: a deleted row is an aged
  one, which no live run claims (`OldRows`), or carries the deleter's claim.
- `ChainInvariant`, `FunctionsRunOneAtATime` and `ChainImplementsLock` of
  `PortfolioLock`, for any portfolios and calls. The map entry of a portfolio is
  the newest call that asked and has not ended, or nothing; each call found the one that
  asked before it, or one that has ended; so a call whose predecessor is over is the
  head of the abstract queue. Initial states map to initial states and each step
  to a step of the lock or a stutter.
- `WritersNeverGoBack` (`NoStaleOverwrite`) of `Recompute`, an action property: whoever has read
  the transactions is first in the queue of the lock (`LockInv`), so no snapshot
  shows a change it has not read (`KnowsInv`).
- `RecomputesAccountedFor` (`NoChangeForgotten`): a change that is not in the snapshots is owed
  by a request, the slot, a job or a handler. A job that the slot deferred has its day
  still to come (`FollowInv`); each step hands the debt on or pays it.
- `CooldownsAreKept` (`CooldownKept`) of `Feeds`: a cooldown that runs is the block
  that stands, with its reason (`CooldownInv`). A failure or an exhausted quota
  blocks only a provider that is not blocked, and a probe lifts only a quota block.
- `FailuresAreBounded` (`FailuresBounded`) counts: the failures of a provider are at most its
  budget less the calls under way, plus the other workers (`ErrorsInv`), and the
  calls to a blocked one are as many as the lookups that no longer list it (`WastedInv`).
- `SnapshotsStayInStep` (`SnapshotsAgree`) and `NoHoleIsLeft` (`NoHoleAfterSweep`) of `Heal` rest on
  `HealInv`. `JobInv`: the window of the job under way is the one it was sent for.
  `SnapsInv`: a snapshot is right, or the job under way will rewrite it, until a job is
  given up or writes nothing (`failed`). `HolesInv`: a day with a candle and
  without a price lies in the window of the job, or between prices that are close
  enough to be carried. That sweeps choose the window so (`SweepLeavesNoHole`) uses
  the least and the greatest of a set of days, which exist since < is well-founded.
- `DraftsAreWrittenOnce` (`EveryDraftOnce`) of `Imports`, in two parts. `RowsInv`: what a
  request is about to write was held by no row when it classified, and rows are added
  under the lock of the portfolio only, so it still is not, unless the user
  acknowledged it; the unique key does the rest. `DraftsInv`: the drafts a request
  chose are written or absorbed once it has written, and what is missing from
  the staged list was written or absorbed before.
- `ValuationsStayFresh` (`ValuationsAreFresh`) of `DerivationCache`. `EntryInv`: the promise in the
  cache was put there after the last flush and no earlier than a time to live
  before its expiry, so it will hold every write a new read has to include.
  `ReadsInv`: what a read has to include is in the promise it awaits or in what it got.
- `RowsAndObjectsMatch` (`RowsMatchObjects`) of `Receipts`, for any file names. An object
  that was put last for a document is named by its row; the row names an object only
  if no other document has its name, since the function that moved or deleted the
  shared one need not have worked on this document at all. `Matches` says of a document what
  task accounts for each difference between its row and its objects: one that stores
  it, moves it, or has deleted its object. `StoredOnce`: one task stores a
  document, before it has a row. `KeyOK`: a row names its second key after the copy
  under it, and nothing removes that copy as long as the move goes on.
- `LoanInvariant` of `Loans`: what a request read under the row lock of the loan still
  holds when it writes (`HoldsUnderLock`), since rows are linked and unlinked under
  that lock, except by an edit that takes none, which `relinked` names.
  `InstallmentsAreSettledOnce` (`SettledOnce`), `PayoffClosesTheLoan` and the action property
  `PaidOffStaysUnbooked` (`NothingBookedAfterPayoff`) follow.
- `PayoffPaysTheRest` (`PaidOffOnce`): a payoff, and one about to be written, leave nothing owed
  beyond the covered installments (`PaysTheRest`); these inject into the installments
  of the contract (`CoveringBound`), so the principal of all repayments is that of the loan.
- `NoLoginLeftRunning` (`NoChildLeft`) of `Pairing`: the child of an entry that is being read or
  holds a result has ended, unless another pairing crossed it (`PairingInv`).
- `LedgerBooks` (`BooksAgree`) and `LedgerPast` (`AsOfAgrees`) of `Ledger`, for histories of
  any length, numbers of days, sizes of a transaction and fees. Both follow from
  an inductive invariant, `LedgerInv` (`LedgerKeepsInv`).
  - `BooksHold`: no lot is overdrawn and those before the index of the trade log are used
    up (`UsedUpTo`), so that a disposal, which both codes split over the lots from the
    oldest on, finds exactly the shares that the pool gives up. `LogIs` is what
    `BooksAgree` does not say of an open episode: as long as nothing was transferred
    out, the gain by average cost plus the worth of its lots is the gain by first-in
    first-out plus the cost of the pool. When the episode closes, lots and cost are zero
    and the two gains are equal.
  - `TimelineHolds`: the history is in order, the pool is its replay, and the checkpoint of
    an event is the replay up to it.
  - `CursorHolds`: the cursor stands behind the events that are due, with their replay.
    A step forward goes on from there, and a step back begins anew; both give the
    replay of what is due (`DueTo`), wherever the cursor came from. The corporate actions
    still to come scale the count of the timeline by `LaterFactor` and leave the cost.
  - The arithmetic under it (`FractionProofs`): a fraction in lowest terms is determined by
    its numerator over any common denominator, so that a law of `++`, `--`, `**` and `//`
    becomes one of integers.
  - The folds: a `FoldLeft` over a sequence is the last value of the table of its values
    after each element, and a claim about every place of a table is proved from the
    least place where it would fail, which exists since < on the natural
    numbers is well-founded. That is how sums over lots and replays of a history are
    reasoned about at every length without an induction theorem.

Only model-checked is what is temporal (`ClaimEnds`, `EventuallyShown`, `PlannerEnds`,
`EveryChangeShown`, `EveryCallRuns`, `DueIsSettled`, `CallsAnswered`), since the prover has no
liveness under fairness. Every safety invariant and action property that a passing
run checks is a theorem.

## 5. Where the code and its comments differ

Shown by a run:

1. The sweep's release tests the flag, not whose it is, and clears the claim of a
   request that came in between (`SyncClaimNotTaken`).
2. A sub-job of an aborted run marks the row of the next run done
   (`FanOutWindow`). `SnapshotsFollowFetch` holds for every row not claimed over
   such a sub-job.
3. The first days of a healed window are at cost although the price before it
   could be carried (`HealWindow`). `SnapshotsAgree` holds for all other days.
4. A trade log derived from an old valuation is cached after the flush and served
   until it expires (`CacheTradeLog`). `ValuationsAreFresh` holds.

Met while modelling, in the models as the code has them:

- A discarded event whose row was deleted is offered again by the self-heal
  (`core.ts:174-207`), although `docs/trade_republic.md:77-82` says that decided
  events never are. A connection gets a second anchor import once the first is
  confirmed or discarded (`core.ts:299-311`, against `:290`).
- A targeted sync of a connection without portfolio leaves `syncing` set until the
  lease lapses (`core.ts:59-62`, against `scheduler.ts:211-212`).
- Deleting the finished rows after a timeout does not spare a retry the fetch
  (`fan-out.ts:231`).
- A discarded import may still own rows (`imports.ts:392-395`): a confirm that read
  it before goes on.
- Interactive Brokers: a confirmed anchor is never reused (`sync.ts:226-228` says
  there is one stable anchor); drafts staged by an older version are overwritten
  on a blocked batch (`sync.ts:265-302`); discarding such an import beside its just
  written row leaves a draft whose event the ledger calls discarded; an undecided row
  that moved is offered again where it came from; two opposite merges of a pair with the
  same provenance key may delete both rows; two moves of the same rows to different
  portfolios recompute the last one's target only.
- Trade log and holdings: a transfer of all shares leaves the episode open at
  quantity 0, so that a later purchase extends it; a sale without shares books its
  fee in the holdings and is skipped by the trade log.
- Market data: a 402 while a cooldown runs is not recorded, although
  `service.ts:23` says that it pauses the provider until midnight; a 402 that arrives after
  midnight blocks the next day; a lookup that listed a provider before it was
  blocked asks it once more.
- Receipts: identical uploads that race end up in one import
  (`imports/parse/screenshot-handler.ts:194-234`) and store two staged rows over one
  object, since the key is the import and the file name (`storage/receipts/keys.ts:21`).
  The confirm moves the object for the first row; the copy for the second finds no
  source, is logged, and its row names nothing. The inbox guards against the like with a
  random part in the key (`storage/inbox.ts:49-51`); nothing in the repository says
  the same of receipts, so no run holds it against them, and `RowsMatchObjects` promises
  an object to a row only if its file name is its own. A call of the store or the
  database that fails halfway leaves a row without object, or an object without row,
  which nothing mends later (`spoilt`).
- Two confirms of one import to different portfolios both write (`confirm.ts:76-92`);
  `EveryDraftOnce` speaks of one portfolio.
- The claim of a throttled send, of a sync without portfolio, and of an inline
  deployment that restarts stands until its lease lapses; `ClaimEnds` exempts these (`lost`).
- Pairing and loans: see section 2; a restart between a commit and its send loses
  the recompute (`gaveUp` does not count it, `send` does).

## 6. Plan

Done: the plan of the first version (lock, recompute, imports, caches, pairing,
receipts, loans, Interactive Brokers), the heal of prices, the ledger, the
providers, and the proofs of every safety property. Next, in this order:

1. The predicates that score likely duplicates (`packages/core`), checked against
   a reference definition over bounded inputs: `TrSync` and `Imports` take their
   outcome as given.
2. `TrSync` under two runs at once: its composition with `SyncClaim`, for the
   syncs that a lapsed lease lets overlap.
3. The window limiter and the price cache.

## 7. Not modelled

Parsing and mapping of documents and timeline events, the scoring of likely
duplicates, tax, returns and rebalancing, wording and layout, authentication, the
assistant, the web application and the schema's migrations: pure functions with
unit tests, input and output, or code without shared state. They are the larger part of
the code by lines. The window limiter, the price cache and FX are read-through
caches whose only shared state is one upsert per key. Of modelled parts, what is
left out is under "Simplifications" above and in the notes of the components in
`PROJECT.json`.
