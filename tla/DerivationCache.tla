-------------------------- MODULE DerivationCache ---------------------------
(***************************************************************************)
(* The caches of derived figures (lib/derivation-cache.ts, and the two of  *)
(* services/valuation.ts), one key of each: valuations keeps the promise   *)
(* of a computation from the moment it starts, tradeLogs the value of one  *)
(* that has ended.                                                         *)
(*                                                                         *)
(* A read of the tax page takes the valuation, then the trade log that is  *)
(* computed from it.  A request that writes flushes both caches when its   *)
(* response is out; a queue worker writes without a flush.  What a read    *)
(* gets is the set of writes its figures include.  owes is history: the    *)
(* writes a read has to include, fixed when it starts.                     *)
(***************************************************************************)
EXTENDS Naturals

CONSTANTS
    ByRequest, ByWorker,   \* writes, each made once
    Reads,                 \* reads, each made once
    TTL,                   \* DERIVATION_CACHE_TTL_MS, in ticks of the clock
    Horizon,               \* bound: the last tick
    Nobody                 \* no entry

ASSUME CacheAssumption == TTL \in Nat /\ Horizon \in Nat /\ Nobody \notin Reads

VARIABLES
    clock,
    made,                  \* the tick of each write that has committed
    flushed,               \* writes of requests whose response is out
    valuations,            \* the entry: the read whose promise it holds, its expiry
    tradeLogs,             \* the entry: the writes its value includes, its expiry
    read,                  \* the reads
    owes                   \* history

cacheVars == <<clock, made, flushed, valuations, tradeLogs, read, owes>>

-----------------------------------------------------------------------------
AllWrites == ByRequest \cup ByWorker
Ticks  == 0 .. Horizon
Later  == Horizon + 1                  \* not yet committed

CommittedWrites == {w \in AllWrites : made[w] # Later}

CacheTypeOK ==
    /\ clock \in Ticks /\ made \in [AllWrites -> 0 .. Later] /\ flushed \subseteq ByRequest
    /\ valuations \in [of: Reads \cup {Nobody}, until: 0 .. Horizon + TTL]
    /\ tradeLogs \in [holds: SUBSET AllWrites, until: 0 .. Horizon + TTL]
    /\ read \in [Reads -> [pc: {"new", "computes", "awaits", "valued", "derives",
                                "over", "failed"},
                           on: Reads \cup {Nobody}, got: SUBSET AllWrites,
                           queried: BOOLEAN, since: Ticks, log: SUBSET AllWrites]]
    /\ owes \in [Reads -> SUBSET AllWrites]

NoEntry == [of |-> Nobody, until |-> 0]
NoLog   == [holds |-> {}, until |-> 0]

CacheInit ==
    /\ clock = 0 /\ made = [w \in AllWrites |-> Later] /\ flushed = {}
    /\ valuations = NoEntry /\ tradeLogs = NoLog
    /\ read = [r \in Reads |-> [pc |-> "new", on |-> Nobody, got |-> {}, queried |-> FALSE,
                                since |-> 0, log |-> {}]]
    /\ owes = [r \in Reads |-> {}]

Tick ==
    /\ clock < Horizon /\ clock' = clock + 1
    /\ UNCHANGED <<made, flushed, valuations, tradeLogs, read, owes>>

-----------------------------------------------------------------------------
(* Writes, and the onResponse hook.                                        *)
Commit(w) ==
    /\ w \notin CommittedWrites
    /\ made' = [made EXCEPT ![w] = clock]
    /\ UNCHANGED <<clock, flushed, valuations, tradeLogs, read, owes>>

ClearedIfSettled ==                    \* bug: a pending promise is left in place
    IF valuations.of # Nobody /\ read[valuations.of].pc = "computes"
    THEN valuations ELSE NoEntry
Cleared == NoEntry

Flush(w) ==
    /\ w \in (CommittedWrites \cap ByRequest) \ flushed
    /\ flushed' = flushed \cup {w}
    /\ valuations' = Cleared /\ tradeLogs' = NoLog
    /\ UNCHANGED <<clock, made, read, owes>>

-----------------------------------------------------------------------------
(* A read finds a promise, or puts its own in the map before the           *)
(* computation has read anything.                                          *)
Fresh(until) == until > clock

Owed == flushed \cup {w \in CommittedWrites : made[w] + TTL <= clock}

Hits(r) ==
    /\ read[r].pc = "new" /\ valuations.of # Nobody /\ Fresh(valuations.until)
    /\ read' = [read EXCEPT ![r].pc = "awaits", ![r].on = valuations.of]
    /\ owes' = [owes EXCEPT ![r] = Owed]
    /\ UNCHANGED <<clock, made, flushed, valuations, tradeLogs>>

Misses(r) ==
    /\ read[r].pc = "new" /\ ~(valuations.of # Nobody /\ Fresh(valuations.until))
    /\ valuations' = [of |-> r, until |-> clock + TTL]
    /\ read' = [read EXCEPT ![r].pc = "computes"]
    /\ owes' = [owes EXCEPT ![r] = Owed]
    /\ UNCHANGED <<clock, made, flushed, tradeLogs>>

Queries(r) ==
    /\ read[r].pc = "computes" /\ ~read[r].queried
    /\ read' = [read EXCEPT ![r].queried = TRUE, ![r].got = CommittedWrites]
    /\ UNCHANGED <<clock, made, flushed, valuations, tradeLogs, owes>>

(* The promise settles, and every read that awaits it goes on in a turn of *)
(* its own, at once if the promise had settled before.                     *)
Computes(r) ==
    /\ read[r].pc = "computes" /\ read[r].queried
    /\ read' = [read EXCEPT ![r].pc = "valued"]
    /\ UNCHANGED <<clock, made, flushed, valuations, tradeLogs, owes>>

DroppedOnFailure(r) == IF valuations.of = r THEN NoEntry ELSE valuations

Fails(r) ==
    /\ read[r].pc = "computes"
    /\ read' = [read EXCEPT ![r].pc = "failed"]
    /\ valuations' = DroppedOnFailure(r)
    /\ UNCHANGED <<clock, made, flushed, tradeLogs, owes>>

Resumes(r) ==
    /\ read[r].pc = "awaits" /\ read[read[r].on].pc # "computes"
    /\ read' = IF read[read[r].on].pc = "failed"
               THEN [read EXCEPT ![r].pc = "failed"]
               ELSE [read EXCEPT ![r].pc = "valued", ![r].got = read[read[r].on].got]
    /\ UNCHANGED <<clock, made, flushed, valuations, tradeLogs, owes>>

-----------------------------------------------------------------------------
(* getCachedFifoTradeLog: the value is stored after an await.              *)
LogHits(r) ==
    /\ read[r].pc = "valued" /\ Fresh(tradeLogs.until)
    /\ read' = [read EXCEPT ![r].pc = "over", ![r].log = tradeLogs.holds]
    /\ UNCHANGED <<clock, made, flushed, valuations, tradeLogs, owes>>

LogMisses(r) ==
    /\ read[r].pc = "valued" /\ ~Fresh(tradeLogs.until)
    /\ read' = [read EXCEPT ![r].pc = "derives", ![r].since = clock]
    /\ UNCHANGED <<clock, made, flushed, valuations, tradeLogs, owes>>

Derives(r) ==
    /\ read[r].pc = "derives"
    /\ tradeLogs' = [holds |-> read[r].got, until |-> read[r].since + TTL]
    /\ read' = [read EXCEPT ![r].pc = "over", ![r].log = read[r].got]
    /\ UNCHANGED <<clock, made, flushed, valuations, owes>>

CacheNext ==
    \/ Tick
    \/ \E w \in AllWrites : Commit(w) \/ Flush(w)
    \/ \E r \in Reads :
          \/ Hits(r) \/ Misses(r) \/ Queries(r) \/ Computes(r) \/ Fails(r)
          \/ Resumes(r) \/ LogHits(r) \/ LogMisses(r) \/ Derives(r)

CacheSpec == CacheInit /\ [][CacheNext]_cacheVars

-----------------------------------------------------------------------------
(* A read gets valuations that include every write whose response was out, *)
(* and every write of a worker a time to live ago, when the read began,    *)
(* although the promise it gets may be older than the write or the flush   *)
(* (app.ts:293-302, valuation.ts:291-297).                                 *)
ValuedReads == {r \in Reads : read[r].pc \in {"valued", "derives", "over"}}

ValuationsAreFresh == \A r \in ValuedReads : owes[r] \subseteq read[r].got

(* The same for the trade log, "never a staleness risk" (app.ts:302).      *)
TradeLogsAreFresh ==
    \A r \in Reads : read[r].pc = "over" => owes[r] \subseteq read[r].log
=============================================================================
