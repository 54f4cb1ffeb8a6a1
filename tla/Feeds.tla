------------------------------- MODULE Feeds --------------------------------
(***************************************************************************)
(* The chain of market-data providers and its circuit breaker              *)
(* (packages/market-data/src/service.ts).  Providers are numbered in the   *)
(* order of their registration.                                            *)
(*                                                                         *)
(* A run of getQuotes has a few workers, which share a count of failures;  *)
(* Outside is a lookup beside the run, such as a page of one instrument.   *)
(* Each of them lists the providers that are not blocked when it begins,   *)
(* and asks one after the other until one has a quote.                     *)
(***************************************************************************)
EXTENDS Integers, FiniteSets, FiniteSetsExt

CONSTANTS
    NProviders,
    Probed,        \* providers with a usage endpoint and a daily cap (quotaProbe)
    QuoteWorkers,  \* QUOTE_CONCURRENCY of them
    Outside,
    Quotes,        \* instruments of a run
    Budget,        \* PROVIDER_ERROR_BUDGET
    Cooldown,      \* RATE_LIMIT_COOLDOWN_MS, in ticks of the clock
    DayLength,     \* ticks from one UTC midnight to the next
    LastTick       \* bound: where the clock stops

ASSUME LengthsAssumption ==
    /\ NProviders \in Nat /\ Probed \subseteq 1 .. NProviders
    /\ {Quotes, Budget, Cooldown, LastTick} \subseteq Nat /\ DayLength \in Nat \ {0}
    /\ Outside \notin QuoteWorkers
    /\ IsFiniteSet(QuoteWorkers) /\ QuoteWorkers # {}

VARIABLES
    now,           \* Date.now
    blockedUntil,  \* per provider: when it is asked again, and why not before
    lastProbeAt,   \* per provider: the probe, and whether its answer is awaited
    left,          \* instruments of the run no worker has taken
    errors,        \* failures of each provider in this run
    lookup,        \* whom a worker asks, and whom it would ask then
    wasted,        \* history: calls begun under the block that stands
    cooling        \* history: until when the last 429 paused a provider

feedVars == <<now, blockedUntil, lastProbeAt, left, errors, lookup, wasted, cooling>>

-----------------------------------------------------------------------------
Providers == 1 .. NProviders
Lookups   == QuoteWorkers \cup {Outside}
LastUntil == LastTick + Cooldown + DayLength
Nobody    == 0
Resting   == [asks |-> Nobody, rest |-> {}]

FeedsTypeOK ==
    /\ now \in 0 .. LastTick
    /\ blockedUntil \in [Providers -> [until: 0 .. LastUntil, reason: {"quota", "rate"}]]
    /\ lastProbeAt \in [Probed -> [at: 0 .. LastTick + 1, awaited: BOOLEAN]]
    /\ left \in 0 .. Quotes
    /\ errors \in [Providers -> Nat]
    /\ lookup \in [Lookups -> [asks: Providers \cup {Nobody}, rest: SUBSET Providers]]
    /\ wasted \in [Providers -> Nat] /\ cooling \in [Providers -> 0 .. LastUntil]

NeverProbed == LastTick + 1

FeedsInit ==
    /\ now = 0 /\ left = 0
    /\ blockedUntil = [p \in Providers |-> [until |-> 0, reason |-> "quota"]]
    /\ lastProbeAt = [p \in Probed |-> [at |-> NeverProbed, awaited |-> FALSE]]
    /\ errors = [p \in Providers |-> 0]
    /\ lookup = [l \in Lookups |-> Resting]
    /\ wasted = [p \in Providers |-> 0] /\ cooling = [p \in Providers |-> 0]

Passes ==
    /\ now < LastTick /\ now' = now + 1
    /\ UNCHANGED <<blockedUntil, lastProbeAt, left, errors, lookup, wasted, cooling>>

-----------------------------------------------------------------------------
(* The breaker.                                                            *)

IsBlocked(p) == blockedUntil[p].until > now
NextUtcMidnight(t) == ((t \div DayLength) + 1) * DayLength

Blocked(p, until, reason) ==
    /\ blockedUntil' = [blockedUntil EXCEPT ![p] = [until |-> until, reason |-> reason]]
    /\ cooling' = IF reason = "rate" THEN [cooling EXCEPT ![p] = until] ELSE cooling

(* A block that stands is kept as it is.                                   *)
ProviderFailed(p, status) ==
    IF IsBlocked(p) THEN UNCHANGED <<blockedUntil, cooling>>
    ELSE IF status = 402 THEN Blocked(p, NextUtcMidnight(now), "quota")
    ELSE IF status = 429 /\ p \in Probed THEN Blocked(p, now + Cooldown, "rate")
    ELSE UNCHANGED <<blockedUntil, cooling>>

Probes(p) ==
    /\ ~lastProbeAt[p].awaited /\ lastProbeAt[p].at # now
    /\ lastProbeAt' = [lastProbeAt EXCEPT ![p] = [at |-> now, awaited |-> TRUE]]
    /\ UNCHANGED <<now, blockedUntil, left, errors, lookup, wasted, cooling>>

ProbeAnswered(p) == lastProbeAt' = [lastProbeAt EXCEPT ![p].awaited = FALSE]

(* The block ends at the midnight after the probe was begun.               *)
QuotaUsedUp(p) ==
    /\ lastProbeAt[p].awaited /\ ProbeAnswered(p)
    /\ IF IsBlocked(p) THEN UNCHANGED <<blockedUntil, cooling, wasted>>
       ELSE /\ Blocked(p, NextUtcMidnight(lastProbeAt[p].at), "quota")
            /\ wasted' = [wasted EXCEPT ![p] = 0]
    /\ UNCHANGED <<now, left, errors, lookup>>

LiftedAnyBlock(p) == TRUE                \* bug: a cooldown is lifted as well
MayLift(p) == blockedUntil[p].reason = "quota"

HasHeadroom(p) ==
    /\ lastProbeAt[p].awaited /\ ProbeAnswered(p)
    /\ blockedUntil' = IF MayLift(p) THEN [blockedUntil EXCEPT ![p].until = 0] ELSE blockedUntil
    /\ UNCHANGED <<now, left, errors, lookup, wasted, cooling>>

(* A slow, failed or unreadable answer.                                    *)
ProbeFails(p) ==
    /\ lastProbeAt[p].awaited /\ ProbeAnswered(p)
    /\ UNCHANGED <<now, blockedUntil, left, errors, lookup, wasted, cooling>>

-----------------------------------------------------------------------------
(* The chain.  Between an answer and the next question nothing is awaited; *)
(* the list is the one taken at the start.                                 *)

ProvidersForAll == Providers             \* bug: blocked ones are listed, too
ProvidersFor == {p \in Providers : ~IsBlocked(p)}

(* A provider past its budget is skipped by the workers of the run.        *)
WithinBudget(l, p, failures) == l = Outside \/ failures[p] < Budget

Ahead(l, rest, failures) ==
    LET open == {p \in rest : WithinBudget(l, p, failures)}
    IN  IF open = {} THEN Resting
        ELSE [asks |-> Min(open), rest |-> {p \in rest : p > Min(open)}]

RunStarts ==
    /\ left = 0 /\ \A w \in QuoteWorkers : lookup[w] = Resting
    /\ left' = Quotes /\ errors' = [p \in Providers |-> 0]
    /\ UNCHANGED <<now, blockedUntil, lastProbeAt, lookup, wasted, cooling>>

Begins(l) ==
    /\ lookup[l] = Resting
    /\ IF l = Outside THEN UNCHANGED left ELSE left > 0 /\ left' = left - 1
    /\ lookup' = [lookup EXCEPT ![l] = Ahead(l, ProvidersFor, errors)]
    /\ UNCHANGED <<now, blockedUntil, lastProbeAt, errors, wasted, cooling>>

Finds(l) ==
    /\ lookup[l].asks # Nobody
    /\ lookup' = [lookup EXCEPT ![l] = Resting]
    /\ UNCHANGED <<now, blockedUntil, lastProbeAt, left, errors, wasted, cooling>>

(* wasted of a block that has just been set counts from this call on.      *)
Counted(next) ==
    [p \in Providers |->
        (IF ~IsBlocked(p) THEN 0 ELSE wasted[p])
        + (IF p = next /\ IsBlocked(p) THEN 1 ELSE 0)]

FindsNothing(l) ==
    /\ lookup[l].asks # Nobody
    /\ LET next == Ahead(l, lookup[l].rest, errors)
       IN  lookup' = [lookup EXCEPT ![l] = next] /\ wasted' = Counted(next.asks)
    /\ UNCHANGED <<now, blockedUntil, lastProbeAt, left, errors, cooling>>

Fails(l, status) ==
    LET p        == lookup[l].asks
        failures == IF l = Outside THEN errors ELSE [errors EXCEPT ![p] = @ + 1]
        next     == Ahead(l, lookup[l].rest, failures)
    IN  /\ p # Nobody
        /\ ProviderFailed(p, status)
        /\ errors' = failures
        /\ lookup' = [lookup EXCEPT ![l] = next] /\ wasted' = Counted(next.asks)
        /\ UNCHANGED <<now, lastProbeAt, left>>

FeedsNext ==
    \/ Passes \/ RunStarts
    \/ \E p \in Probed : Probes(p) \/ QuotaUsedUp(p) \/ HasHeadroom(p) \/ ProbeFails(p)
    \/ \E l \in Lookups :
          \/ Begins(l) \/ Finds(l) \/ FindsNothing(l)
          \/ \E status \in {402, 429, 500} : Fails(l, status)

FeedsSpec == FeedsInit /\ [][FeedsNext]_feedVars

-----------------------------------------------------------------------------
(* A probe may lift a quota block but never a 429 cooldown                 *)
(* (service.ts:67-70), even one that began before the cooldown.            *)
CooldownKept == \A p \in Providers : now < cooling[p] => IsBlocked(p)

(* One dead upstream costs a run its budget and the calls that were under  *)
(* way when the budget ran out (service.ts:176-179), and a blocked one     *)
(* costs a call for each lookup that had listed it before                  *)
(* (service.ts:104-110).                                                   *)
FailuresBounded ==
    \A p \in Providers :
        /\ errors[p] < Budget + Cardinality(QuoteWorkers)
        /\ IsBlocked(p) => wasted[p] <= Cardinality(Lookups)
=============================================================================
