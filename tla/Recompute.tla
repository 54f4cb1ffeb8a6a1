----------------------------- MODULE Recompute ------------------------------
(***************************************************************************)
(* The history of a portfolio after its transactions change                *)
(* (enqueueRecompute, the recompute worker and backfillPortfolioHistory).  *)
(*                                                                         *)
(* A change of a day commits and then sends a job that rewrites the        *)
(* snapshots from that day on.  The queue takes one job per portfolio and  *)
(* time slot and drops the others; a dropped send sends a follow-up of its *)
(* own day instead, which starts when the slot is over, and of these one   *)
(* per day and slot is taken.  Workers and planners write the same rows    *)
(* under the lock of the portfolio; the daily job writes the row of today  *)
(* without it.                                                             *)
(*                                                                         *)
(* What is written is abstracted to the changes that had committed when    *)
(* the writer read the transactions.  The portfolio has transactions older *)
(* than the first day here, so that a window starts at the day of its job. *)
(* gaveUp is history.                                                      *)
(***************************************************************************)
EXTENDS Integers, Sequences, FiniteSets

CONSTANTS
    Changes,      \* committed mutations of transactions
    Backfills,    \* bound: runs of the backfill planner
    Today,        \* the last day; the first is 1
    RetryLimit,   \* of the recompute queue
    MaxFaults     \* bound: failed sends, throws, expiries and restarts

ASSUME BoundsAssumption ==
    /\ Today \in Nat \ {0} /\ RetryLimit \in Nat /\ MaxFaults \in Nat
    /\ Changes \cap Backfills = {}

VARIABLES
    day,          \* the day each change touches
    send,         \* where enqueueRecompute of each change is
    slot,         \* what the throttle of the current time slot holds
    job,          \* the jobs, each named by the change that sent it
    busy,         \* the delivery the worker awaits
    run,          \* the deliveries: handlers of the worker, and planners
    queue, holds, \* the lock of the portfolio
    snap,         \* portfolio_snapshots as the writers under the lock left it
    today,        \* the row of today
    cron,         \* the daily job
    faults,       \* what the bound counts
    gaveUp        \* history: changes whose recompute was given up

lockVars == <<queue, holds>>
vars == <<day, send, slot, job, busy, run, queue, holds, snap, today, cron,
          faults, gaveUp>>

-----------------------------------------------------------------------------
Days  == 1 .. Today
Calls == (Changes \X (0 .. RetryLimit)) \cup (Backfills \X {0})
None  == <<>>                           \* the worker awaits nothing

Portfolio == "portfolio"                \* the one modelled here
Lock == INSTANCE FifoLock WITH Portfolios <- {Portfolio}

SendState == {"none", "committed", "dropped", "sent", "lost"}
JobState  == {"none", "deferred", "waiting", "active", "over"}
RunState  == {"off", "asked", "read", "ended"}

TypeOK ==
    /\ day \in [Changes -> Days]
    /\ send \in [Changes -> SendState]
    /\ slot \in [main: BOOLEAN, follow: SUBSET Days]
    /\ job \in [Changes -> [state: JobState, try: 0 .. RetryLimit]]
    /\ busy \in Calls \cup {None}
    /\ run \in [Calls -> [pc: RunState, read: SUBSET Changes]]
    /\ queue \in [{Portfolio} -> Seq(Calls)] /\ holds \subseteq Calls
    /\ snap \in [Days -> SUBSET Changes]
    /\ today \subseteq Changes
    /\ cron \in [pc: {"off", "read"}, read: SUBSET Changes, wrote: SUBSET Changes]
    /\ faults \in 0 .. MaxFaults
    /\ gaveUp \subseteq Changes

Made == {c \in Changes : send[c] # "none"}

Init ==
    /\ day \in [Changes -> Days]
    /\ send = [c \in Changes |-> "none"]
    /\ slot = [main |-> FALSE, follow |-> {}]
    /\ job = [c \in Changes |-> [state |-> "none", try |-> 0]]
    /\ busy = None
    /\ run = [h \in Calls |-> [pc |-> "off", read |-> {}]]
    /\ Lock!LockInit
    /\ snap = [x \in Days |-> {}] /\ today = {}
    /\ cron = [pc |-> "off", read |-> {}, wrote |-> {}]
    /\ faults = 0 /\ gaveUp = {}

Faulty == faults < MaxFaults /\ faults' = faults + 1

-----------------------------------------------------------------------------
(* A route changes a transaction and calls enqueueRecompute.               *)

Commit(c) ==
    /\ send[c] = "none"
    /\ send' = [send EXCEPT ![c] = "committed"]
    /\ UNCHANGED <<day, slot, job, busy, run, lockVars, snap, today, cron, faults, gaveUp>>

(* The first send, throttled per portfolio: ON CONFLICT DO NOTHING.        *)
SendTaken(c) ==
    /\ send[c] = "committed" /\ ~slot.main
    /\ slot' = [slot EXCEPT !.main = TRUE]
    /\ job' = [job EXCEPT ![c].state = "waiting"]
    /\ send' = [send EXCEPT ![c] = "sent"]
    /\ UNCHANGED <<day, busy, run, lockVars, snap, today, cron, faults, gaveUp>>

AfterDropNothing == "sent"                    \* bug: a dropped send is final
AfterDrop == "dropped"

SendDropped(c) ==
    /\ send[c] = "committed" /\ slot.main
    /\ send' = [send EXCEPT ![c] = AfterDrop]
    /\ UNCHANGED <<day, slot, job, busy, run, lockVars, snap, today, cron, faults, gaveUp>>

(* The follow-up, delayed past the slot and throttled per day.             *)
FollowUpState == "deferred"
Absorbed(c) == day[c] \in slot.follow

FollowUpTaken(c) ==
    /\ send[c] = "dropped" /\ ~Absorbed(c)
    /\ slot' = [slot EXCEPT !.follow = @ \cup {day[c]}]
    /\ job' = [job EXCEPT ![c].state = FollowUpState]
    /\ send' = [send EXCEPT ![c] = "sent"]
    /\ UNCHANGED <<day, busy, run, lockVars, snap, today, cron, faults, gaveUp>>

FollowUpAbsorbed(c) ==
    /\ send[c] = "dropped" /\ Absorbed(c)
    /\ send' = [send EXCEPT ![c] = "sent"]
    /\ UNCHANGED <<day, slot, job, busy, run, lockVars, snap, today, cron, faults, gaveUp>>

(* Either send throws, and the exception is swallowed.                     *)
SendFails(c) ==
    /\ send[c] \in {"committed", "dropped"} /\ Faulty
    /\ send' = [send EXCEPT ![c] = "lost"]
    /\ UNCHANGED <<day, slot, job, busy, run, lockVars, snap, today, cron, gaveUp>>

(* The clock enters the next slot; by then the follow-ups may start.       *)
SlotEnds ==
    /\ slot.main \/ slot.follow # {}
    /\ slot' = [main |-> FALSE, follow |-> {}]
    /\ job' = [c \in Changes |->
          IF job[c].state = "deferred" THEN [job[c] EXCEPT !.state = "waiting"] ELSE job[c]]
    /\ UNCHANGED <<day, send, busy, run, lockVars, snap, today, cron, faults, gaveUp>>

-----------------------------------------------------------------------------
(* The worker, and the planner of a backfill.                              *)

From(h) == IF h[1] \in Changes THEN day[h[1]] ELSE 1

(* The worker takes one job at a time; its handler asks for the lock.      *)
JobStarts(c) ==
    LET h == <<c, job[c].try>> IN
    /\ job[c].state = "waiting" /\ busy = None
    /\ job' = [job EXCEPT ![c].state = "active"]
    /\ busy' = h
    /\ run' = [run EXCEPT ![h].pc = "asked"]
    /\ Lock!Enter(h, Portfolio)
    /\ UNCHANGED <<day, send, slot, snap, today, cron, faults, gaveUp>>

BackfillStarts(b) ==
    LET h == <<b, 0>> IN
    /\ run[h].pc = "off"
    /\ run' = [run EXCEPT ![h].pc = "asked"]
    /\ Lock!Enter(h, Portfolio)
    /\ UNCHANGED <<day, send, slot, job, busy, snap, today, cron, faults, gaveUp>>

LockGranted(h) ==
    /\ Lock!Acquire(h, Portfolio)
    /\ UNCHANGED <<day, send, slot, job, busy, run, snap, today, cron, faults, gaveUp>>

(* loadBackfillContext reads the transactions, once.                       *)
MayReadAtOnce(h) == TRUE                      \* bug: reads, then asks for the lock
MayRead(h) == h \in holds

Read(h) ==
    /\ run[h].pc = "asked" /\ MayRead(h)
    /\ run' = [run EXCEPT ![h] = [pc |-> "read", read |-> Made]]
    /\ UNCHANGED <<day, send, slot, job, busy, lockVars, snap, today, cron, faults, gaveUp>>

(* The handler is over: the lock goes to the next; the delivery of a job   *)
(* the worker still awaits is acknowledged, retried or given up.           *)
Ends(h) ==
    /\ run' = [run EXCEPT ![h] = [pc |-> "ended", read |-> {}]]
    /\ Lock!Release(h, Portfolio)
    /\ busy' = IF busy = h THEN None ELSE busy
    /\ UNCHANGED <<day, send, slot, cron>>

SameDay(c)  == {e \in Made : day[e] = day[c]}
Done(c)     == job' = [job EXCEPT ![c].state = "over"] /\ UNCHANGED gaveUp
GivesUp(c)  == /\ job' = [job EXCEPT ![c].state = "over"]
               /\ gaveUp' = gaveUp \cup SameDay(c)
RetriedSwallowed(c) == Done(c)                \* bug: the handler logs and swallows
RetriedCountedTwice(c) ==                     \* bug: counted at the start and at the end
    \/ /\ job[c].try < RetryLimit
       /\ job' = [job EXCEPT ![c] = [state |-> "waiting", try |-> @.try + 2]]
       /\ UNCHANGED gaveUp
    \/ job[c].try = RetryLimit /\ GivesUp(c)
Retried(c)  ==
    \/ /\ job[c].try < RetryLimit
       /\ job' = [job EXCEPT ![c] = [state |-> "waiting", try |-> @.try + 1]]
       /\ UNCHANGED gaveUp
    \/ job[c].try = RetryLimit /\ GivesUp(c)

Settles(h, Outcome(_)) ==
    IF busy = h THEN Outcome(h[1]) ELSE UNCHANGED <<job, gaveUp>>

(* The rows from its day up to the last chunk written.                     *)
WritesUpTo(h, last) ==
    /\ snap' = [x \in Days |->
          IF x \in From(h) .. last THEN {c \in run[h].read : day[c] <= x} ELSE snap[x]]
    /\ today' = IF last = Today THEN run[h].read ELSE today

Write(h) ==
    /\ run[h].pc = "read" /\ Ends(h)
    /\ WritesUpTo(h, Today)
    /\ Settles(h, Done)
    /\ UNCHANGED faults

(* An exchange rate is missing: nothing is written and nothing thrown.     *)
WritesNothing(h) ==
    /\ run[h].pc = "read" /\ Ends(h) /\ Faulty
    /\ Settles(h, GivesUp)
    /\ UNCHANGED <<snap, today>>

(* A provider or a statement fails, after some chunks of rows or none.     *)
Throws(h) ==
    /\ run[h].pc = "read" /\ Ends(h) /\ Faulty
    /\ \E last \in (From(h) - 1) .. (Today - 1) : WritesUpTo(h, last)
    /\ Settles(h, Retried)

(* The queue gives up on a handler, which goes on under its lock.          *)
Expires ==
    /\ busy # None /\ Faulty
    /\ busy' = None
    /\ Retried(busy[1])
    /\ UNCHANGED <<day, send, slot, run, lockVars, snap, today, cron>>

(* Everything in the process is gone: handlers, lock, requests under way.  *)
Restart ==
    /\ Faulty
    /\ send' = [c \in Changes |->
          IF send[c] \in {"committed", "dropped"} THEN "lost" ELSE send[c]]
    /\ run' = [h \in Calls |->
          IF run[h].pc = "off" THEN run[h] ELSE [pc |-> "ended", read |-> {}]]
    /\ queue' = [p \in {Portfolio} |-> <<>>] /\ holds' = {}
    /\ busy' = None
    /\ IF busy = None THEN UNCHANGED <<job, gaveUp>> ELSE Retried(busy[1])
    /\ cron' = [cron EXCEPT !.pc = "off", !.read = {}]
    /\ UNCHANGED <<day, slot, snap, today>>

-----------------------------------------------------------------------------
(* recordDailySnapshots: values the portfolio, then writes today's row.    *)

CronReads ==
    /\ cron.pc = "off"
    /\ cron' = [cron EXCEPT !.pc = "read", !.read = Made]
    /\ UNCHANGED <<day, send, slot, job, busy, run, lockVars, snap, today, faults, gaveUp>>

CronWrites ==
    /\ cron.pc = "read"
    /\ today' = cron.read
    /\ cron' = [pc |-> "off", read |-> {}, wrote |-> cron.read]
    /\ UNCHANGED <<day, send, slot, job, busy, run, lockVars, snap, faults, gaveUp>>

-----------------------------------------------------------------------------
Sends(c) ==
    \/ Commit(c) \/ SendTaken(c) \/ SendDropped(c)
    \/ FollowUpTaken(c) \/ FollowUpAbsorbed(c) \/ SendFails(c)

Handles(h) ==
    LockGranted(h) \/ Read(h) \/ Write(h) \/ WritesNothing(h) \/ Throws(h)

Next ==
    \/ \E c \in Changes : Sends(c) \/ JobStarts(c)
    \/ \E b \in Backfills : BackfillStarts(b)
    \/ \E h \in Calls : Handles(h)
    \/ SlotEnds \/ Expires \/ Restart
    \/ CronReads \/ CronWrites

(* A request goes on to its sends, the clock goes on, the queue hands out  *)
(* its jobs, and the handler whose turn it is goes on.                     *)
Fairness ==
    /\ \A c \in Changes :
          WF_vars(SendTaken(c) \/ SendDropped(c) \/ FollowUpTaken(c) \/ FollowUpAbsorbed(c))
    /\ WF_vars(SlotEnds)
    /\ WF_vars(\E c \in Changes : JobStarts(c))
    /\ WF_vars(\E h \in Calls : LockGranted(h) \/ Read(h) \/ Write(h))

Spec == Init /\ [][Next]_vars /\ Fairness

-----------------------------------------------------------------------------
(* A run that will still account for change c: one not read yet, or one    *)
(* that has read c and has not written.                                    *)
WillShow(h, c) ==
    \/ run[h].pc = "asked"
    \/ run[h].pc = "read" /\ c \in run[h].read

Pending(e, c) ==
    \/ job[e].state \in {"deferred", "waiting"}
    \/ job[e].state = "active" /\ WillShow(<<e, job[e].try>>, c)

Shown(c) == \A x \in day[c] .. Today : c \in snap[x]

(* No recompute is lost on its way: a change whose send was taken, or      *)
(* absorbed by a follow-up of its day, is in the snapshots, or a job of    *)
(* its day will still read it (enqueue.ts:104-111).                        *)
NoChangeForgotten ==
    \A c \in Changes :
        send[c] = "sent" /\ c \notin gaveUp =>
            Shown(c) \/ \E e \in Changes : day[e] = day[c] /\ Pending(e, c)

(* ... and in the end it is, unless the process died before the send, the  *)
(* send failed, or the retries of the job did (recompute.ts:7-12).         *)
EveryChangeShown ==
    \A c \in Changes :
        (send[c] # "none") ~> (Shown(c) \/ send[c] = "lost" \/ c \in gaveUp)

(* Writers under the lock never put back an older state of the portfolio   *)
(* (portfolio-lock.ts:1-9).  In today's row they may undo what only the    *)
(* daily job, which takes no lock, had written.                            *)
NoStaleOverwrite ==
    [][/\ \A x \in Days : snap[x] \subseteq snap'[x]
       /\ cron' = cron => today \subseteq today' \cup cron.wrote]_vars
=============================================================================
