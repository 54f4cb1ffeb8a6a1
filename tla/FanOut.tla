------------------------------- MODULE FanOut -------------------------------
(***************************************************************************)
(* The backfill of one portfolio's price history, fanned out over its      *)
(* instruments (services/backfill/fan-out.ts and two workers of            *)
(* services/scheduler.ts).                                                 *)
(*                                                                         *)
(* A planner claims one coordination row per instrument, sends one sub-job *)
(* per row, and polls the rows until all are done; then it computes the    *)
(* snapshots.  A sub-job fetches prices and writes done, or failed on its  *)
(* last attempt, to the row it names.  Planner and sub-job meet only in    *)
(* the table and in the queue, and the queue repeats both: a planner that  *)
(* threw or died is started again while sub-jobs of its former run are     *)
(* still under way, and it claims the same rows.                           *)
(*                                                                         *)
(* The last two variables are history.                                     *)
(***************************************************************************)
EXTENDS Integers, FiniteSets

CONSTANTS
    Instruments,  \* instruments the portfolio may hold
    Starts,       \* first days a chunk may have
    Planners,     \* bound: deliveries of the portfolio's job under way at once
    RetryLimit,   \* of the instrument queue
    MaxClaims,    \* bound: runs of the planner
    MaxFaults     \* bound: restarts, and sub-job handlers the queue gives up on

ASSUME BoundsAssumption ==
    RetryLimit \in Nat /\ MaxClaims \in Nat /\ MaxFaults \in Nat

VARIABLES
    oneProcess,  \* is there one worker process, as deployed, or several?
    row,         \* backfill_jobs
    planner,     \* the planners
    jobs,        \* sub-jobs in the queue and their handlers
    counts,      \* what the bounds count
    fed,         \* history: rows fetched under the claim that stands
    raced        \* history: rows claimed over a sub-job still under way

vars == <<oneProcess, row, planner, jobs, counts, fed, raced>>

-----------------------------------------------------------------------------
Key    == Instruments \X Starts     \* the unique index, the portfolio being fixed
Claims == 0 .. MaxClaims            \* claimedAt, as the number of the run
Status == {"pending", "done", "failed"}

(* The id of a row is the claim that inserted it; 0 is no row.             *)
RowType     == [id: Claims, claim: Claims, status: Status, old: BOOLEAN]
PlannerType == [pc: {"off", "planning", "sending", "polling",
                     "cleaning", "snapshots"},
                claim: Claims, plan: SUBSET Key, todo: SUBSET Key,
                ids: [Key -> Claims],
                verdict: {"none", "success", "failed", "timeout"}]
JobType     == [key: Key, id: Claims, claim: Claims, try: 0 .. RetryLimit,
                pc: {"waiting", "fetching", "fetched"}, expired: BOOLEAN]

TypeOK ==
    /\ oneProcess \in BOOLEAN
    /\ row \in [Key -> RowType]
    /\ planner \in [Planners -> PlannerType]
    /\ jobs \subseteq JobType
    /\ counts \in [claims: Claims, faults: 0 .. MaxFaults]
    /\ fed \subseteq Key \X Claims
    /\ raced \subseteq Key \X Claims

NoRow == [id |-> 0, claim |-> 0, status |-> "pending", old |-> FALSE]
NoIds == [k \in Key |-> 0]
Off   == [pc |-> "off", claim |-> 0, plan |-> {}, todo |-> {}, ids |-> NoIds,
          verdict |-> "none"]

Init ==
    /\ oneProcess \in BOOLEAN
    /\ row = [k \in Key |-> NoRow]
    /\ planner = [p \in Planners |-> Off]
    /\ jobs = {}
    /\ counts = [claims |-> 0, faults |-> 0]
    /\ fed = {} /\ raced = {}

-----------------------------------------------------------------------------
(* Helpers.                                                                *)

At(p, pc)  == planner[p].pc = pc
Inside     == {p \in Planners : ~At(p, "off")}
Claim(p)   == planner[p].claim
Plan(p)    == planner[p].plan
Live       == {Claim(p) : p \in Inside}
Deleted(S) == row' = [k \in Key |-> IF k \in S THEN NoRow ELSE row[k]]

(* Where a planner ends, the claim it made is history.                     *)
Ends(p) ==
    /\ planner' = [planner EXCEPT ![p] = Off]
    /\ fed' = {f \in fed : f[2] # Claim(p)}
    /\ raced' = {f \in raced : f[2] # Claim(p)}

KeepsHistory == UNCHANGED <<fed, raced>>

-----------------------------------------------------------------------------
(* The planner.                                                            *)

(* withPortfolioLock is a promise chain of one process.                    *)
MayEnterAlways == TRUE                        \* bug: no lock around the handler
MayEnter == oneProcess => Inside = {}

(* The job is delivered for the first time, or again after its run threw.  *)
PlanStarts(p, held, start) ==
    /\ At(p, "off") /\ MayEnter
    /\ counts.claims < MaxClaims
    /\ counts' = [counts EXCEPT !.claims = @ + 1]
    /\ planner' = [planner EXCEPT ![p] =
          [Off EXCEPT !.pc = "planning", !.claim = counts.claims + 1,
                      !.plan = held \X {start}, !.todo = held \X {start}]]
    /\ UNCHANGED <<oneProcess, row, jobs, fed, raced>>

(* A portfolio without transactions, or a window that starts after today,  *)
(* leaves the planner with nothing to claim and nothing to reap.           *)
PlanNothing(p) ==
    /\ At(p, "off") /\ MayEnter
    /\ counts.claims < MaxClaims
    /\ counts' = [counts EXCEPT !.claims = @ + 1]
    /\ planner' = [planner EXCEPT ![p] =
          [Off EXCEPT !.pc = "snapshots", !.claim = counts.claims + 1]]
    /\ UNCHANGED <<oneProcess, row, jobs, fed, raced>>

(* INSERT ... ON CONFLICT DO UPDATE keeps the id of the row.               *)
UpsertedAsFound(k, c) ==                      \* bug: a leftover keeps its status
    IF row[k].id = 0 THEN [id |-> c, claim |-> c, status |-> "pending", old |-> FALSE]
    ELSE [row[k] EXCEPT !.claim = c, !.old = FALSE]
Upserted(k, c) ==
    [id |-> IF row[k].id = 0 THEN c ELSE row[k].id, claim |-> c,
     status |-> "pending", old |-> FALSE]

(* A sub-job that names row k is under way, or a planner will send it.     *)
WillSend(q, k) == At(q, "planning") \/ (At(q, "sending") /\ k \in planner[q].todo)
UnderWay(k) ==
    \/ \E j \in jobs : j.key = k /\ j.id = row[k].id
    \/ \E q \in Planners : WillSend(q, k) /\ row[k].id \in {planner[q].ids[k]} \ {0}

PlanUpsert(p, k) ==
    /\ At(p, "planning") /\ k \in planner[p].todo
    /\ row' = [row EXCEPT ![k] = Upserted(k, Claim(p))]
    /\ raced' = IF UnderWay(k) THEN raced \cup {<<k, Claim(p)>>} ELSE raced
    /\ planner' = [planner EXCEPT ![p].todo = @ \ {k},
                                  ![p].ids[k] = Upserted(k, Claim(p)).id]
    /\ UNCHANGED <<oneProcess, jobs, counts, fed>>

(* The orphan collection, then the first send or, without instruments,     *)
(* the snapshots.                                                          *)
OrphansOfAnyAge(p) == {k \in Key : k \notin Plan(p)}     \* bug: no age test
Orphans(p) == {k \in Key : k \notin Plan(p) /\ row[k].old}

Reap(p) ==
    /\ At(p, "planning") /\ planner[p].todo = {}
    /\ Deleted(Orphans(p))
    /\ planner' = [planner EXCEPT ![p].pc = IF Plan(p) = {} THEN "snapshots" ELSE "sending",
                                  ![p].todo = Plan(p)]
    /\ UNCHANGED <<oneProcess, jobs, counts>>
    /\ KeepsHistory

NewJob(p, k) == [key |-> k, id |-> planner[p].ids[k], claim |-> Claim(p), try |-> 0,
                 pc |-> "waiting", expired |-> FALSE]

(* The id is the one the upsert returned, whatever became of the row.      *)
Send(p, k) ==
    /\ At(p, "sending") /\ k \in planner[p].todo
    /\ jobs' = jobs \cup {NewJob(p, k)}
    /\ planner' = [planner EXCEPT ![p].todo = @ \ {k},
                                  ![p].pc = IF planner[p].todo = {k} THEN "polling" ELSE @]
    /\ UNCHANGED <<oneProcess, row, counts>>
    /\ KeepsHistory

(* Rows of the plan that still carry its claim: all a planner may delete.  *)
OwnRows(p) == {k \in Plan(p) : row[k].claim = Claim(p)}

(* A send fails: what was sent stays in the queue.                         *)
SendFails(p) ==
    /\ At(p, "sending")
    /\ \E gone \in {{}, OwnRows(p)} : Deleted(gone)
    /\ Ends(p)
    /\ UNCHANGED <<oneProcess, jobs, counts>>

(* What one look at the rows may conclude; the deadline comes first.       *)
Seen(p) ==
    IF OwnRows(p) # Plan(p) THEN {"lost"}
    ELSE IF \E k \in Plan(p) : row[k].status = "failed" THEN {"failed"}
    ELSE IF \A k \in Plan(p) : row[k].status = "done" THEN {"success"} ELSE {}
VerdictsUnbounded(p) == Seen(p)               \* bug: the loop has no deadline
Verdicts(p) == {"timeout"} \cup Seen(p)

PollDecides(p) ==
    /\ At(p, "polling")
    /\ \E v \in Verdicts(p) \ {"lost"} :
          planner' = [planner EXCEPT ![p].pc = "cleaning", ![p].verdict = v]
    /\ UNCHANGED <<oneProcess, row, jobs, counts>>
    /\ KeepsHistory

(* The rows were claimed or deleted by another run: they are left alone.   *)
PollLost(p) ==
    /\ At(p, "polling") /\ "lost" \in Verdicts(p)
    /\ Ends(p)
    /\ UNCHANGED <<oneProcess, row, jobs, counts>>

(* The queue gave up on the planner's job and aborts its signal.           *)
PollAborts(p) ==
    /\ At(p, "polling")
    /\ Ends(p)
    /\ UNCHANGED <<oneProcess, row, jobs, counts>>

(* The finally block: best effort, after a definite verdict all rows and   *)
(* after a timeout the done ones.                                          *)
Swept(p) ==
    IF planner[p].verdict = "timeout"
    THEN {k \in OwnRows(p) : row[k].status = "done"} ELSE OwnRows(p)

Clean(p) ==
    /\ At(p, "cleaning")
    /\ \E gone \in {{}, Swept(p)} : Deleted(gone)
    /\ IF planner[p].verdict = "success"
       THEN /\ planner' = [planner EXCEPT ![p].pc = "snapshots"]
            /\ UNCHANGED <<fed, raced>>
       ELSE Ends(p)
    /\ UNCHANGED <<oneProcess, jobs, counts>>

(* computeBackfillSnapshots, whether it succeeds or throws.                *)
Snapshots(p) ==
    /\ At(p, "snapshots")
    /\ Ends(p)
    /\ UNCHANGED <<oneProcess, row, jobs, counts>>

-----------------------------------------------------------------------------
(* The worker of the sub-jobs: one handler at a time in a process, beside  *)
(* those the queue no longer awaits.                                       *)

Working(j) == j.pc # "waiting" /\ ~j.expired
Busy       == {j \in jobs : Working(j)}

Becomes(j, S) == jobs' = (jobs \ {j}) \cup S

SubStarts(j) ==
    /\ j.pc = "waiting"
    /\ Cardinality(Busy) < (IF oneProcess THEN 1 ELSE Cardinality(Planners))
    /\ Becomes(j, {[j EXCEPT !.pc = "fetching"]})
    /\ UNCHANGED <<oneProcess, row, planner, counts>>
    /\ KeepsHistory

(* fetchInstrumentPrices; a provider that fails is counted, not thrown.    *)
SubFetches(j) ==
    /\ j.pc = "fetching"
    /\ Becomes(j, {[j EXCEPT !.pc = "fetched"]})
    /\ fed' = IF j.claim \in Live THEN fed \cup {<<j.key, j.claim>>} ELSE fed
    /\ UNCHANGED <<oneProcess, row, planner, counts, raced>>

(* UPDATE ... WHERE id: whichever claim the row carries by now.            *)
Marked(j, status) ==
    IF row[j.key].id = j.id THEN [row EXCEPT ![j.key].status = status] ELSE row

SubMarks(j) ==
    /\ j.pc = "fetched"
    /\ row' = Marked(j, "done")
    /\ Becomes(j, {})
    /\ UNCHANGED <<oneProcess, planner, counts>>
    /\ KeepsHistory

(* The queue delivers a job that failed once more, while its limit lasts.  *)
Retried(j) ==
    IF j.try < RetryLimit THEN {[j EXCEPT !.pc = "waiting", !.try = @ + 1]} ELSE {}

IsFinalAttemptAlways(j) == j.try >= 0         \* bug: failed on every throw
IsFinalAttempt(j) == j.try >= RetryLimit

(* The handler throws; the write of failed is best effort.                 *)
SubThrows(j) ==
    /\ j.pc \in {"fetching", "fetched"}
    /\ row' \in (IF IsFinalAttempt(j) THEN {row, Marked(j, "failed")} ELSE {row})
    /\ Becomes(j, IF j.expired THEN {} ELSE Retried(j))
    /\ UNCHANGED <<oneProcess, planner, counts>>
    /\ KeepsHistory

(* The queue gives up on a handler, which goes on.                         *)
SubExpires(j) ==
    /\ Working(j) /\ counts.faults < MaxFaults
    /\ counts' = [counts EXCEPT !.faults = @ + 1]
    /\ Becomes(j, {[j EXCEPT !.expired = TRUE]} \cup Retried(j))
    /\ UNCHANGED <<oneProcess, row, planner>>
    /\ KeepsHistory

-----------------------------------------------------------------------------
(* A restart of the only process: its handlers are gone, and the jobs they *)
(* were working on fail for the queue.                                     *)
Restart ==
    /\ oneProcess /\ counts.faults < MaxFaults
    /\ counts' = [counts EXCEPT !.faults = @ + 1]
    /\ planner' = [p \in Planners |-> Off]
    /\ jobs' = {j \in jobs : j.pc = "waiting"} \cup UNION {Retried(j) : j \in Busy}
    /\ fed' = {} /\ raced' = {}
    /\ UNCHANGED <<oneProcess, row>>

(* Six hours pass, longer than any run of a planner with its retries.      *)
Age(k) ==
    /\ row[k].id # 0 /\ ~row[k].old
    /\ row[k].claim \notin Live
    /\ row' = [row EXCEPT ![k].old = TRUE]
    /\ UNCHANGED <<oneProcess, planner, jobs, counts>>
    /\ KeepsHistory

-----------------------------------------------------------------------------
Proceed(p) ==
    \/ \E k \in Key : PlanUpsert(p, k) \/ Send(p, k)
    \/ Reap(p) \/ SendFails(p) \/ PollDecides(p) \/ PollLost(p)
    \/ Clean(p) \/ Snapshots(p)

SubStep(j) ==
    \/ SubStarts(j) \/ SubFetches(j) \/ SubMarks(j) \/ SubThrows(j) \/ SubExpires(j)

Next ==
    \/ \E p \in Planners :
          \/ \E held \in SUBSET Instruments, start \in Starts :
                PlanStarts(p, held, start)
          \/ PlanNothing(p) \/ PollAborts(p) \/ Proceed(p)
    \/ \E j \in jobs : SubStep(j)
    \/ Restart
    \/ \E k \in Key : Age(k)

Spec == Init /\ [][Next]_vars

(* A handler that was started goes on; nothing is assumed of sub-jobs.     *)
FairSpec == Spec /\ \A p \in Planners : WF_vars(Proceed(p))

-----------------------------------------------------------------------------
(* Properties.                                                             *)

Succeeded(p) ==
    \/ At(p, "snapshots")
    \/ At(p, "cleaning") /\ planner[p].verdict = "success"

(* Snapshots are computed only after every instrument of the plan was      *)
(* fetched for this run; a leftover of an earlier run is never taken for a *)
(* result, unless a sub-job of that run was still under way when the row   *)
(* was claimed anew.                                                       *)
SnapshotsFollowFetch ==
    \A p \in Planners : Succeeded(p) =>
        \A k \in Plan(p) : <<k, Claim(p)>> \in fed \cup raced

(* A row says failed only when the queue has no attempt left for its       *)
(* sub-job, so that the planner does not give up on what is retried.       *)
FailedIsFinal ==
    \A k \in Key :
        (row[k].id # 0 /\ row[k].status = "failed" /\ row[k].claim \in Live
                       /\ <<k, row[k].claim>> \notin raced) =>
            ~\E j \in jobs : j.key = k /\ j.claim = row[k].claim /\ ~j.expired

(* With one process, as deployed, a planner never finds its rows claimed   *)
(* by another: the branch for lost ownership is not reached.               *)
OwnershipKept ==
    oneProcess => \A p \in Planners : At(p, "polling") => OwnRows(p) = Plan(p)

(* No planner deletes a row that another planner claimed and still waits   *)
(* for, even if two processes plan the same portfolio.                     *)
LiveRowsStay ==
    [][\A p, q \in Planners, k \in Key :
         (/\ p # q /\ planner[p] # planner'[p]
          /\ planner[q].pc \in {"planning", "sending", "polling"}
          /\ row[k].id # 0 /\ row[k].claim = Claim(q))
            => row'[k].id # 0]_vars

(* A planner lets go of the portfolio's lock in the end, even if a row     *)
(* stays pending for ever because the last attempt of its sub-job died.    *)
PlannerEnds == \A p \in Planners : []<>At(p, "off")

-----------------------------------------------------------------------------
(* What comments say and the code does not do.                             *)

(* services/backfill/fan-out.ts: a leftover row must be reset, else the    *)
(* poller would "declare this instrument complete for a window it never    *)
(* actually re-ran".                                                       *)
WindowWasRun ==
    \A p \in Planners : (oneProcess /\ Succeeded(p)) =>
        \A k \in Plan(p) : <<k, Claim(p)>> \in fed
=============================================================================
