----------------------------- MODULE SyncClaim -----------------------------
(***************************************************************************)
(* Who may sync a Trade Republic connection, and when.                     *)
(*                                                                         *)
(* The row of tr_connections carries a claim: the flag syncing and the     *)
(* time of its last update.  The route of the sync button and the hourly   *)
(* sweep take it before a sync; the sync itself, the sweep and the error   *)
(* paths give it back.  Between them sits the queue: its worker runs one   *)
(* job at a time, gives up on a handler that runs too long and delivers    *)
(* the job again, and drops a send that repeats another in the same slot   *)
(* of 30 seconds.                                                          *)
(*                                                                         *)
(* A member of Runs is an asynchronous function in flight: a request of    *)
(* the route or a handler of the worker.  A sync is one step here; TrSync  *)
(* takes it apart.  The clock is abstracted: a lease may lapse and a slot  *)
(* may end at any time.                                                    *)
(***************************************************************************)
EXTENDS Integers, FiniteSets

CONSTANTS
    Runs,         \* bound: functions in flight at once
    MaxPairings,  \* bound: accounts paired in a behaviour
    MaxRetries,   \* bound: handlers the queue gives up on
    MaxLapses,    \* bound: lapses of a lease
    MaxCrashes    \* bound: restarts of the process

ASSUME SlotsAssumption == Runs \cap {"nobody", "job"} = {}
ASSUME CountsAssumption ==
    /\ MaxPairings \in Nat \ {0} /\ MaxRetries \in Nat
    /\ MaxLapses \in Nat /\ MaxCrashes \in Nat

VARIABLES
    boss,       \* is there a queue, or does the route sync inline?
    conn,       \* the row of the connection
    run,        \* the functions in flight
    waiting,    \* kinds of which a job waits (bound: one of a kind)
    slot,       \* was a targeted job created in the current slot?
    worker,     \* the handler the queue's worker awaits
    counts,     \* what the bounds count
    holder,     \* history: for whom the flag is set
    displaced,  \* history: whose claim another run took over or gave back
    lost,       \* history: is the flag set for a sync that will not come?
    interrupted \* history: accounts paired while a sync ran

vars == <<boss, conn, run, waiting, slot, worker, counts, holder, displaced,
          lost, interrupted>>

-----------------------------------------------------------------------------
Accounts   == 1 .. MaxPairings
Statuses   == {"none", "awaiting_2fa", "connected", "error"}   \* "expired" is an error here
Row        == [id: 0 .. MaxPairings, status: Statuses, syncing: BOOLEAN,
               stale: BOOLEAN, account: 0 .. MaxPairings,
               session: 0 .. MaxPairings, linked: BOOLEAN]
Kinds      == {"manual", "inline", "cron", "targeted", "retry"}
JobKinds   == {"cron", "targeted", "retry"}
Function   == [pc: {"off", "claiming", "sending", "running", "releasing"},
               kind: Kinds, id: 0 .. MaxPairings, session: 0 .. MaxPairings,
               linked: BOOLEAN]

Counts     == [pairings: 0 .. MaxPairings, retries: 0 .. MaxRetries,
               lapses: 0 .. MaxLapses, crashes: 0 .. MaxCrashes]

TypeOK ==
    /\ boss \in BOOLEAN
    /\ conn \in Row
    /\ run \in [Runs -> Function]
    /\ waiting \subseteq JobKinds
    /\ slot \in BOOLEAN
    /\ worker \in Runs \cup {"nobody"}
    /\ counts \in Counts
    /\ holder \in Runs \cup {"nobody", "job"}
    /\ displaced \subseteq Runs \cup {"job"}
    /\ lost \in BOOLEAN
    /\ interrupted \subseteq Accounts

NoRow == [id |-> 0, status |-> "none", syncing |-> FALSE, stale |-> FALSE,
          account |-> 0, session |-> 0, linked |-> FALSE]
Off   == [pc |-> "off", kind |-> "manual", id |-> 0, session |-> 0, linked |-> FALSE]

Init ==
    /\ boss \in BOOLEAN
    /\ conn = NoRow
    /\ run = [r \in Runs |-> Off]
    /\ waiting = {}
    /\ slot = FALSE
    /\ worker = "nobody"
    /\ counts = [pairings |-> 0, retries |-> 0, lapses |-> 0, crashes |-> 0]
    /\ holder = "nobody"
    /\ displaced = {} /\ lost = FALSE /\ interrupted = {}

-----------------------------------------------------------------------------
(* What a function in flight remembers of the row it selected.             *)
Selected(pc, kind) == [pc |-> pc, kind |-> kind, id |-> conn.id,
                       session |-> conn.session, linked |-> conn.linked]

IsRow(r) == conn.status # "none" /\ conn.id = run[r].id

ClaimableAnyway(r) == IsRow(r)                \* bug: the flag is not tested
Claimable(r) == IsRow(r) /\ (~conn.syncing \/ conn.stale)

(* The claim that stands for another than r.                               *)
OtherHolder(r) == IF conn.syncing THEN {holder} \ {r, "nobody"} ELSE {}

Claims(r) ==
    /\ conn' = [conn EXCEPT !.syncing = TRUE, !.stale = FALSE]
    /\ holder' = r
    /\ displaced' = (displaced \cup IF conn.stale THEN OtherHolder(r) ELSE {}) \ {r}
    /\ lost' = FALSE

(* An update of the row that clears the flag, by run r.                    *)
GivesBack(r, row) ==
    /\ conn' = [row EXCEPT !.syncing = FALSE, !.stale = FALSE]
    /\ displaced' = (displaced \cup OtherHolder(r)) \ {r}
    /\ holder' = "nobody"
    /\ lost' = FALSE

KeepsClaim == UNCHANGED <<conn, holder, displaced, lost>>

Frees(r) ==
    /\ run' = [run EXCEPT ![r] = Off]
    /\ worker' = IF worker = r THEN "nobody" ELSE worker

-----------------------------------------------------------------------------
(* The route of the sync button.                                           *)

ManualReads(r) ==
    /\ run[r].pc = "off"
    /\ conn.status = "connected"
    /\ run' = [run EXCEPT ![r] = Selected("claiming", "manual")]
    /\ UNCHANGED <<boss, waiting, slot, worker, counts, interrupted>>
    /\ KeepsClaim

ManualClaims(r) ==
    /\ run[r].pc = "claiming" /\ run[r].kind = "manual"
    /\ IF Claimable(r)
       THEN /\ Claims(r)
            /\ run' = [run EXCEPT ![r].pc = "sending"]
       ELSE /\ run' = [run EXCEPT ![r] = Off]
            /\ KeepsClaim
    /\ UNCHANGED <<boss, waiting, slot, worker, counts, interrupted>>

(* The claim passes to the job; a throttled send is reported as queued,    *)
(* although no job was created.                                            *)
SendCreates(r) ==
    /\ boss /\ run[r].pc = "sending"
    /\ ~slot /\ "targeted" \notin waiting
    /\ IF IsRow(r)
       THEN waiting' = waiting \cup {"targeted"} /\ slot' = TRUE
       ELSE UNCHANGED <<waiting, slot>>
    /\ holder' = IF holder = r THEN "job" ELSE holder
    /\ displaced' = IF r \in displaced THEN displaced \cup {"job"} ELSE displaced \ {"job"}
    /\ Frees(r)
    /\ UNCHANGED <<boss, conn, counts, lost, interrupted>>

SendThrottled(r) ==
    /\ boss /\ run[r].pc = "sending"
    /\ slot /\ IsRow(r)
    /\ lost' = (lost \/ holder = r)
    /\ holder' = IF holder = r THEN "nobody" ELSE holder
    /\ Frees(r)
    /\ UNCHANGED <<boss, conn, waiting, slot, counts, displaced, interrupted>>

SendFails(r) ==
    /\ boss /\ run[r].pc = "sending"
    /\ IF IsRow(r) THEN GivesBack(r, conn) ELSE KeepsClaim
    /\ Frees(r)
    /\ UNCHANGED <<boss, waiting, slot, counts, interrupted>>

InlineStarts(r) ==
    /\ ~boss /\ run[r].pc = "sending"
    /\ run' = [run EXCEPT ![r].pc = "running", ![r].kind = "inline"]
    /\ KeepsClaim
    /\ UNCHANGED <<boss, waiting, slot, worker, counts, interrupted>>

-----------------------------------------------------------------------------
(* The queue and its worker.                                               *)

CronFires ==
    /\ boss /\ "cron" \notin waiting
    /\ waiting' = waiting \cup {"cron"}
    /\ KeepsClaim
    /\ UNCHANGED <<boss, run, slot, worker, counts, interrupted>>

SlotEnds ==
    /\ slot /\ slot' = FALSE
    /\ KeepsClaim
    /\ UNCHANGED <<boss, run, waiting, worker, counts, interrupted>>

(* A targeted job runs under the claim its request took, if it still       *)
(* stands; it does not test the flag.                                      *)
FetchTargeted(r, kind) ==
    LET mine == kind = "targeted" /\ holder = "job" IN
    /\ worker = "nobody" /\ run[r].pc = "off" /\ kind \in waiting
    /\ waiting' = waiting \ {kind}
    /\ IF conn.status = "connected"
       THEN /\ run' = [run EXCEPT ![r] = Selected("running", kind)]
            /\ worker' = r
            /\ holder' = IF mine THEN r ELSE holder
            /\ displaced' = IF kind = "targeted" /\ "job" \in displaced
                            THEN (displaced \ {"job"}) \cup {r} ELSE displaced \ {r}
            /\ UNCHANGED lost
       ELSE /\ lost' = (lost \/ mine)
            /\ holder' = IF mine THEN "nobody" ELSE holder
            /\ UNCHANGED <<run, worker, displaced>>
    /\ UNCHANGED <<boss, conn, slot, counts, interrupted>>

FetchCron(r) ==
    /\ worker = "nobody" /\ run[r].pc = "off" /\ "cron" \in waiting
    /\ waiting' = waiting \ {"cron"}
    /\ IF conn.status = "connected" /\ ~conn.syncing
       THEN run' = [run EXCEPT ![r] = Selected("claiming", "cron")] /\ worker' = r
       ELSE UNCHANGED <<run, worker>>
    /\ KeepsClaim
    /\ UNCHANGED <<boss, slot, counts, interrupted>>

CronClaims(r) ==
    /\ run[r].pc = "claiming" /\ run[r].kind = "cron"
    /\ IF Claimable(r)
       THEN /\ Claims(r)
            /\ run' = [run EXCEPT ![r].pc = "running"]
            /\ UNCHANGED worker
       ELSE KeepsClaim /\ Frees(r)
    /\ UNCHANGED <<boss, waiting, slot, counts, interrupted>>

(* A handler outlives the expiry of its job: the worker goes on, the job   *)
(* is delivered again, and the handler keeps running.                      *)
Again(kind) == IF kind = "cron" THEN "cron" ELSE "retry"

JobExpires(r) ==
    /\ worker = r /\ counts.retries < MaxRetries
    /\ worker' = "nobody"
    /\ counts' = [counts EXCEPT !.retries = @ + 1]
    /\ waiting' = waiting \cup {Again(run[r].kind)}
    /\ KeepsClaim
    /\ UNCHANGED <<boss, run, slot, interrupted>>

-----------------------------------------------------------------------------
(* A sync ends.  Afterwards a handler of the sweep still has its finally   *)
(* block to run.                                                           *)

Running(r) == run[r].pc = "running"

Leaves(r) ==
    IF run[r].kind = "cron"
    THEN run' = [run EXCEPT ![r].pc = "releasing"] /\ UNCHANGED worker
    ELSE Frees(r)

(* bug: the row is found by its user instead of its id.                    *)
SyncedRowOfUser(r) == conn.status # "none"
SyncedRow(r) == IsRow(r)

SyncSucceeds(r) ==
    /\ Running(r) /\ run[r].linked
    /\ IF SyncedRow(r)
       THEN GivesBack(r, [conn EXCEPT !.status = "connected", !.session = run[r].session])
       ELSE KeepsClaim
    /\ Leaves(r)
    /\ UNCHANGED <<boss, waiting, slot, counts, interrupted>>

(* The session could not be resumed, or the export failed.                 *)
ExportFails(r) ==
    /\ Running(r) /\ run[r].linked
    /\ IF SyncedRow(r)
       THEN GivesBack(r, [conn EXCEPT !.status = "error"])
       ELSE KeepsClaim
    /\ Leaves(r)
    /\ UNCHANGED <<boss, waiting, slot, counts, interrupted>>

(* A statement throws: the handler of a targeted job and the route clear   *)
(* the flag in their catch.                                                *)
(* bug: the catch of a targeted job only logs.                             *)
ThrowClearsNever(r) == KeepsClaim
ThrowClears(r) == IF run[r].kind # "cron" /\ IsRow(r) THEN GivesBack(r, conn) ELSE KeepsClaim

SyncThrows(r) ==
    /\ Running(r) /\ run[r].linked
    /\ ThrowClears(r)
    /\ Leaves(r)
    /\ UNCHANGED <<boss, waiting, slot, counts, interrupted>>

(* The portfolio was deleted: the sync returns before it does anything.    *)
SyncSkips(r) ==
    /\ Running(r) /\ ~run[r].linked
    /\ Leaves(r)
    /\ lost' = (lost \/ (holder = r /\ run[r].kind # "cron"))
    /\ holder' = IF holder = r /\ run[r].kind # "cron" THEN "nobody" ELSE holder
    /\ UNCHANGED <<boss, conn, waiting, slot, counts, displaced, interrupted>>

(* The finally block: "only if we still hold it" is tested on the flag.    *)
SweepReleases(r) ==
    /\ run[r].pc = "releasing"
    /\ IF IsRow(r) /\ conn.syncing THEN GivesBack(r, conn) ELSE KeepsClaim
    /\ Frees(r)
    /\ UNCHANGED <<boss, waiting, slot, counts, interrupted>>

-----------------------------------------------------------------------------
(* Time, restarts, and the other routes that write the row.                *)

Pending == {r \in Runs : run[r].pc # "off"}

LeaseLapses ==
    /\ conn.syncing /\ ~conn.stale /\ counts.lapses < MaxLapses
    /\ conn' = [conn EXCEPT !.stale = TRUE]
    /\ counts' = [counts EXCEPT !.lapses = @ + 1]
    /\ UNCHANGED <<boss, run, waiting, slot, worker, holder, displaced, lost, interrupted>>

(* Jobs survive a restart and the one in progress is delivered again; the  *)
(* scheduler clears the flag when it starts, and it does so only where     *)
(* there is a queue.                                                       *)
Restart ==
    /\ counts.crashes < MaxCrashes
    /\ counts' = [counts EXCEPT !.crashes = @ + 1]
    /\ run' = [r \in Runs |-> Off]
    /\ waiting' = IF worker = "nobody" THEN waiting
                  ELSE waiting \cup {Again(run[worker].kind)}
    /\ worker' = "nobody"
    /\ conn' = IF boss THEN [conn EXCEPT !.syncing = FALSE, !.stale = FALSE] ELSE conn
    /\ lost' = (~boss /\ conn.syncing)
    /\ holder' = "nobody"
    /\ displaced' = {"job"} \cap (displaced \cup IF boss THEN {holder} ELSE {})
    /\ UNCHANGED <<boss, slot, interrupted>>

Busy == \E r \in Pending : IsRow(r)

Paired(id, syncing) ==
    [id |-> id, status |-> "awaiting_2fa", syncing |-> syncing, stale |-> FALSE,
     account |-> counts.pairings + 1, session |-> 0, linked |-> TRUE]

(* Pairing anew writes over the row of the user and leaves its flag alone. *)
PairAgain ==
    /\ conn.status # "none" /\ counts.pairings < MaxPairings
    /\ counts' = [counts EXCEPT !.pairings = @ + 1]
    /\ conn' = Paired(conn.id, conn.syncing)
    /\ interrupted' = IF Busy THEN interrupted \cup {counts.pairings + 1} ELSE interrupted
    /\ UNCHANGED <<boss, run, waiting, slot, worker, holder, displaced, lost>>

PairFirst ==
    /\ conn.status = "none" /\ counts.pairings < MaxPairings
    /\ counts' = [counts EXCEPT !.pairings = @ + 1]
    /\ conn' = Paired(counts.pairings + 1, FALSE)
    /\ UNCHANGED <<boss, run, waiting, slot, worker, holder, displaced, lost,
                   interrupted>>

Verify ==
    /\ conn.status = "awaiting_2fa"
    /\ \E ok \in BOOLEAN :
          conn' = [conn EXCEPT !.status = IF ok THEN "connected" ELSE "error",
                               !.session = IF ok THEN conn.account ELSE @, !.stale = FALSE]
    /\ UNCHANGED <<boss, run, waiting, slot, worker, counts, holder, displaced,
                   lost, interrupted>>

(* Jobs that wait for the deleted row will select nothing.                 *)
Disconnect ==
    /\ conn.status # "none"
    /\ conn' = NoRow
    /\ waiting' = waiting \cap {"cron"}
    /\ slot' = FALSE
    /\ holder' = "nobody" /\ lost' = FALSE
    /\ UNCHANGED <<boss, run, worker, counts, displaced, interrupted>>

PortfolioDeleted ==
    /\ conn.linked
    /\ conn' = [conn EXCEPT !.linked = FALSE]
    /\ UNCHANGED <<boss, run, waiting, slot, worker, counts, holder, displaced,
                   lost, interrupted>>

-----------------------------------------------------------------------------
Fetch(r) == FetchTargeted(r, "targeted") \/ FetchTargeted(r, "retry")

Proceed(r) ==
    \/ ManualClaims(r) \/ SendCreates(r) \/ SendThrottled(r) \/ SendFails(r)
    \/ InlineStarts(r) \/ CronClaims(r)
    \/ SyncSucceeds(r) \/ ExportFails(r) \/ SyncThrows(r) \/ SyncSkips(r)
    \/ SweepReleases(r)

Next ==
    \/ \E r \in Runs :
          ManualReads(r) \/ Fetch(r) \/ FetchCron(r) \/ JobExpires(r) \/ Proceed(r)
    \/ CronFires \/ SlotEnds \/ LeaseLapses \/ Restart
    \/ PairFirst \/ PairAgain \/ Verify \/ Disconnect \/ PortfolioDeleted

Spec == Init /\ [][Next]_vars

(* A function in flight goes on; the queue hands out jobs in the order     *)
(* they were created, so that a targeted one is not passed over for ever.  *)
Fairness ==
    /\ \A r \in Runs : WF_vars(Proceed(r))
    /\ WF_vars(\E r \in Runs : FetchCron(r))
    /\ SF_vars(\E r \in Runs : Fetch(r))

FairSpec == Spec /\ Fairness

-----------------------------------------------------------------------------
(* Properties.                                                             *)

Twice == {p \in Runs \X Runs : p[1] # p[2] /\ Running(p[1]) /\ Running(p[2])
                               /\ run[p[1]].id = run[p[2]].id}

(* Two syncs of one connection never run at once, except for those the     *)
(* claim cannot order: one is a delivery of a job that was delivered       *)
(* before, or lost its claim to another run that took it over when the     *)
(* lease had lapsed or gave it back.                                       *)
NoOverlap ==
    \A p \in Twice :
        \E r \in {p[1], p[2]} :
            r \in displaced \/ run[r].kind = "retry"

(* A connected row holds a session of the account whose phone and PIN it   *)
(* holds, unless that account was paired while a sync was in flight: the   *)
(* end of that sync writes its own session back.                           *)
SessionOfAccount ==
    (conn.status = "connected") =>
        conn.session = conn.account \/ conn.account \in interrupted

(* A set flag is cleared in the end, unless the sync it was set for cannot *)
(* come: its send was throttled, its job found the row not connected or    *)
(* without portfolio, or the process that held it is gone.                 *)
ClaimEnds == conn.syncing ~> (~conn.syncing \/ lost)

(* services/scheduler.ts: release the claim "only if we still hold it".    *)
ClaimNotTaken == displaced = {}
=============================================================================
