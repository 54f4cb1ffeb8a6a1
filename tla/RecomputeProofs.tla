-------------------------- MODULE RecomputeProofs ---------------------------
(***************************************************************************)
(* Proofs about Recompute, for any number of changes, backfills, days,     *)
(* retries and faults: its type invariant, that a writer under the lock    *)
(* never puts back an older state of the portfolio, and that no recompute  *)
(* that was sent is forgotten.                                             *)
(***************************************************************************)
EXTENDS Recompute, TLAPS

USE BoundsAssumption

-----------------------------------------------------------------------------
(* Facts about deliveries and the lock's queue.                            *)

(* A delivery is named by a change or a backfill; None is not one.         *)
LEMMA CallsFacts ==
    /\ None \notin Calls
    /\ \A c \in Changes, t \in 0 .. RetryLimit : <<c, t>> \in Calls
    /\ \A b \in Backfills : <<b, 0>> \in Calls
    /\ \A h \in Calls : h = <<h[1], h[2]>> /\ h[1] \in Changes \cup Backfills
    /\ \A h \in Calls : h[1] \in Changes => h[2] \in 0 .. RetryLimit
BY DEF Calls, None

(* A window starts at one of the days.                                     *)
LEMMA FromIsDay ==
    ASSUME TypeOK, NEW h \in Calls
    PROVE  From(h) \in Days
BY CallsFacts DEF TypeOK, From, Days

(* The queue after a call entered, and after its head was released.        *)
LEMMA EnterType ==
    ASSUME TypeOK, NEW h \in Calls, Lock!Enter(h, Portfolio)
    PROVE  queue' \in [{Portfolio} -> Seq(Calls)] /\ holds' \subseteq Calls
BY DEF TypeOK, Lock!Enter

LEMMA ReleaseType ==
    ASSUME TypeOK, NEW h \in Calls, Lock!Release(h, Portfolio)
    PROVE  queue' \in [{Portfolio} -> Seq(Calls)] /\ holds' \subseteq Calls
BY DEF TypeOK, Lock!Release, Lock!IsFirst

-----------------------------------------------------------------------------
(* The worker's delivery names a job that is active, and no other job is;  *)
(* before it is sent there is no job.                                      *)
JobInv ==
    /\ busy # None =>
          /\ busy[1] \in Changes
          /\ job[busy[1]].state = "active" /\ busy = <<busy[1], job[busy[1]].try>>
    /\ \A c \in Changes :
          /\ job[c].state = "active" => busy = <<c, job[c].try>>
          /\ send[c] \in {"none", "committed", "dropped"} => job[c].state = "none"

LEMMA InitTypes == Init => TypeOK /\ JobInv
BY CallsFacts DEF Init, TypeOK, JobInv, Lock!LockInit, SendState, JobState, RunState, Calls

(* A job that goes from one state to another.                              *)
LEMMA JobMoves ==
    ASSUME TypeOK, NEW c \in Changes, NEW s \in JobState,
           job' = [job EXCEPT ![c].state = s]
    PROVE  /\ job' \in [Changes -> [state: JobState, try: 0 .. RetryLimit]]
           /\ \A e \in Changes \ {c} : job'[e] = job[e]
           /\ job'[c].state = s /\ job'[c].try = job[c].try
<1>1. job \in [Changes -> [state: JobState, try: 0 .. RetryLimit]]
  BY DEF TypeOK
<1>2. job[c] \in [state: JobState, try: 0 .. RetryLimit]
  BY <1>1
<1>3. [job[c] EXCEPT !.state = s] \in [state: JobState, try: 0 .. RetryLimit]
  BY <1>2
<1>4. job' = [job EXCEPT ![c] = [job[c] EXCEPT !.state = s]]
  OBVIOUS
<1> QED BY <1>1, <1>2, <1>3, <1>4

(* A delivery that goes to another step.                                   *)
LEMMA RunMoves ==
    ASSUME TypeOK, NEW h \in Calls, NEW s \in RunState,
           run' = [run EXCEPT ![h].pc = s]
    PROVE  /\ run' \in [Calls -> [pc: RunState, read: SUBSET Changes]]
           /\ \A g \in Calls \ {h} : run'[g] = run[g]
           /\ run'[h].pc = s /\ run'[h].read = run[h].read
<1>1. run \in [Calls -> [pc: RunState, read: SUBSET Changes]]
  BY DEF TypeOK
<1>2. run[h] \in [pc: RunState, read: SUBSET Changes]
  BY <1>1
<1>3. [run[h] EXCEPT !.pc = s] \in [pc: RunState, read: SUBSET Changes]
  BY <1>2
<1>4. run' = [run EXCEPT ![h] = [run[h] EXCEPT !.pc = s]]
  OBVIOUS
<1> QED BY <1>1, <1>2, <1>3, <1>4

(* What the throttle of the slot holds after a send was taken.             *)
LEMMA SlotTakes ==
    ASSUME TypeOK, NEW x \in Days
    PROVE  /\ [slot EXCEPT !.main = TRUE] \in [main: BOOLEAN, follow: SUBSET Days]
           /\ [slot EXCEPT !.follow = @ \cup {x}] \in [main: BOOLEAN, follow: SUBSET Days]
<1>1. slot \in [main: BOOLEAN, follow: SUBSET Days]
  BY DEF TypeOK
<1>2. slot.follow \cup {x} \in SUBSET Days /\ TRUE \in BOOLEAN
  BY <1>1
<1>3. [slot EXCEPT !.follow = slot.follow \cup {x}] \in [main: BOOLEAN, follow: SUBSET Days]
  BY <1>1, <1>2
<1>4. [slot EXCEPT !.main = TRUE] \in [main: BOOLEAN, follow: SUBSET Days]
  BY <1>1, <1>2
<1> QED BY <1>3, <1>4

(* A retry or its end keeps the types of what it touches.                  *)
LEMMA RetriedType ==
    ASSUME TypeOK, NEW c \in Changes, Retried(c)
    PROVE  /\ job' \in [Changes -> [state: JobState, try: 0 .. RetryLimit]]
           /\ gaveUp' \subseteq Changes
           /\ \A e \in Changes \ {c} : job'[e] = job[e]
           /\ job'[c].state \in {"waiting", "over"}
<1> USE DEF TypeOK, JobState
<1>1. CASE job[c].try < RetryLimit /\ UNCHANGED gaveUp
           /\ job' = [job EXCEPT ![c] = [state |-> "waiting", try |-> @.try + 1]]
  <2>1. job[c].try + 1 \in 0 .. RetryLimit
    BY <1>1
  <2> QED BY <1>1, <2>1
<1>2. CASE GivesUp(c)
  BY <1>2, JobMoves DEF GivesUp, SameDay, Made
<1> QED BY <1>1, <1>2 DEF Retried

LEMMA GivesUpType ==
    ASSUME TypeOK, NEW c \in Changes, GivesUp(c)
    PROVE  /\ job' \in [Changes -> [state: JobState, try: 0 .. RetryLimit]]
           /\ gaveUp' \subseteq Changes
           /\ \A e \in Changes \ {c} : job'[e] = job[e]
           /\ job'[c].state = "over"
BY JobMoves DEF TypeOK, JobState, GivesUp, SameDay, Made

LEMMA DoneType ==
    ASSUME TypeOK, NEW c \in Changes, Done(c)
    PROVE  /\ job' \in [Changes -> [state: JobState, try: 0 .. RetryLimit]]
           /\ gaveUp' \subseteq Changes
           /\ \A e \in Changes \ {c} : job'[e] = job[e]
           /\ job'[c].state = "over"
BY JobMoves DEF TypeOK, JobState, Done

(* The rows written are sets of changes.                                   *)
LEMMA WritesType ==
    ASSUME TypeOK, NEW h \in Calls, NEW last \in Int, WritesUpTo(h, last)
    PROVE  snap' \in [Days -> SUBSET Changes] /\ today' \subseteq Changes
<1>1. run[h].read \subseteq Changes
  BY DEF TypeOK
<1> QED BY <1>1 DEF TypeOK, WritesUpTo

(* The end of a handler, whatever becomes of the job the worker awaits.    *)
LEMMA EndsType ==
    ASSUME TypeOK, JobInv, NEW h \in Calls, Ends(h),
           busy # h => UNCHANGED <<job, gaveUp>>,
           busy = h => Done(h[1]) \/ GivesUp(h[1]) \/ Retried(h[1])
    PROVE  /\ run' \in [Calls -> [pc: RunState, read: SUBSET Changes]]
           /\ queue' \in [{Portfolio} -> Seq(Calls)] /\ holds' \subseteq Calls
           /\ busy' \in Calls \cup {None}
           /\ job' \in [Changes -> [state: JobState, try: 0 .. RetryLimit]]
           /\ gaveUp' \subseteq Changes
           /\ JobInv'
<1>1. run' \in [Calls -> [pc: RunState, read: SUBSET Changes]]
  BY DEF TypeOK, Ends, RunState
<1>2. queue' \in [{Portfolio} -> Seq(Calls)] /\ holds' \subseteq Calls
  BY ReleaseType DEF Ends
<1>3. busy' \in Calls \cup {None}
  BY DEF TypeOK, Ends
<1>4. CASE busy = h
  <2>1. h[1] \in Changes
    BY <1>4, CallsFacts DEF JobInv
  <2>2. /\ job' \in [Changes -> [state: JobState, try: 0 .. RetryLimit]]
        /\ gaveUp' \subseteq Changes
        /\ \A e \in Changes \ {h[1]} : job'[e] = job[e]
        /\ job'[h[1]].state # "active"
    BY <1>4, <2>1, RetriedType, GivesUpType, DoneType
  <2>3. \A e \in Changes \ {h[1]} : job[e].state # "active"
    BY <1>4 DEF JobInv
  <2>4. send[h[1]] \notin {"none", "committed", "dropped"}
    BY <1>4, <2>1, CallsFacts DEF JobInv
  <2>5. \A e \in Changes : job'[e].state # "active"
    BY <2>2, <2>3
  <2>6. \A e \in Changes :
           send'[e] \in {"none", "committed", "dropped"} => job'[e].state = "none"
    BY <2>2, <2>4 DEF JobInv, Ends
  <2>7. busy' = None
    BY <1>4 DEF Ends
  <2>8. JobInv'
    BY <2>5, <2>6, <2>7 DEF JobInv
  <2> QED BY <1>1, <1>2, <1>3, <2>2, <2>8
<1>5. CASE busy # h
  BY <1>1, <1>2, <1>3, <1>5 DEF JobInv, Ends, TypeOK
<1> QED BY <1>4, <1>5

(* The actions of a request change send, slot and the job of that change.  *)
LEMMA SendsTypes ==
    ASSUME TypeOK, JobInv, NEW c \in Changes, Sends(c)
    PROVE  TypeOK' /\ JobInv'
<1> USE DEF SendState
<1>1. CASE Commit(c)
  BY <1>1 DEF Commit, TypeOK, JobInv, lockVars
<1>2. CASE SendTaken(c)
  <2>1. /\ job' \in [Changes -> [state: JobState, try: 0 .. RetryLimit]]
        /\ \A e \in Changes \ {c} : job'[e] = job[e]
        /\ job'[c].state = "waiting"
    BY <1>2, JobMoves DEF SendTaken, JobState
  <2>2. TypeOK'
    <3>1. slot' \in [main: BOOLEAN, follow: SUBSET Days]
      BY <1>2, SlotTakes DEF SendTaken, TypeOK
    <3> QED BY <1>2, <2>1, <3>1 DEF SendTaken, TypeOK, lockVars
  <2>3. job[c].state = "none" /\ send'[c] = "sent"
        /\ \A e \in Changes \ {c} : send'[e] = send[e]
    BY <1>2 DEF SendTaken, JobInv, TypeOK
  <2>4. busy' = busy /\ (busy # None => busy[1] # c)
    BY <1>2, <2>3 DEF SendTaken, JobInv
  <2>5. JobInv'
    BY <2>1, <2>3, <2>4 DEF JobInv
  <2> QED BY <2>2, <2>5
<1>3. CASE SendDropped(c)
  BY <1>3 DEF SendDropped, AfterDrop, TypeOK, JobInv, lockVars
<1>4. CASE FollowUpTaken(c)
  <2>1. /\ job' \in [Changes -> [state: JobState, try: 0 .. RetryLimit]]
        /\ \A e \in Changes \ {c} : job'[e] = job[e]
        /\ job'[c].state = "deferred"
    BY <1>4, JobMoves DEF FollowUpTaken, FollowUpState, JobState
  <2>2. TypeOK'
    <3>1. day[c] \in Days
      BY DEF TypeOK
    <3>2. slot' \in [main: BOOLEAN, follow: SUBSET Days]
      BY <1>4, <3>1, SlotTakes DEF FollowUpTaken
    <3> QED BY <1>4, <2>1, <3>2 DEF FollowUpTaken, TypeOK, lockVars
  <2>3. job[c].state = "none" /\ send'[c] = "sent"
        /\ \A e \in Changes \ {c} : send'[e] = send[e]
    BY <1>4 DEF FollowUpTaken, JobInv, TypeOK
  <2>4. busy' = busy /\ (busy # None => busy[1] # c)
    BY <1>4, <2>3 DEF FollowUpTaken, JobInv
  <2>5. JobInv'
    BY <2>1, <2>3, <2>4 DEF JobInv
  <2> QED BY <2>2, <2>5
<1>5. CASE FollowUpAbsorbed(c)
  BY <1>5 DEF FollowUpAbsorbed, TypeOK, JobInv, lockVars
<1>6. CASE SendFails(c)
  BY <1>6 DEF SendFails, Faulty, TypeOK, JobInv, lockVars
<1> QED BY <1>1, <1>2, <1>3, <1>4, <1>5, <1>6 DEF Sends

LEMMA JobStartsTypes ==
    ASSUME TypeOK, JobInv, NEW c \in Changes, JobStarts(c)
    PROVE  TypeOK' /\ JobInv'
<1> DEFINE h == <<c, job[c].try>>
<1>1. h \in Calls
  BY CallsFacts DEF TypeOK
<1>2. /\ job' \in [Changes -> [state: JobState, try: 0 .. RetryLimit]]
      /\ \A e \in Changes \ {c} : job'[e] = job[e]
      /\ job'[c].state = "active" /\ job'[c].try = job[c].try
  BY JobMoves DEF JobStarts, JobState
<1>3. queue' \in [{Portfolio} -> Seq(Calls)] /\ holds' \subseteq Calls
  BY <1>1, EnterType DEF JobStarts
<1>4. run' \in [Calls -> [pc: RunState, read: SUBSET Changes]]
  BY <1>1, RunMoves DEF JobStarts, RunState
<1>5. TypeOK'
  BY <1>1, <1>2, <1>3, <1>4 DEF JobStarts, TypeOK
<1>6. JobInv'
  BY <1>1, <1>2, CallsFacts DEF JobStarts, JobInv
<1> QED BY <1>5, <1>6

LEMMA BackfillStartsTypes ==
    ASSUME TypeOK, JobInv, NEW b \in Backfills, BackfillStarts(b)
    PROVE  TypeOK' /\ JobInv'
<1>1. <<b, 0>> \in Calls
  BY CallsFacts
<1>2. queue' \in [{Portfolio} -> Seq(Calls)] /\ holds' \subseteq Calls
  BY <1>1, EnterType DEF BackfillStarts
<1>3. run' \in [Calls -> [pc: RunState, read: SUBSET Changes]]
  BY <1>1, RunMoves DEF BackfillStarts, RunState
<1> QED BY <1>2, <1>3 DEF BackfillStarts, TypeOK, JobInv

LEMMA HandlesTypes ==
    ASSUME TypeOK, JobInv, NEW h \in Calls, Handles(h)
    PROVE  TypeOK' /\ JobInv'
<1> DEFINE Ended == /\ run' \in [Calls -> [pc: RunState, read: SUBSET Changes]]
                    /\ queue' \in [{Portfolio} -> Seq(Calls)] /\ holds' \subseteq Calls
                    /\ busy' \in Calls \cup {None}
                    /\ job' \in [Changes -> [state: JobState, try: 0 .. RetryLimit]]
                    /\ gaveUp' \subseteq Changes
                    /\ JobInv'
<1>1. CASE LockGranted(h)
  BY <1>1 DEF LockGranted, Lock!Acquire, TypeOK, JobInv
<1>2. CASE Read(h)
  <2>1. Made \subseteq Changes
    BY DEF Made
  <2> QED BY <1>2, <2>1 DEF Read, TypeOK, JobInv, RunState, lockVars
<1>3. CASE Write(h)
  <2>1. Ended
    BY <1>3, EndsType DEF Write, Settles
  <2>2. snap' \in [Days -> SUBSET Changes] /\ today' \subseteq Changes
    <3>1. Today \in Int
      OBVIOUS
    <3> QED BY <1>3, <3>1, WritesType DEF Write
  <2> QED BY <1>3, <2>1, <2>2 DEF Write, Ends, TypeOK
<1>4. CASE WritesNothing(h)
  <2>1. Ended
    BY <1>4, EndsType DEF WritesNothing, Settles
  <2> QED BY <1>4, <2>1 DEF WritesNothing, Ends, Faulty, TypeOK
<1>5. CASE Throws(h)
  <2>1. Ended
    BY <1>5, EndsType DEF Throws, Settles
  <2>2. snap' \in [Days -> SUBSET Changes] /\ today' \subseteq Changes
    <3>1. PICK last \in (From(h) - 1) .. (Today - 1) : WritesUpTo(h, last)
      BY <1>5 DEF Throws
    <3>2. last \in Int
      OBVIOUS
    <3> QED BY <3>1, <3>2, WritesType
  <2> QED BY <1>5, <2>1, <2>2 DEF Throws, Ends, Faulty, TypeOK
<1> QED BY <1>1, <1>2, <1>3, <1>4, <1>5 DEF Handles

(* The clock, the queue that gives up, the restart and the daily job.      *)
LEMMA SlotEndsTypes == TypeOK /\ JobInv /\ SlotEnds => TypeOK' /\ JobInv'
<1> SUFFICES ASSUME TypeOK, JobInv, SlotEnds PROVE TypeOK' /\ JobInv'
  OBVIOUS
<1>1. \A c \in Changes :
         /\ job'[c] \in [state: JobState, try: 0 .. RetryLimit]
         /\ job[c].state # "deferred" => job'[c] = job[c]
         /\ job[c].state = "deferred" => job'[c].state = "waiting"
  <2> TAKE c \in Changes
  <2>1. job[c] \in [state: JobState, try: 0 .. RetryLimit]
    BY DEF TypeOK
  <2>2. [job[c] EXCEPT !.state = "waiting"] \in [state: JobState, try: 0 .. RetryLimit]
    BY <2>1 DEF JobState
  <2>3. job'[c] = IF job[c].state = "deferred"
                  THEN [job[c] EXCEPT !.state = "waiting"] ELSE job[c]
    BY DEF SlotEnds
  <2>4. [job[c] EXCEPT !.state = "waiting"].state = "waiting"
    BY <2>1
  <2> QED BY <2>1, <2>2, <2>3, <2>4
<1>2. job' \in [Changes -> [state: JobState, try: 0 .. RetryLimit]]
  BY <1>1 DEF SlotEnds
<1>3. TypeOK'
  BY <1>2 DEF SlotEnds, TypeOK, lockVars
<1>4. JobInv'
  BY <1>1 DEF SlotEnds, JobInv, TypeOK
<1> QED BY <1>3, <1>4

LEMMA ExpiresTypes == TypeOK /\ JobInv /\ Expires => TypeOK' /\ JobInv'
<1> SUFFICES ASSUME TypeOK, JobInv, Expires PROVE TypeOK' /\ JobInv'
  OBVIOUS
<1>1. busy[1] \in Changes
  BY DEF Expires, JobInv
<1>2. /\ job' \in [Changes -> [state: JobState, try: 0 .. RetryLimit]]
      /\ gaveUp' \subseteq Changes
      /\ \A e \in Changes \ {busy[1]} : job'[e] = job[e]
      /\ job'[busy[1]].state \in {"waiting", "over"}
  BY <1>1, RetriedType DEF Expires
<1>3. TypeOK'
  BY <1>2 DEF Expires, Faulty, TypeOK, lockVars
<1>4. \A e \in Changes \ {busy[1]} : job[e].state # "active"
  BY <1>1 DEF JobInv
<1>5. JobInv'
  BY <1>1, <1>2, <1>4 DEF Expires, JobInv
<1> QED BY <1>3, <1>5

LEMMA RestartTypes == TypeOK /\ JobInv /\ Restart => TypeOK' /\ JobInv'
<1> SUFFICES ASSUME TypeOK, JobInv, Restart PROVE TypeOK' /\ JobInv'
  OBVIOUS
<1>1. /\ job' \in [Changes -> [state: JobState, try: 0 .. RetryLimit]]
      /\ gaveUp' \subseteq Changes
      /\ \A e \in Changes : job'[e].state # "active"
      /\ \A e \in Changes : job[e].state = "none" => job'[e].state = "none"
  <2>1. CASE busy = None
    BY <2>1, CallsFacts DEF Restart, TypeOK, JobInv
  <2>2. CASE busy # None
    <3>1. busy[1] \in Changes /\ Retried(busy[1])
      BY <2>2 DEF Restart, JobInv
    <3>2. \A e \in Changes \ {busy[1]} : job[e].state # "active"
      BY <3>1 DEF JobInv
    <3>3. job[busy[1]].state = "active"
      BY <2>2 DEF JobInv
    <3> QED BY <3>1, <3>2, <3>3, RetriedType
  <2> QED BY <2>1, <2>2
<1>2. run' \in [Calls -> [pc: RunState, read: SUBSET Changes]]
  BY DEF Restart, TypeOK, RunState
<1>3. queue' \in [{Portfolio} -> Seq(Calls)] /\ holds' \subseteq Calls
  BY DEF Restart
<1>4. send' \in [Changes -> SendState]
  BY DEF Restart, TypeOK, SendState
<1>5. cron' \in [pc: {"off", "read"}, read: SUBSET Changes, wrote: SUBSET Changes]
  BY DEF Restart, TypeOK
<1>6. TypeOK'
  BY <1>1, <1>2, <1>3, <1>4, <1>5 DEF Restart, Faulty, TypeOK
<1>7. \A c \in Changes :
         send'[c] \in {"none", "committed", "dropped"} => send[c] = "none"
  BY DEF Restart, TypeOK
<1>8. JobInv'
  BY <1>1, <1>7 DEF Restart, JobInv
<1> QED BY <1>6, <1>8

LEMMA CronTypes == TypeOK /\ JobInv /\ (CronReads \/ CronWrites) => TypeOK' /\ JobInv'
<1>1. Made \subseteq Changes
  BY DEF Made
<1>2. ASSUME TypeOK, CronReads
      PROVE  cron' \in [pc: {"off", "read"}, read: SUBSET Changes, wrote: SUBSET Changes]
  <2>1. cron \in [pc: {"off", "read"}, read: SUBSET Changes, wrote: SUBSET Changes]
    BY <1>2 DEF TypeOK
  <2>2. cron' = [cron EXCEPT !.pc = "read", !.read = Made]
    BY <1>2 DEF CronReads
  <2>3. cron' = [pc |-> "read", read |-> Made, wrote |-> cron.wrote]
    BY <2>1, <2>2
  <2> QED BY <1>1, <2>1, <2>3
<1>3. TypeOK /\ JobInv /\ CronReads => TypeOK' /\ JobInv'
  BY <1>2 DEF CronReads, TypeOK, JobInv, lockVars
<1>4. TypeOK /\ JobInv /\ CronWrites => TypeOK' /\ JobInv'
  BY DEF CronWrites, TypeOK, JobInv, lockVars
<1> QED BY <1>3, <1>4

LEMMA NextTypes == TypeOK /\ JobInv /\ [Next]_vars => TypeOK' /\ JobInv'
<1> SUFFICES ASSUME TypeOK, JobInv, [Next]_vars PROVE TypeOK' /\ JobInv'
  OBVIOUS
<1>1. CASE UNCHANGED vars
  BY <1>1 DEF vars, lockVars, TypeOK, JobInv
<1> QED BY <1>1, SendsTypes, JobStartsTypes, BackfillStartsTypes, HandlesTypes, SlotEndsTypes,
           ExpiresTypes, RestartTypes, CronTypes DEF Next

(* Type correctness of the recompute, and of the one delivery its worker   *)
(* awaits at a time (queue.ts, enqueue.ts and recompute.ts).               *)
THEOREM TypeCorrect == Spec => [](TypeOK /\ JobInv)
<1>1. Init => TypeOK /\ JobInv
  BY InitTypes
<1>2. TypeOK /\ JobInv /\ [Next]_vars => TypeOK' /\ JobInv'
  BY NextTypes
<1> QED BY <1>1, <1>2, PTL DEF Spec

-----------------------------------------------------------------------------
(* Mutual exclusion: what runs under the lock is at the head of its queue, *)
(* so that of the deliveries only one has read and not yet written.        *)
LockInv ==
    /\ \A h \in holds : Lock!IsFirst(h, Portfolio)
    /\ \A h \in Calls : run[h].pc = "read" => h \in holds

LEMMA OneReader ==
    ASSUME LockInv, NEW h \in Calls, NEW g \in Calls,
           run[h].pc = "read", run[g].pc = "read"
    PROVE  g = h
BY DEF LockInv, Lock!IsFirst

(* What a delivery that has read knows: no row, and nothing that counts in *)
(* today's, shows a change it has not read.                                *)
Knows(h) ==
    /\ run[h].read \subseteq Made
    /\ \A x \in Days : snap[x] \subseteq {c \in run[h].read : day[c] <= x}
    /\ today \subseteq run[h].read \cup cron.wrote

KnowsInv ==
    /\ \A x \in Days : snap[x] \subseteq {c \in Made : day[c] <= x}
    /\ today \subseteq Made
    /\ \A h \in Calls : run[h].pc = "read" => Knows(h)
    /\ cron.pc = "read" => cron.read \subseteq Made

RowsInv == LockInv /\ KnowsInv

LEMMA InitRows == Init => RowsInv
<1> SUFFICES ASSUME Init PROVE RowsInv
  OBVIOUS
<1>1. LockInv
  BY DEF Init, LockInv, Lock!LockInit
<1>2. KnowsInv
  BY DEF Init, KnowsInv, Knows, Days
<1> QED BY <1>1, <1>2 DEF RowsInv

(* Writing up to any day leaves no row behind what it showed.              *)
LEMMA WritesGrow ==
    ASSUME TypeOK, NEW h \in Calls, Knows(h), NEW last \in Int, WritesUpTo(h, last)
    PROVE  /\ \A x \in Days : snap[x] \subseteq snap'[x]
           /\ today \subseteq today' \cup cron.wrote
           /\ \A x \in Days : snap'[x] \subseteq {c \in run[h].read : day[c] <= x}
           /\ today' \subseteq today \cup run[h].read
BY DEF WritesUpTo, Knows, TypeOK

(* Steps that write no row: what was known stays known, and a delivery     *)
(* that reads now reads every change made.                                 *)
LEMMA KnowsKept ==
    ASSUME KnowsInv, UNCHANGED <<day, snap, today>>, cron'.wrote = cron.wrote,
           cron'.pc = "read" => cron' = cron \/ cron'.read = Made',
           Made \subseteq Made',
           \A h \in Calls : run'[h].pc = "read" => run'[h] = run[h] \/ run'[h].read = Made'
    PROVE  KnowsInv'
<1>1. \A x \in Days : snap'[x] \subseteq {c \in Made' : day'[c] <= x}
  BY DEF KnowsInv
<1>2. today' \subseteq Made'
  BY DEF KnowsInv
<1>3. ASSUME NEW h \in Calls, run'[h].pc = "read" PROVE Knows(h)'
  <2>1. CASE run'[h] = run[h]
    BY <1>3, <2>1 DEF KnowsInv, Knows
  <2>2. CASE run'[h].read = Made'
    BY <1>1, <1>2, <2>2 DEF Knows
  <2> QED BY <1>3, <2>1, <2>2
<1>4. cron'.pc = "read" => cron'.read \subseteq Made'
  BY DEF KnowsInv
<1> QED BY <1>1, <1>2, <1>3, <1>4 DEF KnowsInv

(* No step unmakes a change or moves its day.                              *)
LEMMA MadeGrows ==
    ASSUME TypeOK, Next
    PROVE  Made \subseteq Made' /\ day' = day
<1> SUFFICES (\A c \in Changes : send[c] # "none" => send'[c] # "none") /\ day' = day
  BY DEF Made
<1>1. ASSUME NEW c \in Changes, Sends(c)
      PROVE  (\A e \in Changes : send[e] # "none" => send'[e] # "none") /\ day' = day
  BY <1>1 DEF Sends, Commit, SendTaken, SendDropped, AfterDrop, FollowUpTaken,
              FollowUpAbsorbed, SendFails, TypeOK
<1>2. ASSUME NEW c \in Changes, JobStarts(c) PROVE send' = send /\ day' = day
  BY <1>2 DEF JobStarts
<1>3. ASSUME NEW b \in Backfills, BackfillStarts(b) PROVE send' = send /\ day' = day
  BY <1>3 DEF BackfillStarts
<1>4. ASSUME NEW h \in Calls, Handles(h) PROVE send' = send /\ day' = day
  BY <1>4 DEF Handles, LockGranted, Read, Write, WritesNothing, Throws, Ends
<1>5. CASE SlotEnds \/ Expires \/ CronReads \/ CronWrites
  BY <1>5 DEF SlotEnds, Expires, CronReads, CronWrites
<1>6. CASE Restart
  BY <1>6 DEF Restart, TypeOK
<1> QED BY <1>1, <1>2, <1>3, <1>4, <1>5, <1>6 DEF Next

(* A call that enters the queue does not disturb the one at its head.      *)
LEMMA EnterKeepsFirst ==
    ASSUME TypeOK, LockInv, NEW h \in Calls, Lock!Enter(h, Portfolio),
           run' = [run EXCEPT ![h].pc = "asked"]
    PROVE  LockInv'
<1>1. queue[Portfolio] \in Seq(Calls)
  BY DEF TypeOK
<1>2. queue'[Portfolio] = Append(queue[Portfolio], h)
  BY DEF TypeOK, Lock!Enter
<1>3. \A g : Lock!IsFirst(g, Portfolio) => Lock!IsFirst(g, Portfolio)'
  BY <1>1, <1>2 DEF Lock!IsFirst
<1>4. \A g \in Calls : run'[g].pc = "read" => run[g].pc = "read"
  BY RunMoves DEF RunState
<1> QED BY <1>3, <1>4 DEF LockInv, Lock!Enter

(* Who ends was the one that held the lock.                                *)
LEMMA EndsFreesLock ==
    ASSUME TypeOK, LockInv, NEW h \in Calls, Ends(h)
    PROVE  LockInv' /\ \A g \in Calls : run'[g].pc # "read"
<1>1. holds' = {}
  BY DEF Ends, LockInv, Lock!Release, Lock!IsFirst
<1>2. run'[h].pc = "ended" /\ \A g \in Calls \ {h} : run'[g] = run[g]
  BY DEF Ends, TypeOK
<1>3. \A g \in Calls \ {h} : run[g].pc # "read"
  BY DEF Ends, LockInv, Lock!Release, Lock!IsFirst
<1> QED BY <1>1, <1>2, <1>3 DEF LockInv

(* What a step of the system may do to the rows.                           *)
RowsGrow ==
    /\ \A x \in Days : snap[x] \subseteq snap'[x]
    /\ cron' = cron => today \subseteq today' \cup cron.wrote

LEMMA SendsRows ==
    ASSUME TypeOK, RowsInv, NEW c \in Changes, Sends(c)
    PROVE  RowsInv' /\ RowsGrow
<1>1. UNCHANGED <<day, busy, run, lockVars, snap, today, cron>>
  BY DEF Sends, Commit, SendTaken, SendDropped, FollowUpTaken, FollowUpAbsorbed, SendFails
<1>2. Made \subseteq Made'
  BY MadeGrows DEF Next
<1>3. KnowsInv'
  BY <1>1, <1>2, KnowsKept DEF RowsInv
<1>4. LockInv'
  BY <1>1 DEF RowsInv, LockInv, lockVars, Lock!IsFirst
<1> QED BY <1>1, <1>3, <1>4 DEF RowsInv, RowsGrow

LEMMA StartsRows ==
    ASSUME TypeOK, RowsInv, NEW h \in Calls, Lock!Enter(h, Portfolio),
           run' = [run EXCEPT ![h].pc = "asked"],
           UNCHANGED <<day, send, snap, today, cron>>
    PROVE  RowsInv' /\ RowsGrow
<1>1. \A g \in Calls : run'[g].pc = "read" => run'[g] = run[g]
  BY RunMoves DEF RunState
<1>2. Made' = Made
  BY DEF Made
<1>3. KnowsInv'
  BY <1>1, <1>2, KnowsKept DEF RowsInv
<1>4. LockInv'
  BY EnterKeepsFirst DEF RowsInv
<1> QED BY <1>3, <1>4 DEF RowsInv, RowsGrow

LEMMA WriteStepRows ==
    ASSUME TypeOK, RowsInv, NEW h \in Calls, run[h].pc = "read", Ends(h),
           NEW last \in Int, WritesUpTo(h, last)
    PROVE  RowsInv' /\ RowsGrow
<1>1. Knows(h)
  BY DEF RowsInv, KnowsInv
<1>2. /\ \A x \in Days : snap[x] \subseteq snap'[x]
      /\ today \subseteq today' \cup cron.wrote
      /\ \A x \in Days : snap'[x] \subseteq {c \in run[h].read : day[c] <= x}
      /\ today' \subseteq today \cup run[h].read
  BY <1>1, WritesGrow
<1>3. UNCHANGED <<day, send, cron>> /\ Made' = Made
  BY DEF Ends, Made
<1>4. LockInv' /\ \A g \in Calls : run'[g].pc # "read"
  BY EndsFreesLock DEF RowsInv
<1>5. KnowsInv'
  <2>1. run[h].read \subseteq Made
    BY <1>1 DEF Knows
  <2> QED BY <1>2, <1>3, <1>4, <2>1 DEF KnowsInv, RowsInv
<1> QED BY <1>2, <1>4, <1>5 DEF RowsInv, RowsGrow

LEMMA HandlesRows ==
    ASSUME TypeOK, RowsInv, NEW h \in Calls, Handles(h)
    PROVE  RowsInv' /\ RowsGrow
<1>1. CASE LockGranted(h)
  <2>1. LockInv'
    BY <1>1 DEF LockGranted, Lock!Acquire, Lock!IsFirst, RowsInv, LockInv
  <2>2. KnowsInv'
    BY <1>1, KnowsKept DEF LockGranted, RowsInv, Made
  <2> QED BY <1>1, <2>1, <2>2 DEF LockGranted, RowsInv, RowsGrow
<1>2. CASE Read(h)
  <2>1. Made' = Made /\ Made \subseteq Changes
    BY <1>2 DEF Read, Made
  <2>2. /\ run'[h] = [pc |-> "read", read |-> Made]
        /\ \A g \in Calls \ {h} : run'[g] = run[g]
    BY <1>2 DEF Read, TypeOK
  <2>3. LockInv'
    BY <1>2, <2>2 DEF Read, MayRead, lockVars, Lock!IsFirst, RowsInv, LockInv
  <2>4. KnowsInv'
    <3>1. \A g \in Calls : run'[g].pc = "read" => run'[g] = run[g] \/ run'[g].read = Made'
      BY <2>1, <2>2
    <3> QED BY <1>2, <2>1, <3>1, KnowsKept DEF Read, RowsInv
  <2> QED BY <1>2, <2>3, <2>4 DEF Read, RowsInv, RowsGrow
<1>3. CASE Write(h)
  <2>1. Today \in Int
    OBVIOUS
  <2> QED BY <1>3, <2>1, WriteStepRows DEF Write
<1>4. CASE WritesNothing(h)
  <2>1. LockInv' /\ \A g \in Calls : run'[g].pc # "read"
    BY <1>4, EndsFreesLock DEF WritesNothing, RowsInv
  <2>2. KnowsInv'
    BY <1>4, <2>1, KnowsKept DEF WritesNothing, Ends, RowsInv, Made
  <2> QED BY <1>4, <2>1, <2>2 DEF WritesNothing, Ends, RowsInv, RowsGrow
<1>5. CASE Throws(h)
  <2>1. PICK last \in (From(h) - 1) .. (Today - 1) : WritesUpTo(h, last)
    BY <1>5 DEF Throws
  <2>2. last \in Int
    OBVIOUS
  <2> QED BY <1>5, <2>1, <2>2, WriteStepRows DEF Throws
<1> QED BY <1>1, <1>2, <1>3, <1>4, <1>5 DEF Handles

LEMMA OthersRows ==
    ASSUME TypeOK, RowsInv, SlotEnds \/ Expires \/ Restart \/ CronReads \/ CronWrites
    PROVE  RowsInv' /\ RowsGrow
<1>1. Made \subseteq Made' /\ day' = day
  BY MadeGrows DEF Next
<1>2. CASE SlotEnds \/ Expires
  <2>1. UNCHANGED <<run, queue, holds, snap, today, cron>>
    BY <1>2 DEF SlotEnds, Expires, lockVars
  <2>2. KnowsInv'
    BY <1>1, <2>1, KnowsKept DEF RowsInv
  <2> QED BY <2>1, <2>2 DEF RowsInv, LockInv, Lock!IsFirst, RowsGrow
<1>3. CASE Restart
  <2>1. /\ UNCHANGED <<snap, today>> /\ holds' = {}
        /\ \A g \in Calls : run'[g].pc # "read"
        /\ cron'.pc = "off" /\ cron'.wrote = cron.wrote
    BY <1>3 DEF Restart, TypeOK
  <2>2. KnowsInv'
    BY <1>1, <2>1, KnowsKept DEF RowsInv
  <2>3. LockInv'
    BY <2>1 DEF LockInv
  <2> QED BY <2>1, <2>2, <2>3 DEF RowsInv, RowsGrow
<1>4. CASE CronReads
  <2>1. /\ UNCHANGED <<run, queue, holds, snap, today, send>>
        /\ cron'.read = Made /\ cron'.wrote = cron.wrote
    BY <1>4 DEF CronReads, lockVars, TypeOK
  <2>2. KnowsInv'
    BY <1>1, <2>1, KnowsKept DEF RowsInv, Made
  <2> QED BY <2>1, <2>2 DEF RowsInv, LockInv, Lock!IsFirst, RowsGrow
<1>5. CASE CronWrites
  <2>1. UNCHANGED <<run, queue, holds, snap, send, day>>
    BY <1>5 DEF CronWrites, lockVars
  <2>2. /\ today' = cron.read /\ cron'.wrote = cron.read /\ cron'.pc = "off"
        /\ cron.pc = "read" /\ cron.read \subseteq Made
    BY <1>5 DEF CronWrites, RowsInv, KnowsInv
  <2>3. Made' = Made
    BY <2>1 DEF Made
  <2>4. KnowsInv'
    BY <2>1, <2>2, <2>3 DEF RowsInv, KnowsInv, Knows
  <2>5. cron' # cron
    BY <2>2
  <2> QED BY <2>1, <2>4, <2>5 DEF RowsInv, LockInv, Lock!IsFirst, RowsGrow
<1> QED BY <1>2, <1>3, <1>4, <1>5

LEMMA NextRows == TypeOK /\ RowsInv /\ [Next]_vars => RowsInv' /\ RowsGrow
<1> SUFFICES ASSUME TypeOK, RowsInv, [Next]_vars PROVE RowsInv' /\ RowsGrow
  OBVIOUS
<1>1. CASE UNCHANGED vars
  <2>1. UNCHANGED <<day, send, run, queue, holds, snap, today, cron>>
    BY <1>1 DEF vars, lockVars
  <2> QED BY <2>1 DEF RowsInv, LockInv, Lock!IsFirst, KnowsInv, Knows, Made, RowsGrow
<1>2. ASSUME NEW c \in Changes, JobStarts(c) PROVE RowsInv' /\ RowsGrow
  <2>1. <<c, job[c].try>> \in Calls
    BY CallsFacts DEF TypeOK
  <2> QED BY <1>2, <2>1, StartsRows DEF JobStarts
<1>3. ASSUME NEW b \in Backfills, BackfillStarts(b) PROVE RowsInv' /\ RowsGrow
  <2>1. <<b, 0>> \in Calls
    BY CallsFacts
  <2> QED BY <1>3, <2>1, StartsRows DEF BackfillStarts
<1> QED BY <1>1, <1>2, <1>3, SendsRows, HandlesRows, OthersRows DEF Next

(* A writer under the lock never puts back an older state of the portfolio *)
(* (portfolio-lock.ts:1-9): whoever has read holds the lock, and nobody    *)
(* else writes under it until he has written.                              *)
THEOREM WritersNeverGoBack == Spec => NoStaleOverwrite
<1>1. Init => TypeOK /\ JobInv /\ RowsInv
  BY InitTypes, InitRows
<1>2. TypeOK /\ JobInv /\ RowsInv /\ [Next]_vars => TypeOK' /\ JobInv' /\ RowsInv'
  BY NextTypes, NextRows
<1>3. TypeOK /\ RowsInv /\ [Next]_vars =>
         [/\ \A x \in Days : snap[x] \subseteq snap'[x]
          /\ cron' = cron => today \subseteq today' \cup cron.wrote]_vars
  BY NextRows DEF RowsGrow
<1> QED BY <1>1, <1>2, <1>3, PTL DEF Spec, NoStaleOverwrite

-----------------------------------------------------------------------------
(* A day the throttle of the follow-ups holds has a job that has not       *)
(* started, so that a follow-up it absorbs will be read.                   *)
FollowInv ==
    \A x \in slot.follow : \E e \in Changes : day[e] = x /\ job[e].state = "deferred"

AccountInv == FollowInv /\ NoChangeForgotten

Accounted(c) ==
    Shown(c) \/ \E e \in Changes : day[e] = day[c] /\ Pending(e, c)

LEMMA InitAccount == Init => AccountInv
BY DEF Init, AccountInv, FollowInv, NoChangeForgotten

(* A deferred job stays deferred until its slot ends.                      *)
LEMMA FollowKept ==
    ASSUME FollowInv, day' = day, slot'.follow = slot.follow,
           \A e \in Changes : job[e].state = "deferred" => job'[e].state = "deferred"
    PROVE  FollowInv'
BY DEF FollowInv

(* A change the rows show stays shown.                                     *)
LEMMA ShownStays ==
    ASSUME TypeOK, RowsGrow, day' = day, NEW c \in Changes, Shown(c)
    PROVE  Shown(c)'
BY DEF Shown, RowsGrow, Days, TypeOK

(* A step that forgets nobody: what was accounted for stays so unless it   *)
(* is given up, and no change is sent without being accounted for.         *)
LEMMA NobodyForgotten ==
    ASSUME NoChangeForgotten, gaveUp \subseteq gaveUp',
           \A c \in Changes :
              send[c] = "sent" /\ Accounted(c) => Accounted(c)' \/ c \in gaveUp',
           \A c \in Changes : send'[c] = "sent" => send[c] = "sent" \/ Accounted(c)'
    PROVE  NoChangeForgotten'
BY DEF NoChangeForgotten, Accounted

(* One job kept, so is what it accounts for.                               *)
LEMMA PendingKept ==
    ASSUME NEW e \in Changes, NEW c \in Changes, Pending(e, c), job'[e] = job[e],
           job[e].state = "active" => run'[<<e, job[e].try>>] = run[<<e, job[e].try>>]
    PROVE  Pending(e, c)'
BY DEF Pending, WillShow

LEMMA SendsAccount ==
    ASSUME TypeOK, JobInv, AccountInv, NEW c \in Changes, Sends(c)
    PROVE  AccountInv'
<1>1. UNCHANGED <<day, run, snap, gaveUp>>
  BY DEF Sends, Commit, SendTaken, SendDropped, FollowUpTaken, FollowUpAbsorbed, SendFails
<1>2. ASSUME NEW s \in {"waiting", "deferred"}, job[c].state = "none",
             job' = [job EXCEPT ![c].state = s], send' = [send EXCEPT ![c] = "sent"],
             slot'.follow \ slot.follow \subseteq IF s = "deferred" THEN {day[c]} ELSE {}
      PROVE  AccountInv'
  <2>1. /\ \A e \in Changes \ {c} : job'[e] = job[e]
        /\ job'[c].state = s
    BY <1>2, JobMoves DEF JobState
  <2>2. FollowInv'
    BY <1>1, <1>2, <2>1 DEF AccountInv, FollowInv
  <2>3. \A d \in Changes : Accounted(d) => Accounted(d)'
    <3> SUFFICES ASSUME NEW d \in Changes, Accounted(d) PROVE Accounted(d)'
      OBVIOUS
    <3>1. CASE Shown(d)
      BY <1>1, <3>1 DEF Shown, Accounted
    <3>2. ASSUME NEW e \in Changes, day[e] = day[d], Pending(e, d) PROVE Accounted(d)'
      <4>1. e # c
        BY <1>2, <3>2 DEF Pending
      <4>2. Pending(e, d)'
        BY <1>1, <2>1, <3>2, <4>1, PendingKept
      <4> QED BY <1>1, <3>2, <4>2 DEF Accounted
    <3> QED BY <3>1, <3>2 DEF Accounted
  <2>4. Pending(c, c)'
    BY <2>1 DEF Pending
  <2>5. \A d \in Changes : send'[d] = "sent" => send[d] = "sent" \/ Accounted(d)'
    BY <1>2, <2>4 DEF TypeOK, Accounted
  <2>6. NoChangeForgotten'
    BY <1>1, <2>3, <2>5, NobodyForgotten DEF AccountInv
  <2> QED BY <2>2, <2>6 DEF AccountInv
<1>3. ASSUME UNCHANGED <<job, slot>>,
             \A d \in Changes : send'[d] = "sent" => send[d] = "sent" \/ Accounted(d)
      PROVE  AccountInv'
  <2>1. FollowInv'
    BY <1>1, <1>3, FollowKept DEF AccountInv
  <2>2. \A d \in Changes : Accounted(d) => Accounted(d)'
    BY <1>1, <1>3 DEF Accounted, Shown, Pending, WillShow
  <2>3. NoChangeForgotten'
    BY <1>1, <1>3, <2>2, NobodyForgotten DEF AccountInv
  <2> QED BY <2>1, <2>3 DEF AccountInv
<1>4. CASE Commit(c) \/ SendDropped(c) \/ SendFails(c)
  <2>1. UNCHANGED <<job, slot>> /\ \A d \in Changes : send'[d] = "sent" => send[d] = "sent"
    BY <1>4 DEF Commit, SendDropped, AfterDrop, SendFails, TypeOK
  <2> QED BY <1>3, <2>1
<1>5. CASE SendTaken(c)
  <2>1. slot'.follow = slot.follow
    BY <1>5 DEF SendTaken, TypeOK
  <2>2. job[c].state = "none"
    BY <1>5 DEF SendTaken, JobInv
  <2> QED BY <1>2, <1>5, <2>1, <2>2 DEF SendTaken
<1>6. CASE FollowUpTaken(c)
  <2>1. slot'.follow = slot.follow \cup {day[c]}
    BY <1>6 DEF FollowUpTaken, TypeOK
  <2>2. job[c].state = "none"
    BY <1>6 DEF FollowUpTaken, JobInv
  <2> QED BY <1>2, <1>6, <2>1, <2>2 DEF FollowUpTaken, FollowUpState
<1>7. CASE FollowUpAbsorbed(c)
  <2>1. PICK e \in Changes : day[e] = day[c] /\ job[e].state = "deferred"
    BY <1>7 DEF FollowUpAbsorbed, Absorbed, AccountInv, FollowInv
  <2>2. Accounted(c)
    BY <2>1 DEF Accounted, Pending
  <2>3. \A d \in Changes : send'[d] = "sent" => send[d] = "sent" \/ d = c
    BY <1>7 DEF FollowUpAbsorbed, TypeOK
  <2> QED BY <1>3, <1>7, <2>2, <2>3 DEF FollowUpAbsorbed
<1> QED BY <1>4, <1>5, <1>6, <1>7 DEF Sends

LEMMA JobStartsAccount ==
    ASSUME TypeOK, JobInv, AccountInv, NEW c \in Changes, JobStarts(c)
    PROVE  AccountInv'
<1> DEFINE h == <<c, job[c].try>>
<1>1. h \in Calls
  BY CallsFacts DEF TypeOK
<1>2. /\ \A e \in Changes \ {c} : job'[e] = job[e]
      /\ job'[c].state = "active" /\ job'[c].try = job[c].try
  BY JobMoves DEF JobStarts, JobState
<1>3. run'[h].pc = "asked"
  BY <1>1, RunMoves DEF JobStarts, RunState
<1>4. UNCHANGED <<day, send, slot, snap, gaveUp>> /\ job[c].state = "waiting" /\ busy = None
  BY DEF JobStarts
<1>5. FollowInv'
  BY <1>2, <1>4, FollowKept DEF AccountInv
<1>6. \A d \in Changes : Accounted(d) => Accounted(d)'
  <2> SUFFICES ASSUME NEW d \in Changes, Accounted(d) PROVE Accounted(d)'
    OBVIOUS
  <2>1. CASE Shown(d)
    BY <1>4, <2>1 DEF Shown, Accounted
  <2>2. ASSUME NEW e \in Changes, day[e] = day[d], Pending(e, d) PROVE Accounted(d)'
    <3>1. CASE e = c
      <4>1. Pending(c, d)'
        BY <1>2, <1>3 DEF Pending, WillShow
      <4> QED BY <1>4, <2>2, <3>1, <4>1 DEF Accounted
    <3>2. CASE e # c
      <4>1. job[e].state # "active"
        BY <1>4, CallsFacts DEF JobInv, TypeOK
      <4>2. Pending(e, d)'
        BY <1>2, <2>2, <3>2, <4>1, PendingKept
      <4> QED BY <1>4, <2>2, <4>2 DEF Accounted
    <3> QED BY <3>1, <3>2
  <2> QED BY <2>1, <2>2 DEF Accounted
<1>7. NoChangeForgotten'
  BY <1>4, <1>6, NobodyForgotten DEF AccountInv
<1> QED BY <1>5, <1>7 DEF AccountInv

(* A handler that ends without shrinking a row: what it had read is shown, *)
(* or given up, or its job is tried again.                                 *)
LEMMA EndsAccount ==
    ASSUME TypeOK, JobInv, AccountInv, RowsGrow, NEW h \in Calls,
           run[h].pc = "read", Ends(h),
           busy # h => UNCHANGED <<job, gaveUp>>,
           busy = h => \/ Done(h[1]) /\ \A x \in Days : x >= From(h) =>
                                {c \in run[h].read : day[c] <= x} \subseteq snap'[x]
                       \/ GivesUp(h[1]) \/ Retried(h[1])
    PROVE  AccountInv'
<1>1. /\ UNCHANGED <<day, send, slot>>
      /\ \A g \in Calls \ {h} : run'[g] = run[g]
  BY DEF Ends, TypeOK
<1>2. ASSUME NEW e \in Changes, job[e].state = "active", <<e, job[e].try>> = h
      PROVE  busy = h
  BY <1>2 DEF JobInv
<1>3. CASE busy # h
  <2>1. UNCHANGED <<job, gaveUp>>
    BY <1>3
  <2>2. FollowInv'
    BY <1>1, <2>1, FollowKept DEF AccountInv
  <2>3. \A d \in Changes : Accounted(d) => Accounted(d)'
    <3> SUFFICES ASSUME NEW d \in Changes, Accounted(d) PROVE Accounted(d)'
      OBVIOUS
    <3>1. CASE Shown(d)
      BY <1>1, <3>1, ShownStays DEF Accounted
    <3>2. ASSUME NEW e \in Changes, day[e] = day[d], Pending(e, d) PROVE Accounted(d)'
      <4>1. <<e, job[e].try>> \in Calls
        BY CallsFacts DEF TypeOK
      <4>2. Pending(e, d)'
        BY <1>1, <1>2, <1>3, <2>1, <3>2, <4>1, PendingKept
      <4> QED BY <1>1, <3>2, <4>2 DEF Accounted
    <3> QED BY <3>1, <3>2 DEF Accounted
  <2>4. NoChangeForgotten'
    BY <1>1, <2>1, <2>3, NobodyForgotten DEF AccountInv
  <2> QED BY <2>2, <2>4 DEF AccountInv
<1>4. CASE busy = h
  <2>1. h[1] \in Changes /\ job[h[1]].state = "active" /\ h = <<h[1], job[h[1]].try>>
    BY <1>4, CallsFacts DEF JobInv
  <2>2. \A e \in Changes \ {h[1]} : job'[e] = job[e]
    BY <1>4, <2>1, RetriedType, GivesUpType, DoneType
  <2>3. gaveUp \subseteq gaveUp'
    BY <1>4 DEF Done, GivesUp, Retried
  <2>4. FollowInv'
    BY <1>1, <2>1, <2>2, FollowKept DEF AccountInv
  <2>5. ASSUME NEW d \in Changes, send[d] = "sent", Accounted(d)
        PROVE  Accounted(d)' \/ d \in gaveUp'
    <3>1. CASE Shown(d)
      BY <1>1, <3>1, ShownStays DEF Accounted
    <3>2. ASSUME NEW e \in Changes, e # h[1], day[e] = day[d], Pending(e, d)
          PROVE  Accounted(d)'
      <4>1. <<e, job[e].try>> \in Calls /\ <<e, job[e].try>> # h
        BY <3>2, CallsFacts DEF TypeOK
      <4>2. Pending(e, d)'
        BY <1>1, <2>2, <3>2, <4>1, PendingKept
      <4> QED BY <1>1, <3>2, <4>2 DEF Accounted
    <3>3. CASE day[h[1]] = day[d] /\ Pending(h[1], d)
      <4>1. d \in run[h].read
        BY <2>1, <3>3 DEF Pending, WillShow
      <4>2. CASE Done(h[1]) /\ \A x \in Days : x >= From(h) =>
                   {c \in run[h].read : day[c] <= x} \subseteq snap'[x]
        <5>1. From(h) = day[d] /\ day[d] \in Days
          BY <2>1, <3>3 DEF From, TypeOK
        <5>2. ASSUME NEW x \in day[d] .. Today PROVE d \in snap'[x]
          <6>1. x \in Days /\ x >= From(h) /\ day[d] <= x
            BY <5>1 DEF Days
          <6> QED BY <4>1, <4>2, <6>1
        <5> QED BY <1>1, <5>2 DEF Accounted, Shown
      <4>3. CASE GivesUp(h[1])
        BY <2>1, <2>5, <3>3, <4>3 DEF GivesUp, SameDay, Made
      <4>4. CASE job'[h[1]].state = "waiting"
        BY <1>1, <2>1, <3>3, <4>4 DEF Accounted, Pending
      <4>5. ASSUME Retried(h[1]) PROVE GivesUp(h[1]) \/ job'[h[1]].state = "waiting"
        BY <2>1, <4>5 DEF Retried, TypeOK
      <4> QED BY <1>4, <4>2, <4>3, <4>4, <4>5
    <3> QED BY <2>5, <3>1, <3>2, <3>3 DEF Accounted
  <2>6. NoChangeForgotten'
    BY <1>1, <2>3, <2>5, NobodyForgotten DEF AccountInv
  <2> QED BY <2>4, <2>6 DEF AccountInv
<1> QED BY <1>3, <1>4

LEMMA HandlesAccount ==
    ASSUME TypeOK, JobInv, RowsInv, AccountInv, NEW h \in Calls, Handles(h)
    PROVE  AccountInv'
<1>1. RowsGrow
  BY HandlesRows
<1>2. CASE LockGranted(h)
  <2>1. UNCHANGED <<day, send, slot, job, run, snap, gaveUp>>
    BY <1>2 DEF LockGranted
  <2> QED BY <2>1 DEF AccountInv, FollowInv, NoChangeForgotten, Shown, Pending, WillShow
<1>3. CASE Read(h)
  <2>1. UNCHANGED <<day, send, slot, job, snap, gaveUp>>
    BY <1>3 DEF Read
  <2>2. /\ run'[h] = [pc |-> "read", read |-> Made]
        /\ \A g \in Calls \ {h} : run'[g] = run[g]
    BY <1>3 DEF Read, TypeOK
  <2>3. ASSUME NEW d \in Changes, send[d] = "sent", Accounted(d) PROVE Accounted(d)'
    <3>1. CASE Shown(d)
      BY <1>1, <2>1, <3>1, ShownStays DEF Accounted
    <3>2. ASSUME NEW e \in Changes, day[e] = day[d], Pending(e, d) PROVE Pending(e, d)'
      <4>1. <<e, job[e].try>> \in Calls
        BY CallsFacts DEF TypeOK
      <4>2. CASE <<e, job[e].try>> = h
        BY <2>1, <2>2, <2>3, <3>2, <4>2 DEF Pending, WillShow, Made
      <4>3. CASE <<e, job[e].try>> # h
        BY <2>1, <2>2, <3>2, <4>1, <4>3, PendingKept
      <4> QED BY <4>2, <4>3
    <3> QED BY <2>1, <2>3, <3>1, <3>2 DEF Accounted
  <2>4. NoChangeForgotten'
    BY <2>1, <2>3, NobodyForgotten DEF AccountInv
  <2>5. FollowInv'
    BY <2>1, FollowKept DEF AccountInv
  <2> QED BY <2>4, <2>5 DEF AccountInv
<1>4. CASE Write(h)
  <2>1. \A x \in Days : x >= From(h) =>
           {c \in run[h].read : day[c] <= x} \subseteq snap'[x]
    BY <1>4, FromIsDay DEF Write, WritesUpTo, Days
  <2> QED BY <1>1, <1>4, <2>1, EndsAccount DEF Write, Settles
<1>5. CASE WritesNothing(h)
  BY <1>1, <1>5, EndsAccount DEF WritesNothing, Settles
<1>6. CASE Throws(h)
  BY <1>1, <1>6, EndsAccount DEF Throws, Settles
<1> QED BY <1>2, <1>3, <1>4, <1>5, <1>6 DEF Handles

LEMMA BackfillStartsAccount ==
    ASSUME TypeOK, JobInv, AccountInv, NEW b \in Backfills, BackfillStarts(b)
    PROVE  AccountInv'
<1>1. UNCHANGED <<day, send, slot, job, snap, gaveUp>>
  BY DEF BackfillStarts
<1>2. \A g \in Calls \ {<<b, 0>>} : run'[g] = run[g]
  BY DEF BackfillStarts, TypeOK
<1>3. \A e \in Changes : <<e, job[e].try>> \in Calls \ {<<b, 0>>}
  BY CallsFacts DEF TypeOK
<1>4. \A d \in Changes : Accounted(d) => Accounted(d)'
  BY <1>1, <1>2, <1>3 DEF Accounted, Shown, Pending, WillShow
<1>5. NoChangeForgotten'
  BY <1>1, <1>4, NobodyForgotten DEF AccountInv
<1>6. FollowInv'
  BY <1>1, FollowKept DEF AccountInv
<1> QED BY <1>5, <1>6 DEF AccountInv

LEMMA SlotEndsAccount == TypeOK /\ AccountInv /\ SlotEnds => AccountInv'
<1> SUFFICES ASSUME TypeOK, AccountInv, SlotEnds PROVE AccountInv'
  OBVIOUS
<1>1. UNCHANGED <<day, send, run, snap, gaveUp>> /\ slot'.follow = {}
  BY DEF SlotEnds
<1>2. \A e \in Changes : \/ job[e].state # "deferred" /\ job'[e] = job[e]
                         \/ job[e].state = "deferred" /\ job'[e].state = "waiting"
  BY DEF SlotEnds, TypeOK
<1>3. \A d, e \in Changes : Pending(e, d) => Pending(e, d)'
  BY <1>1, <1>2 DEF Pending, WillShow
<1>4. \A d \in Changes : Accounted(d) => Accounted(d)'
  BY <1>1, <1>3 DEF Accounted, Shown
<1>5. NoChangeForgotten'
  BY <1>1, <1>4, NobodyForgotten DEF AccountInv
<1>6. FollowInv'
  BY <1>1 DEF FollowInv
<1> QED BY <1>5, <1>6 DEF AccountInv

(* The delivery the worker awaits is gone: its job is tried again or given *)
(* up, and no other job was active.                                        *)
LEMMA RetriedAccount ==
    ASSUME TypeOK, JobInv, AccountInv, busy # None, Retried(busy[1]),
           UNCHANGED <<day, slot, snap>>,
           \A c \in Changes : send'[c] = "sent" <=> send[c] = "sent"
    PROVE  AccountInv'
<1> DEFINE b == busy[1]
<1>1. /\ b \in Changes /\ \A e \in Changes : job[e].state = "active" => e = b
      /\ job[b].state = "active"
  BY DEF JobInv
<1>2. \A e \in Changes \ {b} : job'[e] = job[e]
  BY <1>1, RetriedType
<1>3. FollowInv'
  BY <1>1, <1>2, FollowKept DEF AccountInv
<1>4. gaveUp \subseteq gaveUp'
  BY DEF Retried, GivesUp
<1>5. GivesUp(b) \/ job'[b].state = "waiting"
  BY <1>1 DEF Retried, TypeOK
<1>6. ASSUME NEW d \in Changes, send[d] = "sent", Accounted(d)
      PROVE  Accounted(d)' \/ d \in gaveUp'
  <2>1. CASE Shown(d)
    BY <2>1 DEF Shown, Accounted
  <2>2. ASSUME NEW e \in Changes, e # b, day[e] = day[d], Pending(e, d) PROVE Accounted(d)'
    BY <1>1, <1>2, <2>2 DEF Pending, Accounted
  <2>3. CASE day[b] = day[d] /\ GivesUp(b)
    BY <1>6, <2>3 DEF GivesUp, SameDay, Made
  <2>4. CASE day[b] = day[d] /\ job'[b].state = "waiting"
    BY <1>1, <2>4 DEF Accounted, Pending
  <2> QED BY <1>5, <1>6, <2>1, <2>2, <2>3, <2>4 DEF Accounted
<1>7. NoChangeForgotten'
  BY <1>4, <1>6, NobodyForgotten DEF AccountInv
<1> QED BY <1>3, <1>7 DEF AccountInv

LEMMA OthersAccount ==
    ASSUME TypeOK, JobInv, AccountInv, Expires \/ Restart \/ CronReads \/ CronWrites
    PROVE  AccountInv'
<1>1. CASE Expires
  BY <1>1, RetriedAccount DEF Expires
<1>2. CASE Restart /\ busy # None
  <2>1. \A c \in Changes : send'[c] = "sent" <=> send[c] = "sent"
    BY <1>2 DEF Restart
  <2> QED BY <1>2, <2>1, RetriedAccount DEF Restart
<1>3. CASE Restart /\ busy = None
  <2>1. UNCHANGED <<day, slot, job, snap, gaveUp>>
    BY <1>3 DEF Restart
  <2>2. \A c \in Changes : job[c].state # "active"
    BY <1>3, CallsFacts DEF JobInv, TypeOK
  <2>3. \A d \in Changes : Accounted(d) => Accounted(d)'
    BY <2>1, <2>2 DEF Accounted, Shown, Pending
  <2>4. \A c \in Changes : send'[c] = "sent" => send[c] = "sent"
    BY <1>3 DEF Restart
  <2>5. NoChangeForgotten'
    BY <2>1, <2>3, <2>4, NobodyForgotten DEF AccountInv
  <2>6. FollowInv'
    BY <2>1, FollowKept DEF AccountInv
  <2> QED BY <2>5, <2>6 DEF AccountInv
<1>4. CASE CronReads \/ CronWrites
  <2>1. UNCHANGED <<day, send, slot, job, run, snap, gaveUp>>
    BY <1>4 DEF CronReads, CronWrites
  <2> QED BY <2>1 DEF AccountInv, FollowInv, NoChangeForgotten, Shown, Pending, WillShow
<1> QED BY <1>1, <1>2, <1>3, <1>4

LEMMA NextAccount ==
    TypeOK /\ JobInv /\ RowsInv /\ AccountInv /\ [Next]_vars => AccountInv'
<1> SUFFICES ASSUME TypeOK, JobInv, RowsInv, AccountInv, [Next]_vars PROVE AccountInv'
  OBVIOUS
<1>1. CASE UNCHANGED vars
  BY <1>1 DEF vars, AccountInv, FollowInv, NoChangeForgotten, Shown, Pending, WillShow
<1> QED BY <1>1, SendsAccount, JobStartsAccount, BackfillStartsAccount, HandlesAccount,
           SlotEndsAccount, OthersAccount DEF Next

(* No recompute is lost on its way (enqueue.ts:104-111): a change whose    *)
(* send was taken or absorbed is in the snapshots, or a job of its day     *)
(* will read it, or the retries of its job were used up.                   *)
THEOREM RecomputesAccountedFor == Spec => []NoChangeForgotten
<1>1. Init => TypeOK /\ JobInv /\ RowsInv /\ AccountInv
  BY InitTypes, InitRows, InitAccount
<1>2. TypeOK /\ JobInv /\ RowsInv /\ AccountInv /\ [Next]_vars
         => TypeOK' /\ JobInv' /\ RowsInv' /\ AccountInv'
  BY NextTypes, NextRows, NextAccount
<1>3. AccountInv => NoChangeForgotten
  BY DEF AccountInv
<1> QED BY <1>1, <1>2, <1>3, PTL DEF Spec
=============================================================================
