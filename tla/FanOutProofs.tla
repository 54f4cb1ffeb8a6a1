---------------------------- MODULE FanOutProofs ----------------------------
(***************************************************************************)
(* Theorems about FanOut, for any set of instruments, first days and       *)
(* planners, and any bounds.                                               *)
(***************************************************************************)
EXTENDS FanOut, TLAPS

-----------------------------------------------------------------------------
(* Types.                                                                  *)

Pcs      == {"off", "planning", "sending", "polling", "cleaning", "snapshots"}
Verdict  == {"none", "success", "failed", "timeout"}

LEMMA OffTyped == Off \in PlannerType /\ NoRow \in RowType
BY BoundsAssumption DEF Off, NoIds, NoRow, PlannerType, RowType, Claims, Status

(* The updates of a planner keep its type.                                 *)
LEMMA PlannerEdits ==
    ASSUME NEW r \in PlannerType, NEW S \in SUBSET Key, NEW pc \in Pcs
    PROVE  /\ [r EXCEPT !.pc = pc] \in PlannerType
           /\ [r EXCEPT !.pc = pc, !.todo = S] \in PlannerType
           /\ [r EXCEPT !.todo = S, !.pc = pc] \in PlannerType
           /\ \A v \in Verdict : [r EXCEPT !.pc = pc, !.verdict = v] \in PlannerType
           /\ \A f \in [Key -> Claims] : [r EXCEPT !.todo = S, !.ids = f] \in PlannerType
           /\ \A c \in Claims : [r EXCEPT !.pc = pc, !.claim = c] \in PlannerType
           /\ \A c \in Claims :
                 [r EXCEPT !.pc = pc, !.claim = c, !.plan = S, !.todo = S] \in PlannerType
<1>1. [r EXCEPT !.pc = pc] \in PlannerType
  BY DEF PlannerType, Pcs
<1>2. [r EXCEPT !.pc = pc, !.todo = S] \in PlannerType
  BY DEF PlannerType, Pcs
<1>3. [r EXCEPT !.todo = S, !.pc = pc] \in PlannerType
  BY DEF PlannerType, Pcs
<1>4. ASSUME NEW v \in Verdict
      PROVE  [r EXCEPT !.pc = pc, !.verdict = v] \in PlannerType
  BY DEF PlannerType, Pcs, Verdict
<1>5. ASSUME NEW f \in [Key -> Claims]
      PROVE  [r EXCEPT !.todo = S, !.ids = f] \in PlannerType
  BY DEF PlannerType, Pcs
<1>6. ASSUME NEW c \in Claims
      PROVE  [r EXCEPT !.pc = pc, !.claim = c] \in PlannerType
  BY DEF PlannerType, Pcs
<1>7. ASSUME NEW c \in Claims
      PROVE  [r EXCEPT !.pc = pc, !.claim = c, !.plan = S, !.todo = S] \in PlannerType
  BY DEF PlannerType, Pcs
<1> QED
  BY <1>1, <1>2, <1>3, <1>4, <1>5, <1>6, <1>7

LEMMA TypeInit == Init => TypeOK
BY BoundsAssumption DEF Init, TypeOK, NoRow, NoIds, Off, RowType, PlannerType, JobType, Status, Claims

LEMMA TypeEnds ==
    ASSUME TypeOK, NEW p \in Planners, Ends(p)
    PROVE  /\ planner' \in [Planners -> PlannerType]
           /\ fed' \subseteq Key \X Claims
           /\ raced' \subseteq Key \X Claims
BY OffTyped DEF TypeOK, Ends

LEMMA TypeDeleted ==
    ASSUME TypeOK, NEW S, Deleted(S)
    PROVE  row' \in [Key -> RowType]
BY OffTyped DEF TypeOK, Deleted

LEMMA TypePlanStarts ==
    ASSUME TypeOK, NEW p \in Planners, NEW held \in SUBSET Instruments,
           NEW start \in Starts, PlanStarts(p, held, start)
    PROVE  TypeOK'
<1> DEFINE new == [Off EXCEPT !.pc = "planning", !.claim = counts.claims + 1,
                      !.plan = held \X {start}, !.todo = held \X {start}]
<1>1. counts.claims + 1 \in Claims
  BY BoundsAssumption DEF TypeOK, PlanStarts, Claims
<1>2. held \X {start} \in SUBSET Key
  BY DEF Key
<1>3. new \in PlannerType
  BY <1>1, <1>2, OffTyped, PlannerEdits DEF Pcs
<1>4. planner' \in [Planners -> PlannerType]
  <2> HIDE DEF new
  <2> QED BY <1>3 DEF TypeOK, PlanStarts, new
<1>5. counts' \in [claims: Claims, faults: 0 .. MaxFaults]
  BY <1>1 DEF TypeOK, PlanStarts
<1> QED
  BY <1>4, <1>5 DEF TypeOK, PlanStarts

LEMMA TypePlanNothing ==
    ASSUME TypeOK, NEW p \in Planners, PlanNothing(p)
    PROVE  TypeOK'
<1>1. counts.claims + 1 \in Claims
  BY BoundsAssumption DEF TypeOK, PlanNothing, Claims
<1>3. [Off EXCEPT !.pc = "snapshots", !.claim = counts.claims + 1] \in PlannerType
  BY <1>1, OffTyped, PlannerEdits DEF Pcs
<1>4. planner' \in [Planners -> PlannerType]
  BY <1>3 DEF TypeOK, PlanNothing
<1>5. counts' \in [claims: Claims, faults: 0 .. MaxFaults]
  BY <1>1 DEF TypeOK, PlanNothing
<1> QED
  BY <1>4, <1>5 DEF TypeOK, PlanNothing

LEMMA UpsertedType ==
    ASSUME TypeOK, NEW p \in Planners, NEW k \in Key
    PROVE  /\ Upserted(k, Claim(p)) \in RowType
           /\ Upserted(k, Claim(p)).id \in Claims
           /\ Upserted(k, Claim(p)).claim = Claim(p)
           /\ Upserted(k, Claim(p)).status = "pending"
           /\ Upserted(k, Claim(p)).old = FALSE
BY DEF TypeOK, Upserted, Claim, RowType, PlannerType, Status

LEMMA TypePlanUpsert ==
    ASSUME TypeOK, NEW p \in Planners, NEW k \in Key, PlanUpsert(p, k)
    PROVE  TypeOK'
<1>1. row' \in [Key -> RowType]
  BY UpsertedType DEF TypeOK, PlanUpsert
<1>2. raced' \subseteq Key \X Claims
  BY DEF TypeOK, PlanUpsert, Claim, PlannerType
<1>3. planner' = [planner EXCEPT ![p] =
          [planner[p] EXCEPT !.todo = @ \ {k}, !.ids = [@ EXCEPT ![k] = Upserted(k, Claim(p)).id]]]
  BY DEF TypeOK, PlanUpsert, PlannerType
<1>4. /\ planner[p] \in PlannerType
      /\ planner[p].todo \ {k} \in SUBSET Key
      /\ [planner[p].ids EXCEPT ![k] = Upserted(k, Claim(p)).id] \in [Key -> Claims]
  BY UpsertedType DEF TypeOK, PlannerType
<1>5. [planner[p] EXCEPT !.todo = @ \ {k}, !.ids = [@ EXCEPT ![k] = Upserted(k, Claim(p)).id]]
          \in PlannerType
  BY <1>4, PlannerEdits DEF Pcs
<1>6. planner' \in [Planners -> PlannerType]
  BY <1>3, <1>5 DEF TypeOK
<1> QED
  BY <1>1, <1>2, <1>6 DEF TypeOK, PlanUpsert

LEMMA TypePlanner ==
    ASSUME TypeOK, NEW p \in Planners
    PROVE  /\ Reap(p) => TypeOK'
           /\ SendFails(p) => TypeOK'
           /\ PollDecides(p) => TypeOK'
           /\ PollLost(p) \/ PollAborts(p) \/ Snapshots(p) => TypeOK'
           /\ Clean(p) => TypeOK'
<1>1. ASSUME Reap(p) PROVE TypeOK'
  <2> DEFINE pc == IF Plan(p) = {} THEN "snapshots" ELSE "sending"
  <2>1. planner' = [planner EXCEPT ![p] = [planner[p] EXCEPT !.pc = pc, !.todo = Plan(p)]]
    BY <1>1 DEF TypeOK, Reap
  <2>2. planner[p] \in PlannerType /\ Plan(p) \in SUBSET Key /\ pc \in Pcs
    BY DEF TypeOK, PlannerType, Plan, Pcs
  <2>3. [planner[p] EXCEPT !.pc = pc, !.todo = Plan(p)] \in PlannerType
    <3> HIDE DEF pc
    <3> QED BY <2>2, PlannerEdits
  <2>4. planner' \in [Planners -> PlannerType]
    BY <2>1, <2>3 DEF TypeOK
  <2> QED BY <1>1, <2>4, TypeDeleted DEF Reap, TypeOK, KeepsHistory
<1>2. ASSUME SendFails(p) PROVE TypeOK'
  BY <1>2, TypeEnds, TypeDeleted DEF SendFails, TypeOK
<1>3. ASSUME PollDecides(p) PROVE TypeOK'
  <2>1. PICK v \in Verdict :
            planner' = [planner EXCEPT ![p].pc = "cleaning", ![p].verdict = v]
    BY <1>3 DEF PollDecides, Verdicts, Seen, Verdict
  <2>2. planner' = [planner EXCEPT ![p] =
                        [planner[p] EXCEPT !.pc = "cleaning", !.verdict = v]]
    BY <2>1 DEF TypeOK
  <2>3. [planner[p] EXCEPT !.pc = "cleaning", !.verdict = v] \in PlannerType
    BY PlannerEdits DEF TypeOK, Pcs
  <2>4. planner' \in [Planners -> PlannerType]
    BY <2>2, <2>3 DEF TypeOK
  <2> QED BY <1>3, <2>4 DEF PollDecides, TypeOK, KeepsHistory
<1>4. ASSUME PollLost(p) \/ PollAborts(p) \/ Snapshots(p) PROVE TypeOK'
  BY <1>4, TypeEnds DEF PollLost, PollAborts, Snapshots, TypeOK
<1>5. ASSUME Clean(p) PROVE TypeOK'
  <2>1. row' \in [Key -> RowType]
    BY <1>5, TypeDeleted DEF Clean
  <2>2. /\ planner' \in [Planners -> PlannerType]
        /\ fed' \subseteq Key \X Claims
        /\ raced' \subseteq Key \X Claims
    <3>1. CASE planner[p].verdict = "success"
      <4>1. planner' = [planner EXCEPT ![p] = [planner[p] EXCEPT !.pc = "snapshots"]]
        BY <1>5, <3>1 DEF Clean, TypeOK
      <4>2. [planner[p] EXCEPT !.pc = "snapshots"] \in PlannerType
        BY PlannerEdits DEF TypeOK, Pcs
      <4> QED BY <1>5, <3>1, <4>1, <4>2 DEF Clean, TypeOK
    <3>2. CASE planner[p].verdict # "success"
      BY <1>5, <3>2, TypeEnds DEF Clean
    <3> QED BY <3>1, <3>2
  <2> QED BY <1>5, <2>1, <2>2 DEF Clean, TypeOK
<1> QED
  BY <1>1, <1>2, <1>3, <1>4, <1>5

LEMMA TypeSend ==
    ASSUME TypeOK, NEW p \in Planners, NEW k \in Key, Send(p, k)
    PROVE  TypeOK'
<1>1. NewJob(p, k) \in JobType
  BY BoundsAssumption DEF TypeOK, NewJob, JobType, PlannerType, Claim
<1> DEFINE pc == IF planner[p].todo = {k} THEN "polling" ELSE planner[p].pc
<1>2. planner' = [planner EXCEPT ![p] =
                      [planner[p] EXCEPT !.todo = planner[p].todo \ {k}, !.pc = pc]]
  BY DEF TypeOK, Send
<1>3. planner[p] \in PlannerType /\ planner[p].todo \ {k} \in SUBSET Key /\ pc \in Pcs
  BY DEF TypeOK, PlannerType, Pcs
<1>4. [planner[p] EXCEPT !.todo = planner[p].todo \ {k}, !.pc = pc] \in PlannerType
  <2> HIDE DEF pc
  <2> QED BY <1>3, PlannerEdits
<1>5. planner' \in [Planners -> PlannerType]
  BY <1>2, <1>4 DEF TypeOK
<1> QED
  BY <1>1, <1>5 DEF TypeOK, Send, KeepsHistory

LEMMA TypeRetried ==
    ASSUME TypeOK, NEW j \in jobs
    PROVE  Retried(j) \subseteq JobType
<1>1. CASE j.try < RetryLimit
  <2>1. j \in JobType /\ j.try + 1 \in 0 .. RetryLimit
    BY <1>1, BoundsAssumption DEF TypeOK, JobType
  <2>2. [j EXCEPT !.pc = "waiting", !.try = @ + 1] \in JobType
    BY <2>1 DEF JobType
  <2> QED BY <1>1, <2>2 DEF Retried
<1>2. CASE ~(j.try < RetryLimit)
  BY <1>2 DEF Retried
<1> QED BY <1>1, <1>2

LEMMA TypeMarked ==
    ASSUME TypeOK, NEW j \in jobs, NEW status \in Status
    PROVE  Marked(j, status) \in [Key -> RowType]
BY DEF TypeOK, Marked, JobType, RowType

LEMMA TypeJobs ==
    ASSUME TypeOK, NEW j \in jobs, SubStep(j)
    PROVE  TypeOK'
<1>1. ASSUME SubStarts(j) PROVE TypeOK'
  BY <1>1 DEF TypeOK, SubStarts, Becomes, KeepsHistory, JobType
<1>2. ASSUME SubFetches(j) PROVE TypeOK'
  BY <1>2 DEF TypeOK, SubFetches, Becomes, JobType
<1>3. ASSUME SubMarks(j) PROVE TypeOK'
  BY <1>3, TypeMarked DEF TypeOK, SubMarks, Becomes, KeepsHistory, Status
<1>4. ASSUME SubThrows(j) PROVE TypeOK'
  <2>1. row' \in [Key -> RowType]
    BY <1>4, TypeMarked DEF TypeOK, SubThrows, Status
  <2> QED BY <1>4, <2>1, TypeRetried DEF TypeOK, SubThrows, Becomes, KeepsHistory
<1>5. ASSUME SubExpires(j) PROVE TypeOK'
  <2>1. [j EXCEPT !.expired = TRUE] \in JobType
    BY DEF TypeOK, JobType
  <2>2. jobs' \subseteq JobType
    BY <1>5, <2>1, TypeRetried DEF TypeOK, SubExpires, Becomes
  <2>3. counts' \in [claims: Claims, faults: 0 .. MaxFaults]
    BY <1>5, BoundsAssumption DEF TypeOK, SubExpires
  <2> QED BY <1>5, <2>2, <2>3 DEF TypeOK, SubExpires, KeepsHistory
<1> QED
  BY <1>1, <1>2, <1>3, <1>4, <1>5 DEF SubStep

LEMMA TypeRestart == TypeOK /\ Restart => TypeOK'
<1> SUFFICES ASSUME TypeOK, Restart PROVE TypeOK'
  OBVIOUS
<1>1. Off \in PlannerType
  BY BoundsAssumption DEF Off, NoIds, PlannerType, Claims
<1>2. jobs' \subseteq JobType
  BY TypeRetried DEF TypeOK, Restart, Busy
<1>3. counts' \in [claims: Claims, faults: 0 .. MaxFaults]
  BY BoundsAssumption DEF TypeOK, Restart
<1> QED
  BY <1>1, <1>2, <1>3 DEF TypeOK, Restart

LEMMA TypeAge ==
    ASSUME TypeOK, NEW k \in Key, Age(k)
    PROVE  TypeOK'
BY DEF TypeOK, Age, KeepsHistory, RowType

LEMMA TypeNext == TypeOK /\ [Next]_vars => TypeOK'
<1> SUFFICES ASSUME TypeOK, [Next]_vars PROVE TypeOK'
  OBVIOUS
<1>1. CASE UNCHANGED vars
  BY <1>1 DEF TypeOK, vars
<1>2. ASSUME NEW p \in Planners, Proceed(p) PROVE TypeOK'
  BY <1>2, TypePlanUpsert, TypeSend, TypePlanner DEF Proceed
<1> QED
  BY <1>1, <1>2, TypePlanStarts, TypePlanNothing, TypePlanner, TypeJobs,
     TypeRestart, TypeAge DEF Next

(* Every variable keeps its type (backfill_jobs, the queue, the planners). *)
THEOREM TypeCorrect == Spec => []TypeOK
BY TypeInit, TypeNext, PTL DEF Spec
-----------------------------------------------------------------------------
(* What each step makes of the planners.                                   *)

OthersStay(p) == \A q \in Planners : q # p => planner'[q] = planner[q]

(* Planner p keeps its claim, its plan and the ids it was given.           *)
Keeps(p) ==
    /\ planner'[p].claim = planner[p].claim
    /\ planner'[p].plan = planner[p].plan
    /\ OthersStay(p)

LEMMA StartsEffect ==
    ASSUME TypeOK, NEW p \in Planners, NEW held \in SUBSET Instruments,
           NEW start \in Starts, PlanStarts(p, held, start)
    PROVE  /\ planner'[p].pc = "planning"
           /\ planner'[p].claim = counts.claims + 1
           /\ planner'[p].plan = planner'[p].todo
           /\ planner'[p].ids = NoIds
           /\ OthersStay(p)
BY DEF TypeOK, PlanStarts, OthersStay, Off

LEMMA NothingEffect ==
    ASSUME TypeOK, NEW p \in Planners, PlanNothing(p)
    PROVE  /\ planner'[p].pc = "snapshots"
           /\ planner'[p].claim = counts.claims + 1
           /\ planner'[p].plan = {}
           /\ planner'[p].ids = NoIds
           /\ OthersStay(p)
BY DEF TypeOK, PlanNothing, OthersStay, Off

LEMMA UpsertEffect ==
    ASSUME TypeOK, NEW p \in Planners, NEW k \in Key, PlanUpsert(p, k)
    PROVE  /\ planner'[p].pc = "planning"
           /\ planner'[p].todo = planner[p].todo \ {k}
           /\ planner'[p].ids = [planner[p].ids EXCEPT ![k] = Upserted(k, Claim(p)).id]
           /\ Keeps(p)
           /\ row'[k] = Upserted(k, Claim(p))
           /\ \A l \in Key : l # k => row'[l] = row[l]
BY DEF TypeOK, PlanUpsert, OthersStay, Keeps, At, PlannerType

LEMMA ReapEffect ==
    ASSUME TypeOK, NEW p \in Planners, Reap(p)
    PROVE  /\ planner'[p].pc \in {"sending", "snapshots"}
           /\ planner'[p].pc = "snapshots" => Plan(p) = {}
           /\ planner'[p].todo = Plan(p)
           /\ planner'[p].ids = planner[p].ids
           /\ Keeps(p)
BY DEF TypeOK, Reap, OthersStay, Keeps, PlannerType

LEMMA SendEffect ==
    ASSUME TypeOK, NEW p \in Planners, NEW k \in Key, Send(p, k)
    PROVE  /\ planner'[p].pc \in {"sending", "polling"}
           /\ planner'[p].todo = planner[p].todo \ {k}
           /\ planner'[p].ids = planner[p].ids
           /\ Keeps(p)
BY DEF TypeOK, Send, OthersStay, Keeps, At, PlannerType

LEMMA DecidesEffect ==
    ASSUME TypeOK, NEW p \in Planners, PollDecides(p)
    PROVE  /\ planner'[p].pc = "cleaning"
           /\ planner'[p].verdict \in Verdicts(p) \ {"lost"}
           /\ planner'[p].ids = planner[p].ids
           /\ Keeps(p)
BY DEF TypeOK, PollDecides, OthersStay, Keeps, PlannerType

LEMMA CleanEffect ==
    ASSUME TypeOK, NEW p \in Planners, Clean(p), ~Ends(p)
    PROVE  /\ planner[p].verdict = "success"
           /\ planner'[p].pc = "snapshots"
           /\ planner'[p].ids = planner[p].ids
           /\ Keeps(p)
BY DEF TypeOK, Clean, OthersStay, Keeps, PlannerType

LEMMA EndsEffect ==
    ASSUME TypeOK, NEW p \in Planners, Ends(p)
    PROVE  planner'[p] = Off /\ OthersStay(p)
BY DEF TypeOK, Ends, OthersStay

-----------------------------------------------------------------------------
(* One process: the lock admits one planner, and nobody else touches the   *)
(* claim of the rows it has claimed so far.                                *)

Alone == \A p, q \in Planners : p \in Inside /\ q \in Inside => p = q

ClaimedSoFar(p) ==
    /\ planner[p].pc \in {"sending", "polling"} =>
          \A k \in Plan(p) : row[k].claim = Claim(p)
    /\ planner[p].pc = "planning" =>
          \A k \in Plan(p) \ planner[p].todo : row[k].claim = Claim(p)

RowsHeld == oneProcess => Alone /\ \A p \in Planners : ClaimedSoFar(p)

(* A planner that is not inside claims nothing.                            *)
LEMMA OutsideClaimsNothing ==
    ASSUME NEW p \in Planners, p \notin Inside
    PROVE  ClaimedSoFar(p)
BY DEF Inside, At, ClaimedSoFar

(* With the lock, the step of one planner leaves every other one outside.  *)
LEMMA AloneStays ==
    ASSUME Alone, NEW p \in Planners, OthersStay(p), p \in Inside \/ Inside = {}
    PROVE  Alone' /\ \A q \in Planners : q # p => q \notin Inside'
BY DEF Alone, Inside, At, OthersStay

LEMMA HeldWhen ==
    ASSUME Alone, NEW p \in Planners, OthersStay(p), p \in Inside \/ Inside = {},
           ClaimedSoFar(p)'
    PROVE  RowsHeld'
<1>1. Alone' /\ \A q \in Planners : q # p => q \notin Inside'
  BY AloneStays
<1>2. ASSUME NEW q \in Planners, q # p PROVE ClaimedSoFar(q)'
  BY <1>1, <1>2 DEF Inside, At, ClaimedSoFar
<1> QED
  BY <1>1, <1>2 DEF RowsHeld

LEMMA HeldStarts ==
    ASSUME TypeOK, oneProcess, RowsHeld, NEW p \in Planners
    PROVE  /\ \A held \in SUBSET Instruments, start \in Starts :
                 PlanStarts(p, held, start) => RowsHeld'
           /\ PlanNothing(p) => RowsHeld'
<1>1. ASSUME NEW held \in SUBSET Instruments, NEW start \in Starts,
             PlanStarts(p, held, start)
      PROVE  RowsHeld'
  <2>0. planner'[p].pc = "planning" /\ planner'[p].plan = planner'[p].todo
    BY <1>1, StartsEffect
  <2>1. ClaimedSoFar(p)'
    BY <2>0 DEF ClaimedSoFar, Plan
  <2>2. Inside = {}
    BY <1>1 DEF PlanStarts, MayEnter
  <2> QED BY <1>1, <2>1, <2>2, StartsEffect, HeldWhen DEF RowsHeld
<1>2. ASSUME PlanNothing(p) PROVE RowsHeld'
  <2>1. ClaimedSoFar(p)'
    BY <1>2, NothingEffect DEF ClaimedSoFar
  <2>2. Inside = {}
    BY <1>2 DEF PlanNothing, MayEnter
  <2> QED BY <1>2, <2>1, <2>2, NothingEffect, HeldWhen DEF RowsHeld
<1> QED BY <1>1, <1>2

LEMMA HeldProceeds ==
    ASSUME TypeOK, oneProcess, RowsHeld, NEW p \in Planners, Proceed(p) \/ PollAborts(p)
    PROVE  RowsHeld'
<1> USE DEF RowsHeld
<1>0. p \in Inside
  BY DEF Proceed, PlanUpsert, Send, Reap, SendFails, PollDecides, PollLost, PollAborts,
         Clean, Snapshots, Inside, At
<1>1. ASSUME NEW k \in Key, PlanUpsert(p, k) PROVE RowsHeld'
  <2>0. /\ planner[p].pc = "planning" /\ planner'[p].pc = "planning"
        /\ planner'[p].todo = planner[p].todo \ {k}
        /\ planner'[p].plan = planner[p].plan /\ planner'[p].claim = planner[p].claim
        /\ row'[k].claim = planner[p].claim
        /\ \A l \in Key : l # k => row'[l] = row[l]
        /\ planner[p].plan \subseteq Key
    BY <1>1, UpsertEffect, UpsertedType
       DEF Keeps, Claim, PlanUpsert, At, TypeOK, PlannerType
  <2>1. ClaimedSoFar(p)'
    BY <2>0 DEF ClaimedSoFar, Plan, Claim
  <2> QED BY <1>0, <1>1, <2>1, UpsertEffect, HeldWhen DEF Keeps
<1>2. ASSUME NEW k \in Key, Send(p, k) PROVE RowsHeld'
  <2>1. ClaimedSoFar(p)'
    BY <1>2, SendEffect DEF ClaimedSoFar, Keeps, Plan, Claim, Send, At
  <2> QED BY <1>0, <1>2, <2>1, SendEffect, HeldWhen DEF Keeps
<1>3. ASSUME Reap(p) PROVE RowsHeld'
  <2>1. \A k \in Plan(p) : row'[k] = row[k]
    BY <1>3 DEF Reap, Deleted, Orphans, TypeOK, PlannerType, Plan
  <2>2. ClaimedSoFar(p)'
    BY <1>3, <2>1, ReapEffect DEF ClaimedSoFar, Keeps, Plan, Claim, Reap, At
  <2> QED BY <1>0, <1>3, <2>2, ReapEffect, HeldWhen DEF Keeps
<1>4. ASSUME PollDecides(p) PROVE RowsHeld'
  <2>1. ClaimedSoFar(p)'
    BY <1>4, DecidesEffect DEF ClaimedSoFar
  <2> QED BY <1>0, <1>4, <2>1, DecidesEffect, HeldWhen DEF Keeps
<1>5. ASSUME Ends(p) PROVE RowsHeld'
  <2>1. ClaimedSoFar(p)'
    BY <1>5, EndsEffect DEF ClaimedSoFar, Off
  <2> QED BY <1>0, <1>5, <2>1, EndsEffect, HeldWhen
<1>6. ASSUME Clean(p), ~Ends(p) PROVE RowsHeld'
  <2>1. ClaimedSoFar(p)'
    BY <1>6, CleanEffect DEF ClaimedSoFar
  <2> QED BY <1>0, <1>6, <2>1, CleanEffect, HeldWhen DEF Keeps
<1> QED
  BY <1>1, <1>2, <1>3, <1>4, <1>5, <1>6
     DEF Proceed, SendFails, PollLost, PollAborts, Snapshots

(* Neither a sub-job nor time changes the claim of a row.                  *)
LEMMA ClaimsStay ==
    ASSUME TypeOK,
           \/ \E j \in jobs : SubStep(j)
           \/ \E k \in Key : Age(k)
    PROVE  \A k \in Key : /\ row'[k].claim = row[k].claim
                          /\ row'[k].id = row[k].id
<1>1. ASSUME NEW j \in jobs, NEW status \in Status, row' = Marked(j, status)
      PROVE  \A k \in Key : row'[k].claim = row[k].claim /\ row'[k].id = row[k].id
  BY <1>1 DEF Marked, TypeOK, JobType, RowType
<1>2. ASSUME NEW j \in jobs, SubStep(j)
      PROVE  \A k \in Key : row'[k].claim = row[k].claim /\ row'[k].id = row[k].id
  <2>1. row' = row \/ row' = Marked(j, "done") \/ row' = Marked(j, "failed")
    BY <1>2 DEF SubStep, SubStarts, SubFetches, SubMarks, SubThrows, SubExpires
  <2> QED BY <1>1, <2>1 DEF Status
<1>3. ASSUME NEW k \in Key, Age(k)
      PROVE  \A l \in Key : row'[l].claim = row[l].claim /\ row'[l].id = row[l].id
  BY <1>3 DEF Age, TypeOK, RowType
<1> QED BY <1>2, <1>3

LEMMA HeldNext == TypeOK /\ RowsHeld /\ [Next]_vars => RowsHeld'
<1> SUFFICES ASSUME TypeOK, RowsHeld, [Next]_vars PROVE RowsHeld'
  OBVIOUS
<1>1. CASE UNCHANGED vars
  BY <1>1 DEF RowsHeld, Alone, ClaimedSoFar, Inside, At, Plan, Claim, vars
<1>2. CASE ~oneProcess
  <2>1. oneProcess' = oneProcess
    BY DEF Next, vars, PlanStarts, PlanNothing, PollAborts, Proceed, PlanUpsert, Send,
           Reap, SendFails, PollDecides, PollLost, Clean, Snapshots, SubStep,
           SubStarts, SubFetches, SubMarks, SubThrows, SubExpires, Restart, Age
  <2> QED BY <1>2, <2>1 DEF RowsHeld
<1>3. ASSUME oneProcess,
             (\E j \in jobs : SubStep(j)) \/ (\E k \in Key : Age(k))
      PROVE  RowsHeld'
  <2>1. planner' = planner /\ oneProcess' = oneProcess
    BY <1>3 DEF SubStep, SubStarts, SubFetches, SubMarks, SubThrows, SubExpires, Age
  <2>2. Alone'
    BY <1>3, <2>1 DEF RowsHeld, Alone, Inside, At
  <2>3. ASSUME NEW p \in Planners PROVE ClaimedSoFar(p)'
    <3>1. ClaimedSoFar(p) /\ Plan(p) \subseteq Key
      BY <1>3 DEF RowsHeld, TypeOK, PlannerType, Plan
    <3> QED BY <1>3, <2>1, <3>1, ClaimsStay DEF ClaimedSoFar, Plan, Claim
  <2> QED BY <2>2, <2>3 DEF RowsHeld
<1>4. ASSUME Restart PROVE RowsHeld'
  BY <1>4 DEF Restart, RowsHeld, Alone, Inside, At, ClaimedSoFar, Off
<1> QED
  BY <1>1, <1>2, <1>3, <1>4, HeldStarts, HeldProceeds DEF Next

(* A planner of the only process polls rows that still carry its claim.    *)
THEOREM RowsStayOwned == Spec => []OwnershipKept
<1>1. Init => RowsHeld
  BY DEF Init, RowsHeld, Alone, Inside, At, ClaimedSoFar, Off
<1>2. TypeOK /\ RowsHeld => OwnershipKept
  BY DEF RowsHeld, ClaimedSoFar, OwnershipKept, OwnRows, At
<1> QED
  BY <1>1, <1>2, TypeInit, TypeNext, HeldNext, PTL DEF Spec

-----------------------------------------------------------------------------
(* Any number of processes: which claim a sub-job, a row and a planner     *)
(* belong to.                                                              *)

DistinctClaims == \A p, q \in Inside : Claim(p) = Claim(q) => p = q

(* The numbers of the runs so far; a row that is not there has no claim.   *)
Numbered ==
    /\ \A p \in Inside : Claim(p) > 0 /\ Claim(p) <= counts.claims
    /\ \A p \in Inside, k \in Key : planner[p].ids[k] <= counts.claims
    /\ \A k \in Key : row[k].id <= counts.claims /\ row[k].claim <= counts.claims
    /\ \A k \in Key : row[k].id = 0 => row[k].claim = 0
    /\ \A j \in jobs : j.id <= counts.claims /\ j.claim <= counts.claims

(* The id a planner would give to a new row is nowhere in use.             *)
FreshIds ==
    \A p \in Inside, k \in Key :
        (At(p, "planning") /\ k \in planner[p].todo) =>
            /\ row[k].id # Claim(p)
            /\ \A q \in Inside : planner[q].ids[k] # Claim(p)
            /\ \A j \in jobs : j.key = k => j.id # Claim(p)

(* The claim on row k stands, and no sub-job of another run was under way  *)
(* when it was made: then there is none later either.                      *)
Sole(k) == row[k].claim \in Live /\ <<k, row[k].claim>> \notin raced

SoleJobs ==
    \A k \in Key : \A j \in jobs :
        (Sole(k) /\ j.key = k /\ j.id = row[k].id) => j.claim = row[k].claim

SoleSends ==
    \A k \in Key, q \in Inside :
        (Sole(k) /\ WillSend(q, k) /\ planner[q].ids[k] = row[k].id)
            => Claim(q) = row[k].claim

Sorted == DistinctClaims /\ Numbered /\ FreshIds /\ SoleJobs /\ SoleSends

-----------------------------------------------------------------------------
(* Most steps neither begin a run nor claim a row.                         *)

SameJob(i, j) == i.key = j.key /\ i.id = j.id /\ i.claim = j.claim

PlannersQuiet ==
    \A q \in Inside' :
        /\ q \in Inside
        /\ planner'[q].claim = planner[q].claim
        /\ planner'[q].plan = planner[q].plan
        /\ planner'[q].ids = planner[q].ids
        /\ planner'[q].pc = "planning" =>
              planner[q].pc = "planning" /\ planner'[q].todo = planner[q].todo
        /\ \A k \in Key : WillSend(q, k)' => WillSend(q, k)

RowsQuiet ==
    \A k \in Key :
        \/ row'[k].id = 0 /\ row'[k].claim = 0
        \/ row'[k].id = row[k].id /\ row'[k].claim = row[k].claim

JobsQuiet ==
    \A j \in jobs' :
        \/ \E i \in jobs : SameJob(i, j)
        \/ \E q \in Inside :
              /\ WillSend(q, j.key)
              /\ j.id = planner[q].ids[j.key]
              /\ j.claim = Claim(q)

HistoryKept ==
    \A k \in Key, c \in Live' :
        /\ <<k, c>> \in raced => <<k, c>> \in raced'
        /\ <<k, c>> \in fed => <<k, c>> \in fed'

Quiet == PlannersQuiet /\ RowsQuiet /\ JobsQuiet /\ HistoryKept
            /\ counts'.claims = counts.claims

LEMMA QuietLive == PlannersQuiet => Live' \subseteq Live
BY DEF PlannersQuiet, Live, Claim

LEMMA QuietSole ==
    ASSUME TypeOK, Numbered, Quiet, NEW k \in Key, Sole(k)'
    PROVE  Sole(k) /\ row'[k].id = row[k].id /\ row'[k].claim = row[k].claim
<1>1. 0 \notin Live
  BY DEF Numbered, Live
<1>2. row'[k].claim \in Live'
  BY DEF Sole
<1>3. row'[k].id = row[k].id /\ row'[k].claim = row[k].claim
  BY <1>1, <1>2, QuietLive DEF Quiet, RowsQuiet
<1> QED
  BY <1>2, <1>3, QuietLive DEF Sole, Quiet, HistoryKept

LEMMA QuietSorted ==
    ASSUME TypeOK, TypeOK', Sorted, Quiet
    PROVE  Sorted'
<1>0. Numbered /\ PlannersQuiet /\ RowsQuiet /\ JobsQuiet
  BY DEF Sorted, Quiet
<1>1. DistinctClaims'
  BY <1>0 DEF Sorted, DistinctClaims, PlannersQuiet, Claim
<1>2. Numbered'
  <2>1. \A p \in Inside' : Claim(p)' > 0 /\ Claim(p)' <= counts'.claims
    BY <1>0 DEF Quiet, Numbered, PlannersQuiet, Claim
  <2>2. \A p \in Inside', k \in Key : planner'[p].ids[k] <= counts'.claims
    BY <1>0 DEF Quiet, Numbered, PlannersQuiet
  <2>3. \A k \in Key : row'[k].id <= counts'.claims /\ row'[k].claim <= counts'.claims
    BY <1>0, BoundsAssumption DEF Quiet, Numbered, RowsQuiet, TypeOK, Claims
  <2>4. \A k \in Key : row'[k].id = 0 => row'[k].claim = 0
    BY <1>0 DEF Numbered, RowsQuiet
  <2>5. ASSUME NEW j \in jobs'
        PROVE  j.id <= counts'.claims /\ j.claim <= counts'.claims
    <3>1. j.key \in Key
      BY DEF TypeOK, JobType
    <3> QED BY <1>0, <3>1 DEF Quiet, Numbered, JobsQuiet, SameJob
  <2> QED BY <2>1, <2>2, <2>3, <2>4, <2>5 DEF Numbered
<1>3. FreshIds'
  <2> SUFFICES ASSUME NEW p \in Inside', NEW k \in Key,
                      At(p, "planning")', k \in planner'[p].todo
               PROVE  /\ row'[k].id # planner'[p].claim
                      /\ \A q \in Inside' : planner'[q].ids[k] # planner'[p].claim
                      /\ \A j \in jobs' : j.key = k => j.id # planner'[p].claim
    BY DEF FreshIds, Claim
  <2>1. /\ p \in Inside /\ At(p, "planning") /\ k \in planner[p].todo
        /\ planner'[p].claim = Claim(p) /\ Claim(p) > 0
    BY <1>0 DEF PlannersQuiet, At, Numbered, Claim
  <2>2. /\ row[k].id # Claim(p)
        /\ \A q \in Inside : planner[q].ids[k] # Claim(p)
        /\ \A j \in jobs : j.key = k => j.id # Claim(p)
    BY <2>1 DEF Sorted, FreshIds
  <2>3. row'[k].id # Claim(p)
    BY <1>0, <2>1, <2>2 DEF RowsQuiet
  <2>4. \A q \in Inside' : planner'[q].ids[k] # Claim(p)
    BY <1>0, <2>2 DEF PlannersQuiet
  <2>5. \A j \in jobs' : j.key = k => j.id # Claim(p)
    BY <1>0, <2>2 DEF JobsQuiet, SameJob
  <2> QED BY <2>1, <2>3, <2>4, <2>5
<1>4. SoleJobs'
  <2> SUFFICES ASSUME NEW k \in Key, NEW j \in jobs', Sole(k)', j.key = k,
                      j.id = row'[k].id
               PROVE  j.claim = row'[k].claim
    BY DEF SoleJobs
  <2>1. Sole(k) /\ row'[k].id = row[k].id /\ row'[k].claim = row[k].claim
    BY <1>0, QuietSole
  <2> QED BY <1>0, <2>1 DEF JobsQuiet, SameJob, Sorted, SoleJobs, SoleSends
<1>5. SoleSends'
  <2> SUFFICES ASSUME NEW k \in Key, NEW q \in Inside', Sole(k)', WillSend(q, k)',
                      planner'[q].ids[k] = row'[k].id
               PROVE  planner'[q].claim = row'[k].claim
    BY DEF SoleSends, Claim
  <2>1. Sole(k) /\ row'[k].id = row[k].id /\ row'[k].claim = row[k].claim
    BY <1>0, QuietSole
  <2> QED BY <1>0, <2>1 DEF PlannersQuiet, Sorted, SoleSends, Claim
<1> QED
  BY <1>1, <1>2, <1>3, <1>4, <1>5 DEF Sorted

-----------------------------------------------------------------------------
(* The quiet steps.                                                        *)

LEMMA LiveClaim == \A p \in Inside : Claim(p) \in Live
BY DEF Live

LEMMA DeletedQuiet ==
    ASSUME NEW S, Deleted(S)
    PROVE  RowsQuiet
BY DEF Deleted, RowsQuiet, NoRow

LEMMA SameJobs == jobs' \subseteq jobs => JobsQuiet
BY DEF JobsQuiet, SameJob

(* A planner that ends takes its own history with it and no other.         *)
LEMMA EndsQuiet ==
    ASSUME TypeOK, Sorted, NEW p \in Inside, Ends(p)
    PROVE  PlannersQuiet /\ HistoryKept
<1>1. planner'[p] = Off /\ OthersStay(p)
  BY EndsEffect DEF Inside
<1>2. PlannersQuiet
  BY <1>1 DEF PlannersQuiet, OthersStay, Inside, At, Off, WillSend
<1>3. Claim(p) \notin Live'
  BY <1>1, <1>2 DEF PlannersQuiet, Live, Sorted, DistinctClaims, Inside, At, Off, Claim
<1>4. HistoryKept
  BY <1>3 DEF HistoryKept, Ends
<1> QED BY <1>2, <1>4

(* A planner that goes on keeps its claim, plan and ids.                   *)
LEMMA KeepsQuiet ==
    ASSUME NEW p \in Inside, Keeps(p), planner'[p].ids = planner[p].ids,
           planner'[p].pc # "planning", \A k \in Key : WillSend(p, k)' => WillSend(p, k)
    PROVE  PlannersQuiet
BY DEF Keeps, PlannersQuiet, OthersStay, Inside, At, WillSend

LEMMA KeepsHistoryQuiet == fed' = fed /\ raced' = raced => HistoryKept
BY DEF HistoryKept

LEMMA PlannerQuiet ==
    ASSUME TypeOK, Sorted, NEW p \in Planners,
           \/ Reap(p) \/ SendFails(p) \/ PollDecides(p) \/ PollLost(p)
           \/ PollAborts(p) \/ Clean(p) \/ Snapshots(p)
    PROVE  Quiet
<1>0. p \in Inside
  BY DEF Reap, SendFails, PollDecides, PollLost, PollAborts, Clean, Snapshots, Inside, At
<1>1. JobsQuiet /\ counts'.claims = counts.claims
  BY SameJobs DEF Reap, SendFails, PollDecides, PollLost, PollAborts, Clean, Snapshots
<1>2. RowsQuiet
  <2>1. CASE row' = row
    BY <2>1 DEF RowsQuiet
  <2>2. CASE row' # row
    BY <2>2, DeletedQuiet
       DEF Reap, SendFails, PollDecides, PollLost, PollAborts, Clean, Snapshots
  <2> QED BY <2>1, <2>2
<1>3. CASE Ends(p)
  BY <1>0, <1>1, <1>2, <1>3, EndsQuiet DEF Quiet
<1>4. CASE Reap(p)
  <2>1. \A k \in Key : WillSend(p, k)' => WillSend(p, k)
    BY <1>4 DEF Reap, WillSend
  <2>2. PlannersQuiet
    BY <1>0, <1>4, <2>1, ReapEffect, KeepsQuiet
  <2> QED BY <1>1, <1>2, <1>4, <2>2, KeepsHistoryQuiet DEF Quiet, Reap, KeepsHistory
<1>5. CASE PollDecides(p)
  <2>1. \A k \in Key : ~WillSend(p, k)'
    BY <1>5, DecidesEffect DEF WillSend, At
  <2>2. PlannersQuiet
    BY <1>0, <1>5, <2>1, DecidesEffect, KeepsQuiet
  <2> QED BY <1>1, <1>2, <1>5, <2>2, KeepsHistoryQuiet DEF Quiet, PollDecides, KeepsHistory
<1>6. CASE Clean(p) /\ ~Ends(p)
  <2>1. \A k \in Key : ~WillSend(p, k)'
    BY <1>6, CleanEffect DEF WillSend, At
  <2>2. PlannersQuiet
    BY <1>0, <1>6, <2>1, CleanEffect, KeepsQuiet
  <2> QED BY <1>1, <1>2, <1>6, <2>2, KeepsHistoryQuiet DEF Quiet, Clean
<1> QED
  BY <1>3, <1>4, <1>5, <1>6 DEF SendFails, PollLost, PollAborts, Snapshots

LEMMA SendQuiet ==
    ASSUME TypeOK, NEW p \in Planners, NEW k \in Key, Send(p, k)
    PROVE  Quiet
<1>1. p \in Inside /\ WillSend(p, k)
  BY DEF Send, Inside, At, WillSend
<1>2. \A l \in Key : WillSend(p, l)' => WillSend(p, l)
  BY SendEffect DEF Send, WillSend, At
<1>3. PlannersQuiet
  BY <1>1, <1>2, SendEffect, KeepsQuiet
<1>4. JobsQuiet
  BY <1>1 DEF JobsQuiet, Send, NewJob, SameJob
<1> QED
  BY <1>3, <1>4, KeepsHistoryQuiet DEF Quiet, RowsQuiet, Send, KeepsHistory

(* The queue's copies of a sub-job name the same row and the same run.     *)
LEMMA RetriedSame ==
    ASSUME TypeOK, NEW j \in jobs
    PROVE  /\ \A i \in Retried(j) : SameJob(j, i) /\ i.pc = "waiting"
           /\ \A pc \in {"fetching", "fetched"} : SameJob(j, [j EXCEPT !.pc = pc])
           /\ SameJob(j, [j EXCEPT !.expired = TRUE])
BY DEF TypeOK, JobType, Retried, SameJob

LEMMA JobStepQuiet ==
    ASSUME TypeOK, NEW j \in jobs, SubStep(j)
    PROVE  Quiet
<1>1. planner' = planner /\ counts'.claims = counts.claims
  BY DEF TypeOK, SubStep, SubStarts, SubFetches, SubMarks, SubThrows, SubExpires
<1>2. PlannersQuiet
  BY <1>1 DEF PlannersQuiet, Inside, At, WillSend
<1>3. RowsQuiet
  BY ClaimsStay DEF RowsQuiet
<1>4. JobsQuiet
  <2> SUFFICES ASSUME NEW i \in jobs', i \notin jobs PROVE SameJob(j, i)
    BY DEF JobsQuiet, SameJob
  <2>1. CASE SubStarts(j) \/ SubFetches(j)
    <3>1. i = [j EXCEPT !.pc = "fetching"] \/ i = [j EXCEPT !.pc = "fetched"]
      BY <2>1 DEF SubStarts, SubFetches, Becomes
    <3> QED BY <3>1, RetriedSame
  <2>2. CASE SubMarks(j)
    BY <2>2 DEF SubMarks, Becomes
  <2>3. CASE SubThrows(j)
    <3>1. i \in Retried(j)
      BY <2>3 DEF SubThrows, Becomes
    <3> QED BY <3>1, RetriedSame
  <2>4. CASE SubExpires(j)
    <3>1. i \in Retried(j) \/ i = [j EXCEPT !.expired = TRUE]
      BY <2>4 DEF SubExpires, Becomes
    <3> QED BY <3>1, RetriedSame
  <2> QED BY <2>1, <2>2, <2>3, <2>4 DEF SubStep
<1>5. HistoryKept
  BY DEF HistoryKept, SubStep, SubStarts, SubFetches, SubMarks, SubThrows, SubExpires,
         KeepsHistory
<1> QED
  BY <1>1, <1>2, <1>3, <1>4, <1>5 DEF Quiet

LEMMA RestartQuiet ==
    ASSUME TypeOK, Restart
    PROVE  Quiet
<1>1. Inside' = {} /\ Live' = {}
  BY DEF Restart, Inside, At, Off, Live
<1>2. JobsQuiet
  BY RetriedSame DEF JobsQuiet, Restart, Busy, SameJob
<1> QED
  BY <1>1, <1>2 DEF Quiet, PlannersQuiet, RowsQuiet, HistoryKept, Restart, TypeOK

LEMMA AgeQuiet ==
    ASSUME TypeOK, NEW k \in Key, Age(k)
    PROVE  Quiet
<1>1. PlannersQuiet
  BY DEF Age, PlannersQuiet, Inside, At, WillSend
<1>2. RowsQuiet
  BY ClaimsStay DEF RowsQuiet
<1> QED
  BY <1>1, <1>2, SameJobs, KeepsHistoryQuiet DEF Quiet, Age, KeepsHistory

-----------------------------------------------------------------------------
(* A run begins: its claim is above every number in use.                   *)

Begins(p) ==
    /\ p \in Planners /\ p \notin Inside
    /\ planner'[p].claim = counts.claims + 1
    /\ planner'[p].ids = NoIds
    /\ planner'[p].pc \in {"planning", "snapshots"}
    /\ planner'[p].pc = "snapshots" => planner'[p].plan = {}
    /\ OthersStay(p)
    /\ counts'.claims = counts.claims + 1
    /\ row' = row /\ jobs' = jobs /\ raced' = raced /\ fed' = fed

LEMMA StepsBegin ==
    ASSUME TypeOK, NEW p \in Planners,
           \/ \E held \in SUBSET Instruments, start \in Starts :
                 PlanStarts(p, held, start)
           \/ PlanNothing(p)
    PROVE  Begins(p)
<1>1. ASSUME NEW held \in SUBSET Instruments, NEW start \in Starts,
             PlanStarts(p, held, start)
      PROVE  Begins(p)
  BY <1>1, StartsEffect DEF Begins, PlanStarts, Inside, At, TypeOK
<1>2. ASSUME PlanNothing(p) PROVE Begins(p)
  BY <1>2, NothingEffect DEF Begins, PlanNothing, Inside, At, TypeOK
<1> QED BY <1>1, <1>2

LEMMA BeginsLive ==
    ASSUME TypeOK, Numbered, NEW p, Begins(p)
    PROVE  /\ \A q \in Inside' : q # p => q \in Inside /\ planner'[q] = planner[q]
           /\ \A c \in Live' : c # counts.claims + 1 => c \in Live
           /\ \A k \in Key : Sole(k)' => Sole(k)
<1>1. \A q \in Inside' : q # p => q \in Inside /\ planner'[q] = planner[q]
  BY DEF Begins, OthersStay, Inside, At
<1>2. \A c \in Live' : c # counts.claims + 1 => c \in Live
  BY <1>1 DEF Live, Claim, Begins
<1>3. ASSUME NEW k \in Key, Sole(k)' PROVE Sole(k)
  <2>1. row[k].claim \in Live' /\ <<k, row[k].claim>> \notin raced
    BY <1>3 DEF Sole, Begins
  <2>2. row[k].claim # counts.claims + 1
    BY DEF Numbered, TypeOK, RowType, Claims
  <2> QED BY <1>2, <2>1, <2>2 DEF Sole
<1> QED BY <1>1, <1>2, <1>3

LEMMA BeginsSorted ==
    ASSUME TypeOK, Sorted, NEW p, Begins(p)
    PROVE  Sorted'
<1>0. /\ Numbered /\ p \in Planners /\ p \notin Inside
      /\ planner'[p].claim = counts.claims + 1 /\ planner'[p].ids = NoIds
      /\ counts'.claims = counts.claims + 1
      /\ row' = row /\ jobs' = jobs /\ counts.claims \in Nat
  BY BoundsAssumption DEF Sorted, Begins, TypeOK, Claims
<1>1. /\ \A q \in Inside' : q # p => q \in Inside /\ planner'[q] = planner[q]
      /\ \A k \in Key : Sole(k)' => Sole(k)
      /\ 0 \notin Live
  BY <1>0, BeginsLive DEF Numbered, Live
<1>2. \A q \in Planners : planner[q].claim \in Nat
  BY BoundsAssumption DEF TypeOK, PlannerType, Claims
<1>3. \A q \in Inside : planner[q].claim > 0 /\ planner[q].claim <= counts.claims
  BY <1>0 DEF Numbered, Claim
<1>4. Inside \subseteq Planners /\ Inside' \subseteq Planners
  BY DEF Inside
<1>5. DistinctClaims'
  BY <1>0, <1>1, <1>2, <1>3, <1>4 DEF Sorted, DistinctClaims, Claim
<1>6. /\ \A q \in Planners, k \in Key : planner[q].ids[k] \in Nat
      /\ \A k \in Key : row[k].id \in Nat /\ row[k].claim \in Nat
      /\ \A j \in jobs : j.id \in Nat /\ j.claim \in Nat
  BY BoundsAssumption DEF TypeOK, PlannerType, RowType, JobType, Claims
<1>7. /\ \A q \in Inside, k \in Key : planner[q].ids[k] <= counts.claims
      /\ \A k \in Key : row[k].id <= counts.claims /\ row[k].claim <= counts.claims
      /\ \A k \in Key : row[k].id = 0 => row[k].claim = 0
      /\ \A j \in jobs : j.id <= counts.claims /\ j.claim <= counts.claims
  BY <1>0 DEF Numbered
<1>8. \A k \in Key : planner'[p].ids[k] = 0
  BY <1>0 DEF NoIds
<1>9. Numbered'
  <2>1. \A q \in Inside' : planner'[q].claim > 0 /\ planner'[q].claim <= counts'.claims
    BY <1>0, <1>1, <1>2, <1>3, <1>4
  <2>2. \A q \in Inside', k \in Key : planner'[q].ids[k] <= counts'.claims
    BY <1>0, <1>1, <1>4, <1>6, <1>7, <1>8
  <2>3. /\ \A k \in Key : row'[k].id <= counts'.claims /\ row'[k].claim <= counts'.claims
        /\ \A k \in Key : row'[k].id = 0 => row'[k].claim = 0
        /\ \A j \in jobs' : j.id <= counts'.claims /\ j.claim <= counts'.claims
    BY <1>0, <1>6, <1>7
  <2> QED BY <2>1, <2>2, <2>3 DEF Numbered, Claim
<1>10. FreshIds'
  <2> SUFFICES ASSUME NEW q \in Inside', NEW k \in Key,
                      At(q, "planning")', k \in planner'[q].todo
               PROVE  /\ row'[k].id # planner'[q].claim
                      /\ \A r \in Inside' : planner'[r].ids[k] # planner'[q].claim
                      /\ \A j \in jobs' : j.key = k => j.id # planner'[q].claim
    BY DEF FreshIds, Claim
  <2>1. CASE q = p
    BY <2>1, <1>0, <1>1, <1>4, <1>6, <1>7, <1>8
  <2>2. CASE q # p
    <3>1. q \in Inside /\ At(q, "planning") /\ k \in planner[q].todo
          /\ planner'[q].claim = planner[q].claim
      BY <1>1, <2>2 DEF At
    <3>2. /\ row[k].id # planner[q].claim
          /\ \A r \in Inside : planner[r].ids[k] # planner[q].claim
          /\ \A j \in jobs : j.key = k => j.id # planner[q].claim
      BY <3>1 DEF Sorted, FreshIds, Claim
    <3> QED BY <1>0, <1>1, <1>3, <1>8, <3>1, <3>2
  <2> QED BY <2>1, <2>2
<1>11. SoleJobs'
  BY <1>0, <1>1 DEF Sorted, SoleJobs
<1>12. SoleSends'
  <2> SUFFICES ASSUME NEW k \in Key, NEW q \in Inside', Sole(k)', WillSend(q, k)',
                      planner'[q].ids[k] = row'[k].id
               PROVE  planner'[q].claim = row'[k].claim
    BY DEF SoleSends, Claim
  <2>1. Sole(k)
    BY <1>1
  <2>2. q # p
    BY <1>0, <1>1, <1>7, <1>8, <2>1 DEF Sole
  <2>3. q \in Inside /\ WillSend(q, k)
    BY <1>1, <2>2 DEF WillSend, At
  <2> QED BY <1>0, <1>1, <2>1, <2>2, <2>3 DEF Sorted, SoleSends, Claim
<1> QED BY <1>5, <1>9, <1>10, <1>11, <1>12 DEF Sorted

-----------------------------------------------------------------------------
(* A row is claimed.  Where a sub-job of an earlier run can still reach    *)
(* it, the claim is raced; otherwise only the claimant will send one.      *)

LEMMA UpsertKept ==
    ASSUME TypeOK, NEW p \in Planners, NEW k \in Key, PlanUpsert(p, k)
    PROVE  /\ p \in Inside /\ Inside' = Inside /\ Live' = Live
           /\ \A q \in Planners : planner'[q].claim = Claim(q)
           /\ \A q \in Planners, l \in Key : WillSend(q, l)' => WillSend(q, l)
           /\ \A l \in Key : l # k /\ Sole(l)' => Sole(l)
           /\ Sole(k)' => ~UnderWay(k)
<1>1. p \in Inside /\ Inside' = Inside /\ \A q \in Planners : planner'[q].claim = Claim(q)
  BY UpsertEffect DEF Inside, At, Claim, Keeps, OthersStay, PlanUpsert
<1>2. Live' = Live
  BY <1>1 DEF Live, Claim, Inside
<1>3. \A q \in Planners, l \in Key : WillSend(q, l)' => WillSend(q, l)
  BY UpsertEffect DEF WillSend, At, Keeps, OthersStay, PlanUpsert
<1>4. raced \subseteq raced' /\ \A l \in Key : l # k => row'[l] = row[l]
  BY UpsertEffect DEF PlanUpsert
<1>5. \A l \in Key : l # k /\ Sole(l)' => Sole(l)
  BY <1>2, <1>4 DEF Sole
<1>6. row'[k].claim = Claim(p)
  BY UpsertEffect, UpsertedType
<1>7. Sole(k)' => ~UnderWay(k)
  BY <1>6 DEF Sole, PlanUpsert
<1> QED BY <1>1, <1>2, <1>3, <1>5, <1>7

LEMMA UpsertSorted ==
    ASSUME TypeOK, Sorted, NEW p \in Planners, NEW k \in Key, PlanUpsert(p, k)
    PROVE  Sorted'
<1> DEFINE new == Upserted(k, Claim(p)).id
<1>0. /\ Numbered /\ jobs' = jobs /\ counts' = counts
      /\ At(p, "planning") /\ k \in planner[p].todo
      /\ planner'[p].todo = planner[p].todo \ {k}
      /\ planner'[p].ids = [planner[p].ids EXCEPT ![k] = new]
      /\ OthersStay(p) /\ planner'[p].pc = "planning"
      /\ row'[k].id = new /\ row'[k].claim = Claim(p)
      /\ \A l \in Key : l # k => row'[l] = row[l]
  <2>1. /\ Numbered /\ jobs' = jobs /\ counts' = counts
        /\ At(p, "planning") /\ k \in planner[p].todo
    BY DEF Sorted, PlanUpsert
  <2>2. /\ planner'[p].todo = planner[p].todo \ {k} /\ planner'[p].pc = "planning"
        /\ planner'[p].ids = [planner[p].ids EXCEPT ![k] = new]
        /\ OthersStay(p)
        /\ row'[k] = Upserted(k, Claim(p))
        /\ \A l \in Key : l # k => row'[l] = row[l]
    BY UpsertEffect DEF Keeps
  <2>3. row'[k].id = new /\ row'[k].claim = Claim(p)
    BY <2>2, UpsertedType
  <2> QED BY <2>1, <2>2, <2>3
<1>1. /\ p \in Inside /\ Inside' = Inside /\ Live' = Live
      /\ \A q \in Planners : planner'[q].claim = Claim(q)
      /\ \A q \in Planners, l \in Key : WillSend(q, l)' => WillSend(q, l)
      /\ \A l \in Key : l # k /\ Sole(l)' => Sole(l)
      /\ Sole(k)' => ~UnderWay(k)
  BY UpsertKept
<1>2. IF row[k].id = 0 THEN new = Claim(p) ELSE new = row[k].id
  BY DEF Upserted
<1>3. /\ Claim(p) > 0 /\ Claim(p) <= counts.claims /\ Claim(p) \in Nat
      /\ row[k].id \in Nat /\ row[k].id <= counts.claims
  BY <1>0, <1>1, BoundsAssumption DEF Numbered, TypeOK, PlannerType, RowType, Claims, Claim
<1>4. new # 0 /\ new <= counts.claims
  BY <1>2, <1>3
<1>5. \A q \in Planners, l \in Key :
          planner'[q].ids[l] = IF q = p /\ l = k THEN new ELSE planner[q].ids[l]
  <2>1. planner[p].ids \in [Key -> Claims]
    BY DEF TypeOK, PlannerType
  <2> HIDE DEF new
  <2> QED BY <1>0, <2>1 DEF OthersStay
<1>6. Inside \subseteq Planners
  BY DEF Inside
<1> HIDE DEF new
<1>7. DistinctClaims'
  BY <1>1, <1>6 DEF Sorted, DistinctClaims, Claim
<1>8. Numbered'
  <2>1. \A q \in Inside' : planner'[q].claim > 0 /\ planner'[q].claim <= counts'.claims
    BY <1>0, <1>1, <1>6 DEF Numbered
  <2>2. \A q \in Inside', l \in Key : planner'[q].ids[l] <= counts'.claims
    BY <1>0, <1>1, <1>4, <1>5, <1>6 DEF Numbered
  <2>3. \A l \in Key : /\ row'[l].id <= counts'.claims /\ row'[l].claim <= counts'.claims
                       /\ row'[l].id = 0 => row'[l].claim = 0
    BY <1>0, <1>3, <1>4 DEF Numbered
  <2>4. \A j \in jobs' : j.id <= counts'.claims /\ j.claim <= counts'.claims
    BY <1>0 DEF Numbered
  <2> QED BY <2>1, <2>2, <2>3, <2>4 DEF Numbered, Claim
<1>9. /\ row[k].id # Claim(p)
      /\ \A q \in Inside : planner[q].ids[k] # Claim(p)
      /\ \A j \in jobs : j.key = k => j.id # Claim(p)
  BY <1>0, <1>1 DEF Sorted, FreshIds
<1>10. FreshIds'
  <2> SUFFICES ASSUME NEW q \in Inside, NEW l \in Key,
                      At(q, "planning")', l \in planner'[q].todo
               PROVE  /\ row'[l].id # Claim(q)
                      /\ \A r \in Inside : planner'[r].ids[l] # Claim(q)
                      /\ \A j \in jobs : j.key = l => j.id # Claim(q)
    BY <1>0, <1>1, <1>6 DEF FreshIds, Claim
  <2>1. At(q, "planning") /\ l \in planner[q].todo /\ ~(q = p /\ l = k)
    BY <1>0, <1>6 DEF At, OthersStay
  <2>2. /\ row[l].id # Claim(q)
        /\ \A r \in Inside : planner[r].ids[l] # Claim(q)
        /\ \A j \in jobs : j.key = l => j.id # Claim(q)
    BY <2>1 DEF Sorted, FreshIds
  <2>3. l = k => new # Claim(q)
    BY <1>1, <1>2, <2>1, <2>2 DEF Sorted, DistinctClaims
  <2>4. row'[l].id # Claim(q)
    BY <1>0, <2>2, <2>3
  <2>5. \A r \in Inside : planner'[r].ids[l] # Claim(q)
    BY <1>5, <1>6, <2>2, <2>3
  <2> QED BY <2>2, <2>4, <2>5
<1>11. SoleJobs'
  <2> SUFFICES ASSUME NEW l \in Key, NEW j \in jobs, Sole(l)', j.key = l, j.id = row'[l].id
               PROVE  j.claim = row'[l].claim
    BY <1>0 DEF SoleJobs
  <2>1. CASE l = k
    BY <1>0, <1>1, <1>2, <1>9, <2>1 DEF UnderWay
  <2>2. CASE l # k
    BY <1>0, <1>1, <2>2 DEF Sorted, SoleJobs
  <2> QED BY <2>1, <2>2
<1>12. SoleSends'
  <2> SUFFICES ASSUME NEW l \in Key, NEW q \in Inside, Sole(l)', WillSend(q, l)',
                      planner'[q].ids[l] = row'[l].id
               PROVE  Claim(q) = row'[l].claim
    BY <1>1, <1>6 DEF SoleSends, Claim
  <2>0. WillSend(q, l)
    BY <1>1, <1>6
  <2>1. CASE l # k
    BY <1>0, <1>1, <1>5, <1>6, <2>0, <2>1 DEF Sorted, SoleSends
  <2>2. CASE l = k /\ q = p
    BY <1>0, <2>2
  <2>3. CASE l = k /\ q # p
    <3>1. planner[q].ids[k] = new
      BY <1>0, <1>5, <1>6, <2>3
    <3> QED BY <1>1, <1>2, <1>4, <1>6, <1>9, <2>0, <2>3, <3>1 DEF UnderWay
  <2> QED BY <2>1, <2>2, <2>3
<1> QED BY <1>7, <1>8, <1>10, <1>11, <1>12 DEF Sorted

(* What a step is: quiet, or the begin of a run, or the claim on a row.    *)
LEMMA StepKinds ==
    ASSUME TypeOK, Sorted, [Next]_vars
    PROVE  \/ Quiet
           \/ \E p \in Planners : Begins(p)
           \/ \E p \in Planners, k \in Key : PlanUpsert(p, k)
<1>1. CASE UNCHANGED vars
  <2>1. UNCHANGED <<row, planner, jobs, counts, fed, raced>>
    BY <1>1 DEF vars
  <2> QED BY <2>1, SameJobs, KeepsHistoryQuiet
          DEF Quiet, PlannersQuiet, RowsQuiet, Inside, At, WillSend
<1>2. ASSUME NEW p \in Planners, Proceed(p)
      PROVE  Quiet \/ \E k \in Key : PlanUpsert(p, k)
  BY <1>2, SendQuiet, PlannerQuiet DEF Proceed
<1> QED
  BY <1>1, <1>2, StepsBegin, PlannerQuiet, JobStepQuiet, RestartQuiet, AgeQuiet DEF Next

LEMMA SortedNext == TypeOK /\ Sorted /\ [Next]_vars => Sorted'
BY TypeNext, StepKinds, QuietSorted, BeginsSorted, UpsertSorted

LEMMA SortedInit == Init => Sorted
BY DEF Init, Sorted, DistinctClaims, Numbered, FreshIds, SoleJobs, SoleSends, Inside, At,
       Off, NoRow

-----------------------------------------------------------------------------
(* Where a row says done, and no other run could reach it, it was fetched  *)
(* for the run that claimed it.                                            *)

DoneIsFed ==
    \A k \in Key : (Sole(k) /\ row[k].status = "done") => <<k, row[k].claim>> \in fed

FetchedIsFed ==
    \A j \in jobs :
        (j.pc = "fetched" /\ j.claim \in Live) => <<j.key, j.claim>> \in fed

FedFirst == DoneIsFed /\ FetchedIsFed /\ SnapshotsFollowFetch

DoneQuiet == \A k \in Key : row'[k].status = "done" => row[k].status = "done"

FetchedQuiet ==
    \A j \in jobs' : j.pc = "fetched" => \E i \in jobs : SameJob(i, j) /\ i.pc = "fetched"

SuccessQuiet == \A q \in Planners : Succeeded(q)' => Succeeded(q) \/ planner'[q].plan = {}

LEMMA DoneKept ==
    ASSUME TypeOK, Sorted, DoneIsFed, Quiet, DoneQuiet
    PROVE  DoneIsFed'
<1> SUFFICES ASSUME NEW k \in Key, Sole(k)', row'[k].status = "done"
             PROVE  <<k, row'[k].claim>> \in fed'
  BY DEF DoneIsFed
<1>1. Sole(k) /\ row'[k].claim = row[k].claim
  BY QuietSole DEF Sorted
<1>2. <<k, row[k].claim>> \in fed
  BY <1>1 DEF DoneIsFed, DoneQuiet
<1>3. row'[k].claim \in Live'
  BY DEF Sole
<1> QED BY <1>1, <1>2, <1>3 DEF Quiet, HistoryKept

LEMMA FetchedKept ==
    ASSUME TypeOK, TypeOK', FetchedIsFed, Quiet, FetchedQuiet
    PROVE  FetchedIsFed'
<1> SUFFICES ASSUME NEW j \in jobs', j.pc = "fetched", j.claim \in Live'
             PROVE  <<j.key, j.claim>> \in fed'
  BY DEF FetchedIsFed
<1>1. PICK i \in jobs : SameJob(i, j) /\ i.pc = "fetched"
  BY DEF FetchedQuiet
<1>2. <<j.key, j.claim>> \in fed
  BY <1>1, QuietLive DEF FetchedIsFed, SameJob, Quiet
<1>3. j.key \in Key
  BY DEF TypeOK, JobType
<1> QED BY <1>2, <1>3 DEF Quiet, HistoryKept

(* A planner that goes on keeps what was fetched or raced for it.          *)
LEMMA HistoryOf ==
    ASSUME TypeOK, Quiet, NEW q \in Planners, q \in Inside'
    PROVE  /\ Claim(q)' = Claim(q) /\ Plan(q)' = Plan(q) /\ q \in Inside
           /\ \A k \in Key : <<k, Claim(q)>> \in fed \cup raced =>
                 <<k, Claim(q)>> \in fed' \cup raced'
<1>1. Claim(q)' = Claim(q) /\ Plan(q)' = Plan(q) /\ q \in Inside
  BY DEF Quiet, PlannersQuiet, Claim, Plan
<1>2. Claim(q) \in Live'
  BY <1>1 DEF Live
<1> QED BY <1>1, <1>2 DEF Quiet, HistoryKept

LEMMA SnapshotsKept ==
    ASSUME TypeOK, SnapshotsFollowFetch, Quiet, SuccessQuiet
    PROVE  SnapshotsFollowFetch'
<1> SUFFICES ASSUME NEW q \in Planners, Succeeded(q)', NEW k \in Plan(q)'
             PROVE  <<k, Claim(q)'>> \in fed' \cup raced'
  BY DEF SnapshotsFollowFetch
<1>1. q \in Inside'
  BY DEF Succeeded, Inside, At
<1>2. Claim(q)' = Claim(q) /\ Plan(q)' = Plan(q)
  BY <1>1, HistoryOf
<1>3. Succeeded(q) /\ k \in Plan(q) /\ k \in Key
  BY <1>2 DEF SuccessQuiet, Plan, TypeOK, PlannerType
<1>4. <<k, Claim(q)>> \in fed \cup raced
  BY <1>3 DEF SnapshotsFollowFetch
<1> QED BY <1>1, <1>2, <1>3, <1>4, HistoryOf

(* The verdict success: the planner saw all its rows done.                 *)
LEMMA SuccessFed ==
    ASSUME TypeOK, Sorted, FedFirst, NEW p \in Planners, PollDecides(p)
    PROVE  SnapshotsFollowFetch'
<1>1. Quiet
  BY PlannerQuiet
<1> SUFFICES ASSUME NEW q \in Planners, Succeeded(q)', NEW k \in Plan(q)'
             PROVE  <<k, Claim(q)'>> \in fed' \cup raced'
  BY DEF SnapshotsFollowFetch
<1>2. q \in Inside'
  BY DEF Succeeded, Inside, At
<1>3. Claim(q)' = Claim(q) /\ Plan(q)' = Plan(q) /\ q \in Inside /\ k \in Key
  BY <1>1, <1>2, HistoryOf DEF Plan, TypeOK, PlannerType
<1>4. CASE q # p
  <2>1. Succeeded(q)
    BY <1>4, DecidesEffect DEF Succeeded, At, Keeps, OthersStay
  <2> QED BY <1>1, <1>2, <1>3, <2>1, HistoryOf DEF FedFirst, SnapshotsFollowFetch
<1>5. CASE q = p
  <2>1. "success" \in Seen(p)
    BY <1>5, DecidesEffect DEF Succeeded, At, Verdicts
  <2>2. OwnRows(p) = Plan(p) /\ \A l \in Plan(p) : row[l].status = "done"
    BY <2>1 DEF Seen
  <2>3. row[k].claim = Claim(p) /\ row[k].status = "done"
    BY <1>3, <1>5, <2>2 DEF OwnRows
  <2>4. <<k, Claim(p)>> \in fed \cup raced
    BY <1>3, <1>5, <2>3 DEF FedFirst, DoneIsFed, Sole, Live
  <2> QED BY <1>1, <1>2, <1>3, <1>5, <2>4, HistoryOf
<1> QED BY <1>4, <1>5

LEMMA FedPlanner ==
    ASSUME TypeOK, TypeOK', Sorted, FedFirst, NEW p \in Planners,
           \/ Reap(p) \/ SendFails(p) \/ PollDecides(p) \/ PollLost(p)
           \/ PollAborts(p) \/ Clean(p) \/ Snapshots(p)
           \/ \E k \in Key : Send(p, k)
    PROVE  FedFirst'
<1>1. Quiet
  BY PlannerQuiet, SendQuiet
<1>2. DoneQuiet
  <2>1. CASE row' = row
    BY <2>1 DEF DoneQuiet
  <2>2. ASSUME NEW S, Deleted(S) PROVE DoneQuiet
    BY <2>2 DEF DoneQuiet, Deleted, NoRow
  <2> QED BY <2>1, <2>2 DEF Reap, SendFails, PollDecides, PollLost, PollAborts, Clean,
                            Snapshots, Send
<1>3. FetchedQuiet
  <2>1. ASSUME NEW k \in Key, Send(p, k) PROVE FetchedQuiet
    BY <2>1 DEF FetchedQuiet, Send, NewJob, SameJob
  <2>2. CASE jobs' = jobs
    BY <2>2 DEF FetchedQuiet, SameJob
  <2> QED BY <2>1, <2>2 DEF Reap, SendFails, PollDecides, PollLost, PollAborts, Clean,
                            Snapshots
<1>4. DoneIsFed' /\ FetchedIsFed'
  BY <1>1, <1>2, <1>3, DoneKept, FetchedKept DEF FedFirst
<1>5. SnapshotsFollowFetch'
  <2>1. CASE PollDecides(p)
    BY <2>1, SuccessFed
  <2>2. CASE Reap(p)
    <3>1. SuccessQuiet
      BY <2>2, ReapEffect DEF SuccessQuiet, Succeeded, At, Keeps, OthersStay, Plan
    <3> QED BY <1>1, <3>1, SnapshotsKept DEF FedFirst
  <2>3. CASE Ends(p)
    <3>1. SuccessQuiet
      BY <2>3, EndsEffect DEF SuccessQuiet, Succeeded, At, OthersStay, Off
    <3> QED BY <1>1, <3>1, SnapshotsKept DEF FedFirst
  <2>4. CASE Clean(p) /\ ~Ends(p)
    <3>1. SuccessQuiet
      BY <2>4, CleanEffect DEF SuccessQuiet, Succeeded, At, Keeps, OthersStay, Clean
    <3> QED BY <1>1, <3>1, SnapshotsKept DEF FedFirst
  <2>5. ASSUME NEW k \in Key, Send(p, k) PROVE SnapshotsFollowFetch'
    <3>1. SuccessQuiet
      BY <2>5, SendEffect DEF SuccessQuiet, Succeeded, At, Keeps, OthersStay
    <3> QED BY <1>1, <3>1, SnapshotsKept DEF FedFirst
  <2> QED
    BY <2>1, <2>2, <2>3, <2>4, <2>5 DEF SendFails, PollLost, PollAborts, Snapshots
<1> QED BY <1>4, <1>5 DEF FedFirst

LEMMA FedJobs ==
    ASSUME TypeOK, TypeOK', Sorted, FedFirst, NEW j \in jobs, SubStep(j)
    PROVE  FedFirst'
<1>1. Quiet
  BY JobStepQuiet
<1>2. SnapshotsFollowFetch'
  <2>1. planner' = planner
    BY DEF SubStep, SubStarts, SubFetches, SubMarks, SubThrows, SubExpires
  <2>2. SuccessQuiet
    BY <2>1 DEF SuccessQuiet, Succeeded, At
  <2> QED BY <1>1, <2>2, SnapshotsKept DEF FedFirst
<1>3. DoneIsFed'
  <2>1. CASE SubMarks(j)
    <3> SUFFICES ASSUME NEW k \in Key, Sole(k)', row'[k].status = "done"
                 PROVE  <<k, row'[k].claim>> \in fed'
      BY DEF DoneIsFed
    <3>1. Sole(k) /\ row'[k].claim = row[k].claim /\ row[k].claim \in Live
      BY <1>1, QuietSole DEF Sorted, Sole
    <3>2. CASE k = j.key /\ j.id = row[k].id
      <4>1. j.claim = row[k].claim
        BY <3>1, <3>2 DEF Sorted, SoleJobs
      <4> QED BY <2>1, <3>1, <3>2, <4>1 DEF FedFirst, FetchedIsFed, SubMarks, KeepsHistory
    <3>3. CASE ~(k = j.key /\ j.id = row[k].id)
      <4>1. row'[k].status = row[k].status
        BY <2>1, <3>3 DEF SubMarks, Marked, TypeOK, RowType
      <4> QED BY <2>1, <3>1, <4>1 DEF FedFirst, DoneIsFed, SubMarks, KeepsHistory
    <3> QED BY <3>2, <3>3
  <2>2. CASE SubThrows(j)
    <3>1. row' = row \/ row' = Marked(j, "failed")
      BY <2>2 DEF SubThrows
    <3>2. DoneQuiet
      BY <3>1 DEF DoneQuiet, Marked, TypeOK, RowType
    <3> QED BY <1>1, <3>2, DoneKept DEF FedFirst
  <2>3. CASE SubStarts(j) \/ SubFetches(j) \/ SubExpires(j)
    <3>1. DoneQuiet
      BY <2>3 DEF DoneQuiet, SubStarts, SubFetches, SubExpires
    <3> QED BY <1>1, <3>1, DoneKept DEF FedFirst
  <2> QED BY <2>1, <2>2, <2>3 DEF SubStep
<1>4. FetchedIsFed'
  <2>1. CASE SubFetches(j)
    <3> SUFFICES ASSUME NEW i \in jobs', i.pc = "fetched", i.claim \in Live'
                 PROVE  <<i.key, i.claim>> \in fed'
      BY DEF FetchedIsFed
    <3>1. Live' = Live
      BY <2>1 DEF SubFetches, Live, Claim, Inside, At
    <3>2. i \in jobs \/ i = [j EXCEPT !.pc = "fetched"]
      BY <2>1 DEF SubFetches, Becomes
    <3>3. CASE i \in jobs
      BY <2>1, <3>1, <3>3 DEF FedFirst, FetchedIsFed, SubFetches
    <3>4. CASE i = [j EXCEPT !.pc = "fetched"]
      <4>1. SameJob(j, i)
        BY <3>4, RetriedSame
      <4> QED BY <2>1, <3>1, <4>1 DEF SubFetches, SameJob
    <3> QED BY <3>2, <3>3, <3>4
  <2>2. CASE ~SubFetches(j)
    <3>1. FetchedQuiet
      <4> SUFFICES ASSUME NEW i \in jobs', i \notin jobs, i.pc = "fetched"
                   PROVE  SameJob(j, i) /\ j.pc = "fetched"
        BY DEF FetchedQuiet, SameJob
      <4>1. CASE SubStarts(j)
        BY <4>1 DEF SubStarts, Becomes, TypeOK, JobType
      <4>2. CASE SubMarks(j)
        BY <4>2 DEF SubMarks, Becomes
      <4>3. CASE SubThrows(j)
        BY <4>3, RetriedSame DEF SubThrows, Becomes
      <4>4. CASE SubExpires(j)
        <5>1. i \in Retried(j) \/ i = [j EXCEPT !.expired = TRUE]
          BY <4>4 DEF SubExpires, Becomes
        <5>2. CASE i = [j EXCEPT !.expired = TRUE]
          BY <5>2, RetriedSame DEF TypeOK, JobType
        <5> QED BY <5>1, <5>2, RetriedSame
      <4> QED BY <2>2, <4>1, <4>2, <4>3, <4>4 DEF SubStep
    <3> QED BY <1>1, <3>1, FetchedKept DEF FedFirst
  <2> QED BY <2>1, <2>2
<1> QED BY <1>2, <1>3, <1>4 DEF FedFirst

LEMMA FedBegins ==
    ASSUME TypeOK, Sorted, FedFirst, NEW p, Begins(p)
    PROVE  FedFirst'
<1>1. /\ \A q \in Inside' : q # p => q \in Inside /\ planner'[q] = planner[q]
      /\ \A c \in Live' : c # counts.claims + 1 => c \in Live
      /\ \A k \in Key : Sole(k)' => Sole(k)
  BY BeginsLive DEF Sorted
<1>2. row' = row /\ jobs' = jobs /\ raced' = raced /\ fed' = fed
  BY DEF Begins
<1>3. DoneIsFed'
  BY <1>1, <1>2 DEF DoneIsFed, FedFirst
<1>4. \A j \in jobs : j.claim # counts.claims + 1
  BY BoundsAssumption DEF Sorted, Numbered, TypeOK, JobType, Claims
<1>5. FetchedIsFed'
  BY <1>1, <1>2, <1>4 DEF FetchedIsFed, FedFirst
<1>6. SnapshotsFollowFetch'
  <2> SUFFICES ASSUME NEW q \in Planners, Succeeded(q)', NEW k \in Plan(q)'
               PROVE  <<k, Claim(q)'>> \in fed' \cup raced'
    BY DEF SnapshotsFollowFetch
  <2>1. q # p
    BY DEF Begins, Succeeded, At, Plan
  <2>2. planner'[q] = planner[q]
    BY <2>1 DEF Begins, OthersStay
  <2> QED BY <1>2, <2>2 DEF FedFirst, SnapshotsFollowFetch, Succeeded, At, Plan, Claim
<1> QED BY <1>3, <1>5, <1>6 DEF FedFirst

LEMMA FedUpsert ==
    ASSUME TypeOK, Sorted, FedFirst, NEW p \in Planners, NEW k \in Key, PlanUpsert(p, k)
    PROVE  FedFirst'
<1>1. /\ Live' = Live /\ \A l \in Key : l # k /\ Sole(l)' => Sole(l)
      /\ \A l \in Key : l # k => row'[l] = row[l]
      /\ row'[k].status = "pending"
      /\ planner'[p].pc = "planning" /\ OthersStay(p)
  <2>1. /\ row'[k] = Upserted(k, Claim(p)) /\ \A l \in Key : l # k => row'[l] = row[l]
        /\ planner'[p].pc = "planning" /\ OthersStay(p)
    BY UpsertEffect DEF Keeps
  <2>2. row'[k].status = "pending"
    BY <2>1, UpsertedType
  <2>3. Live' = Live /\ \A l \in Key : l # k /\ Sole(l)' => Sole(l)
    BY UpsertKept
  <2> QED BY <2>1, <2>2, <2>3
<1>2. jobs' = jobs /\ fed' = fed /\ raced \subseteq raced'
  BY DEF PlanUpsert
<1>3. DoneIsFed'
  BY <1>1, <1>2 DEF DoneIsFed, FedFirst
<1>4. FetchedIsFed'
  BY <1>1, <1>2 DEF FetchedIsFed, FedFirst
<1>5. SnapshotsFollowFetch'
  BY <1>1, <1>2 DEF FedFirst, SnapshotsFollowFetch, Succeeded, At, Plan, Claim, OthersStay
<1> QED BY <1>3, <1>4, <1>5 DEF FedFirst

LEMMA FedRest ==
    ASSUME TypeOK, TypeOK', Sorted, FedFirst,
           Restart \/ (\E k \in Key : Age(k)) \/ UNCHANGED vars
    PROVE  FedFirst'
<1>1. CASE Restart
  <2>1. DoneQuiet
    BY <1>1 DEF DoneQuiet, Restart
  <2>2. FetchedQuiet
    BY <1>1, RetriedSame DEF FetchedQuiet, Restart, Busy
  <2>3. SuccessQuiet
    BY <1>1 DEF SuccessQuiet, Restart, Succeeded, At, Off
  <2> QED BY <1>1, <2>1, <2>2, <2>3, RestartQuiet, DoneKept, FetchedKept, SnapshotsKept
          DEF FedFirst
<1>2. ASSUME NEW k \in Key, Age(k) PROVE FedFirst'
  <2>1. DoneQuiet
    BY <1>2 DEF DoneQuiet, Age, TypeOK, RowType
  <2>2. FetchedQuiet
    BY <1>2 DEF FetchedQuiet, Age, SameJob
  <2>3. SuccessQuiet
    BY <1>2 DEF SuccessQuiet, Age, Succeeded, At
  <2> QED BY <1>2, <2>1, <2>2, <2>3, AgeQuiet, DoneKept, FetchedKept, SnapshotsKept
          DEF FedFirst
<1>3. CASE UNCHANGED vars
  BY <1>3 DEF vars, FedFirst, DoneIsFed, FetchedIsFed, SnapshotsFollowFetch, Sole, Live,
              Succeeded, At, Plan, Claim, Inside
<1> QED BY <1>1, <1>2, <1>3

LEMMA FedNext == TypeOK /\ Sorted /\ FedFirst /\ [Next]_vars => FedFirst'
<1> SUFFICES ASSUME TypeOK, Sorted, FedFirst, [Next]_vars PROVE FedFirst'
  OBVIOUS
<1>1. TypeOK'
  BY TypeNext
<1> QED
  BY <1>1, StepsBegin, FedBegins, FedUpsert, FedPlanner, FedJobs, FedRest
     DEF Next, Proceed

(* computeBackfillSnapshots runs only after every instrument of the plan   *)
(* was fetched for this run, unless a sub-job of an earlier run was still  *)
(* under way when its row was claimed.                                     *)
THEOREM SnapshotsAreFed == Spec => []SnapshotsFollowFetch
<1>1. Init => FedFirst
  BY DEF Init, FedFirst, DoneIsFed, FetchedIsFed, SnapshotsFollowFetch, Sole, Live, Inside,
         At, Off, Succeeded
<1>2. FedFirst => SnapshotsFollowFetch
  BY DEF FedFirst
<1> QED
  BY <1>1, <1>2, TypeInit, SortedInit, TypeNext, SortedNext, FedNext, PTL DEF Spec

-----------------------------------------------------------------------------
(* A row that has aged belongs to no planner.                              *)

OldRows == \A k \in Key : row[k].old => row[k].claim \notin Live

LEMMA OldQuiet ==
    ASSUME TypeOK, OldRows, PlannersQuiet,
           \A k \in Key : row'[k].old => row[k].old /\ row'[k].claim = row[k].claim
    PROVE  OldRows'
BY QuietLive DEF OldRows

LEMMA OldNext == TypeOK /\ Sorted /\ OldRows /\ [Next]_vars => OldRows'
<1> SUFFICES ASSUME TypeOK, Sorted, OldRows, [Next]_vars PROVE OldRows'
  OBVIOUS
<1>1. ASSUME NEW p, Begins(p) PROVE OldRows'
  <2>1. row' = row /\ \A c \in Live' : c # counts.claims + 1 => c \in Live
    BY <1>1, BeginsLive DEF Begins, Sorted
  <2>2. \A k \in Key : row[k].claim # counts.claims + 1
    BY BoundsAssumption DEF Sorted, Numbered, TypeOK, RowType, Claims
  <2> QED BY <2>1, <2>2 DEF OldRows
<1>2. ASSUME NEW p \in Planners, NEW k \in Key, PlanUpsert(p, k) PROVE OldRows'
  <2>1. /\ Live' = Live /\ \A l \in Key : l # k => row'[l] = row[l]
        /\ row'[k] = Upserted(k, Claim(p))
    BY <1>2, UpsertKept, UpsertEffect
  <2>2. ~row'[k].old
    BY <2>1, UpsertedType
  <2> QED BY <2>1, <2>2 DEF OldRows
<1>3. ASSUME NEW p \in Planners, NEW k \in Key, Send(p, k) PROVE OldRows'
  BY <1>3, SendQuiet, OldQuiet DEF Send, Quiet
<1>4. ASSUME NEW p \in Planners,
             \/ Reap(p) \/ SendFails(p) \/ PollDecides(p) \/ PollLost(p)
             \/ PollAborts(p) \/ Clean(p) \/ Snapshots(p)
      PROVE  OldRows'
  <2>1. \A k \in Key : row'[k].old => row[k].old /\ row'[k].claim = row[k].claim
    BY <1>4 DEF Reap, SendFails, PollDecides, PollLost, PollAborts, Clean, Snapshots,
                Deleted, NoRow
  <2> QED BY <1>4, <2>1, PlannerQuiet, OldQuiet DEF Quiet
<1>5. ASSUME NEW j \in jobs, SubStep(j) PROVE OldRows'
  <2>1. row' = row \/ row' = Marked(j, "done") \/ row' = Marked(j, "failed")
    BY <1>5 DEF SubStep, SubStarts, SubFetches, SubMarks, SubThrows, SubExpires
  <2>2. \A k \in Key : row'[k].old => row[k].old /\ row'[k].claim = row[k].claim
    BY <2>1 DEF Marked, TypeOK, RowType
  <2> QED BY <1>5, <2>2, JobStepQuiet, OldQuiet DEF Quiet
<1>6. CASE Restart
  BY <1>6, RestartQuiet, OldQuiet DEF Restart, Quiet
<1>7. ASSUME NEW k \in Key, Age(k) PROVE OldRows'
  <2>1. Live' = Live
    BY <1>7 DEF Age, Live, Claim, Inside, At
  <2>2. \A l \in Key : row'[l].claim = row[l].claim /\ (l # k => row'[l].old = row[l].old)
    BY <1>7 DEF Age, TypeOK, RowType
  <2> QED BY <1>7, <2>1, <2>2 DEF OldRows, Age
<1>8. CASE UNCHANGED vars
  BY <1>8 DEF vars, OldRows, Live, Claim, Inside, At
<1> QED
  BY <1>1, <1>2, <1>3, <1>4, <1>5, <1>6, <1>7, <1>8, StepsBegin DEF Next, Proceed

(* The rows that go in a step: those of the one planner that takes it, and *)
(* those that have aged.                                                   *)
LEMMA WhoDeletes ==
    ASSUME TypeOK, Sorted, [Next]_vars, NEW k \in Key, row[k].id # 0, row'[k].id = 0
    PROVE  \E r \in Planners :
              /\ r \in Inside /\ OthersStay(r)
              /\ row[k].old \/ row[k].claim = Claim(r)
<1>1. ASSUME NEW r \in Planners, Reap(r) PROVE row[k].old /\ r \in Inside /\ OthersStay(r)
  BY <1>1, ReapEffect DEF Reap, Deleted, Orphans, Inside, At, Keeps
<1>2. ASSUME NEW r \in Planners, SendFails(r) \/ Clean(r)
      PROVE  row[k].claim = Claim(r) /\ r \in Inside /\ OthersStay(r)
  <2>1. row[k].claim = Claim(r)
    BY <1>2 DEF SendFails, Clean, Deleted, OwnRows, Swept
  <2>2. OthersStay(r)
    BY <1>2, EndsEffect, CleanEffect DEF SendFails, Keeps
  <2> QED BY <1>2, <2>1, <2>2 DEF SendFails, Clean, Inside, At
<1>3. ASSUME NEW p \in Planners, NEW l \in Key, PlanUpsert(p, l) PROVE FALSE
  <2>1. p \in Inside /\ Claim(p) > 0
    BY <1>3, UpsertKept DEF Sorted, Numbered
  <2>2. row'[l] = Upserted(l, Claim(p)) /\ (k # l => row'[k] = row[k])
    BY <1>3, UpsertEffect
  <2> QED BY <2>1, <2>2 DEF Upserted
<1>4. ASSUME row' = row PROVE FALSE
  BY <1>4
<1>5. ASSUME (\E j \in jobs : SubStep(j)) \/ (\E l \in Key : Age(l)) PROVE FALSE
  BY <1>5, ClaimsStay
<1>6. ASSUME NEW p \in Planners,
             PollDecides(p) \/ PollLost(p) \/ PollAborts(p) \/ Snapshots(p)
      PROVE  FALSE
  BY <1>6, <1>4 DEF PollDecides, PollLost, PollAborts, Snapshots
<1>7. ASSUME NEW p \in Planners, NEW l \in Key, Send(p, l) PROVE FALSE
  BY <1>7, <1>4 DEF Send
<1>8. ASSUME Restart \/ UNCHANGED vars \/ \E p \in Planners : Begins(p) PROVE FALSE
  BY <1>8, <1>4 DEF Restart, vars, Begins
<1> QED
  BY <1>1, <1>2, <1>3, <1>5, <1>6, <1>7, <1>8, StepsBegin DEF Next, Proceed

LEMMA RowsStayStep ==
    ASSUME TypeOK, Sorted, OldRows, [Next]_vars,
           NEW p \in Planners, NEW q \in Planners, NEW k \in Key,
           p # q, planner[p] # planner'[p],
           planner[q].pc \in {"planning", "sending", "polling"},
           row[k].id # 0, row[k].claim = Claim(q)
    PROVE  row'[k].id # 0
<1> SUFFICES ASSUME row'[k].id = 0 PROVE FALSE
  OBVIOUS
<1>1. PICK r \in Planners : /\ r \in Inside /\ OthersStay(r)
                            /\ row[k].old \/ row[k].claim = Claim(r)
  BY WhoDeletes
<1>2. r = p
  BY <1>1 DEF OthersStay
<1>3. q \in Inside
  BY DEF Inside, At
<1> QED BY <1>1, <1>2, <1>3 DEF OldRows, Live, Sorted, DistinctClaims

(* No planner deletes a row that another one claimed and waits for.        *)
THEOREM LiveRowsAreKept == Spec => LiveRowsStay
<1>1. Init => OldRows
  BY DEF Init, OldRows, NoRow
<1>2. TypeOK /\ Sorted /\ OldRows /\ [Next]_vars =>
        [\A p, q \in Planners, k \in Key :
            (/\ p # q /\ planner[p] # planner'[p]
             /\ planner[q].pc \in {"planning", "sending", "polling"}
             /\ row[k].id # 0 /\ row[k].claim = Claim(q))
               => row'[k].id # 0]_vars
  BY RowsStayStep
<1> QED
  BY <1>1, <1>2, TypeInit, SortedInit, TypeNext, SortedNext, OldNext, PTL
     DEF Spec, LiveRowsStay

-----------------------------------------------------------------------------
(* The deliveries of one sub-job: one that the queue still awaits, and it  *)
(* is the last.                                                            *)

SameRun(i, j) == i.key = j.key /\ i.claim = j.claim

Ordered ==
    \A i, j \in jobs :
        (SameRun(i, j) /\ i.claim \in Live /\ ~i.expired)
            => i = j \/ (j.expired /\ j.try < i.try)

Unsent ==
    \A q \in Inside, k \in Key : WillSend(q, k) =>
        \A j \in jobs : ~(j.key = k /\ j.claim = Claim(q))

FailedLast ==
    \A k \in Key : (Sole(k) /\ row[k].status = "failed") =>
        /\ \A j \in jobs : (j.key = k /\ j.claim = row[k].claim) => j.expired
        /\ \A q \in Inside : Claim(q) = row[k].claim => ~WillSend(q, k)

LastFails == Ordered /\ Unsent /\ FailedLast

FailedQuiet == \A k \in Key : row'[k].status = "failed" => row[k].status = "failed"

LEMMA LastQuiet ==
    ASSUME TypeOK, Sorted, LastFails, Quiet, FailedQuiet, jobs' = jobs
    PROVE  LastFails'
<1>1. PlannersQuiet /\ Live' \subseteq Live
  BY QuietLive DEF Quiet
<1>2. Ordered'
  BY <1>1 DEF LastFails, Ordered, SameRun
<1>3. Unsent'
  BY <1>1 DEF LastFails, Unsent, PlannersQuiet, Claim
<1>4. FailedLast'
  <2> SUFFICES ASSUME NEW k \in Key, Sole(k)', row'[k].status = "failed"
               PROVE  /\ \A j \in jobs : (j.key = k /\ j.claim = row'[k].claim) => j.expired
                      /\ \A q \in Inside' : planner'[q].claim = row'[k].claim
                            => ~WillSend(q, k)'
    BY DEF FailedLast, Claim
  <2>1. Sole(k) /\ row'[k].claim = row[k].claim /\ row[k].status = "failed"
    BY QuietSole DEF Sorted, FailedQuiet
  <2> QED BY <1>1, <2>1 DEF LastFails, FailedLast, PlannersQuiet, Claim
<1> QED BY <1>2, <1>3, <1>4 DEF LastFails

LEMMA LastBegins ==
    ASSUME TypeOK, Sorted, LastFails, NEW p, Begins(p)
    PROVE  LastFails'
<1>1. /\ \A q \in Inside' : q # p => q \in Inside /\ planner'[q] = planner[q]
      /\ \A c \in Live' : c # counts.claims + 1 => c \in Live
      /\ \A k \in Key : Sole(k)' => Sole(k)
  BY BeginsLive DEF Sorted
<1>2. row' = row /\ jobs' = jobs /\ planner'[p].claim = counts.claims + 1
  BY DEF Begins
<1>3. /\ \A j \in jobs : j.claim # counts.claims + 1
      /\ \A k \in Key : row[k].claim # counts.claims + 1
  BY BoundsAssumption DEF Sorted, Numbered, TypeOK, JobType, RowType, Claims
<1>4. Ordered'
  BY <1>1, <1>2, <1>3 DEF LastFails, Ordered, SameRun
<1>5. \A q \in Inside', k \in Key : q # p /\ WillSend(q, k)' => WillSend(q, k)
  BY <1>1 DEF WillSend, At
<1>6. Unsent'
  BY <1>1, <1>2, <1>3, <1>5 DEF LastFails, Unsent, Claim
<1>7. FailedLast'
  BY <1>1, <1>2, <1>3, <1>5 DEF LastFails, FailedLast, Claim
<1> QED BY <1>4, <1>6, <1>7 DEF LastFails

LEMMA LastUpsert ==
    ASSUME TypeOK, Sorted, LastFails, NEW p \in Planners, NEW k \in Key, PlanUpsert(p, k)
    PROVE  LastFails'
<1>1. /\ Inside' = Inside /\ Live' = Live /\ Inside \subseteq Planners
      /\ \A q \in Planners : planner'[q].claim = Claim(q)
      /\ \A q \in Planners, l \in Key : WillSend(q, l)' => WillSend(q, l)
      /\ \A l \in Key : l # k /\ Sole(l)' => Sole(l)
  BY UpsertKept DEF Inside
<1>2. jobs' = jobs
  BY DEF PlanUpsert
<1>3. row'[k] = Upserted(k, Claim(p)) /\ \A l \in Key : l # k => row'[l] = row[l]
  BY UpsertEffect
<1>4. row'[k].status # "failed"
  BY <1>3, UpsertedType
<1>5. Ordered'
  BY <1>1, <1>2 DEF LastFails, Ordered, SameRun
<1>6. Unsent'
  BY <1>1, <1>2 DEF LastFails, Unsent, Claim
<1>7. FailedLast'
  BY <1>1, <1>2, <1>3, <1>4 DEF LastFails, FailedLast, Claim
<1> QED BY <1>5, <1>6, <1>7 DEF LastFails

LEMMA LastSend ==
    ASSUME TypeOK, Sorted, LastFails, NEW p \in Planners, NEW k \in Key, Send(p, k)
    PROVE  LastFails'
<1>0. Quiet /\ PlannersQuiet /\ Live' \subseteq Live
  BY SendQuiet, QuietLive DEF Quiet
<1>1. p \in Inside /\ WillSend(p, k) /\ ~WillSend(p, k)' /\ row' = row
  <2>1. p \in Inside /\ WillSend(p, k) /\ row' = row
    BY DEF Send, Inside, At, WillSend
  <2>2. planner'[p].pc # "planning" /\ k \notin planner'[p].todo
    BY SendEffect
  <2> QED BY <2>1, <2>2 DEF WillSend, At
<1>2. \A j \in jobs : ~(j.key = k /\ j.claim = Claim(p))
  BY <1>1 DEF LastFails, Unsent
<1>3. \A i \in jobs' : i \in jobs \/ (i = NewJob(p, k) /\ i.key = k /\ i.claim = Claim(p))
  BY DEF Send, NewJob
<1>4. Ordered'
  BY <1>0, <1>2, <1>3 DEF LastFails, Ordered, SameRun
<1>5. Unsent'
  <2> SUFFICES ASSUME NEW q \in Inside', NEW l \in Key, WillSend(q, l)', NEW j \in jobs',
                      j.key = l, j.claim = planner'[q].claim
               PROVE  FALSE
    BY DEF Unsent, Claim
  <2>1. q \in Inside /\ WillSend(q, l) /\ planner'[q].claim = Claim(q)
    BY <1>0 DEF PlannersQuiet, Claim
  <2> QED BY <1>1, <1>3, <2>1 DEF LastFails, Unsent, Sorted, DistinctClaims
<1>6. FailedLast'
  <2> SUFFICES ASSUME NEW l \in Key, Sole(l)', row'[l].status = "failed"
               PROVE  /\ \A j \in jobs' : (j.key = l /\ j.claim = row'[l].claim) => j.expired
                      /\ \A q \in Inside' : planner'[q].claim = row'[l].claim
                            => ~WillSend(q, l)'
    BY DEF FailedLast, Claim
  <2>1. Sole(l) /\ row[l].status = "failed"
    BY <1>0, <1>1, QuietSole DEF Sorted
  <2>2. /\ \A j \in jobs : (j.key = l /\ j.claim = row[l].claim) => j.expired
        /\ \A q \in Inside : Claim(q) = row[l].claim => ~WillSend(q, l)
    BY <2>1 DEF LastFails, FailedLast
  <2> QED BY <1>0, <1>1, <1>3, <2>2 DEF PlannersQuiet, Claim
<1> QED BY <1>4, <1>5, <1>6 DEF LastFails

(* What the step of a sub-job puts in its place.                           *)
LEMMA NewDeliveries ==
    ASSUME TypeOK, NEW j \in jobs, SubStep(j), NEW i \in jobs', i \notin jobs \ {j}
    PROVE  /\ SameRun(i, j)
           /\ \/ i.try = j.try /\ i.expired = j.expired
              \/ ~j.expired /\ i.try = j.try /\ i.expired
              \/ ~j.expired /\ i.try = j.try + 1 /\ ~i.expired
<1>1. j \in JobType
  BY DEF TypeOK
<1>2. CASE SubStarts(j) \/ SubFetches(j)
  <2>1. i = [j EXCEPT !.pc = "fetching"] \/ i = [j EXCEPT !.pc = "fetched"]
    BY <1>2 DEF SubStarts, SubFetches, Becomes
  <2> QED BY <1>1, <2>1 DEF JobType, SameRun
<1>3. CASE SubMarks(j)
  BY <1>3 DEF SubMarks, Becomes
<1>4. CASE SubThrows(j)
  <2>1. ~j.expired /\ i \in Retried(j)
    BY <1>4 DEF SubThrows, Becomes
  <2> QED BY <1>1, <2>1 DEF Retried, JobType, SameRun
<1>5. CASE SubExpires(j)
  <2>1. ~j.expired /\ (i \in Retried(j) \/ i = [j EXCEPT !.expired = TRUE])
    BY <1>5 DEF SubExpires, Becomes, Working
  <2> QED BY <1>1, <2>1 DEF Retried, JobType, SameRun
<1> QED BY <1>2, <1>3, <1>4, <1>5 DEF SubStep

LEMMA LastJobs ==
    ASSUME TypeOK, TypeOK', Sorted, LastFails, NEW j \in jobs, SubStep(j)
    PROVE  LastFails'
<1>0. Quiet /\ planner' = planner
  BY JobStepQuiet DEF SubStep, SubStarts, SubFetches, SubMarks, SubThrows, SubExpires
<1>1. Live' = Live /\ Inside' = Inside /\ \A q \in Inside, k \in Key : WillSend(q, k)' = WillSend(q, k)
  BY <1>0 DEF Live, Claim, Inside, At, WillSend
<1>2. \A i \in jobs' : i \notin jobs \ {j} =>
          /\ SameRun(i, j)
          /\ \/ i.try = j.try /\ i.expired = j.expired
             \/ ~j.expired /\ i.try = j.try /\ i.expired
             \/ ~j.expired /\ i.try = j.try + 1 /\ ~i.expired
  BY NewDeliveries
<1>3. \A i \in jobs : i.try \in Nat /\ i.try <= RetryLimit
  BY BoundsAssumption DEF TypeOK, JobType
<1>4. \A i, l \in jobs' : i \notin jobs \ {j} /\ l \notin jobs \ {j} =>
          \/ i = l \/ i.expired \/ (l.expired /\ l.try < i.try)
  <2>1. CASE SubStarts(j) \/ SubFetches(j) \/ SubMarks(j)
    BY <2>1 DEF SubStarts, SubFetches, SubMarks, Becomes
  <2>2. CASE SubThrows(j)
    BY <2>2 DEF SubThrows, Becomes, Retried
  <2>3. CASE SubExpires(j)
    <3> SUFFICES ASSUME NEW i \in jobs', NEW l \in jobs', i \notin jobs \ {j},
                        l \notin jobs \ {j}, i # l, ~i.expired
                 PROVE  l.expired /\ l.try < i.try
      OBVIOUS
    <3>1. /\ i \in Retried(j) \/ i = [j EXCEPT !.expired = TRUE]
          /\ l \in Retried(j) \/ l = [j EXCEPT !.expired = TRUE]
      BY <2>3 DEF SubExpires, Becomes
    <3>2. /\ [j EXCEPT !.expired = TRUE].expired = TRUE
          /\ [j EXCEPT !.expired = TRUE].try = j.try
          /\ \A m \in Retried(j) : m.try = j.try + 1
          /\ \A m, n \in Retried(j) : m = n
      BY DEF Retried, TypeOK, JobType
    <3>3. i \in Retried(j) /\ l = [j EXCEPT !.expired = TRUE]
      BY <3>1, <3>2
    <3> QED BY <1>3, <3>2, <3>3
  <2> QED BY <2>1, <2>2, <2>3 DEF SubStep
<1>5. Ordered'
  <2> SUFFICES ASSUME NEW i \in jobs', NEW l \in jobs', SameRun(i, l), i.claim \in Live,
                      ~i.expired
               PROVE  i = l \/ (l.expired /\ l.try < i.try)
    BY <1>1 DEF Ordered
  <2>1. CASE i \in jobs \ {j} /\ l \in jobs \ {j}
    BY <2>1 DEF LastFails, Ordered
  <2>2. CASE i \in jobs \ {j} /\ l \notin jobs \ {j}
    <3>1. SameRun(i, j) /\ i # j
      BY <1>2, <2>2 DEF SameRun
    <3>2. j.expired /\ j.try < i.try
      BY <2>2, <3>1 DEF LastFails, Ordered
    <3> QED BY <1>2, <2>2, <3>2
  <2>3. CASE i \notin jobs \ {j} /\ l \in jobs \ {j}
    <3>1. SameRun(j, l) /\ j # l /\ j.claim \in Live /\ ~j.expired
      BY <1>2, <2>3 DEF SameRun
    <3>2. l.expired /\ l.try < j.try
      BY <2>3, <3>1 DEF LastFails, Ordered
    <3> QED BY <1>2, <1>3, <2>3, <3>2
  <2>4. CASE i \notin jobs \ {j} /\ l \notin jobs \ {j}
    BY <1>4, <2>4
  <2> QED BY <2>1, <2>2, <2>3, <2>4
<1>6. Unsent'
  <2> SUFFICES ASSUME NEW q \in Inside, NEW k \in Key, WillSend(q, k), NEW i \in jobs',
                      i.key = k, i.claim = Claim(q)
               PROVE  FALSE
    BY <1>0, <1>1 DEF Unsent, Claim
  <2> QED BY <1>2 DEF LastFails, Unsent, SameRun
<1>7. FailedLast'
  <2> SUFFICES ASSUME NEW k \in Key, Sole(k)', row'[k].status = "failed"
               PROVE  /\ \A i \in jobs' : (i.key = k /\ i.claim = row'[k].claim) => i.expired
                      /\ \A q \in Inside : Claim(q) = row'[k].claim => ~WillSend(q, k)
    BY <1>0, <1>1 DEF FailedLast, Claim
  <2>1. Sole(k) /\ row'[k].claim = row[k].claim /\ row'[k].id = row[k].id
    BY <1>0, QuietSole DEF Sorted
  <2>2. CASE row[k].status = "failed"
    <3>1. /\ \A i \in jobs : (i.key = k /\ i.claim = row[k].claim) => i.expired
          /\ \A q \in Inside : Claim(q) = row[k].claim => ~WillSend(q, k)
      BY <2>1, <2>2 DEF LastFails, FailedLast
    <3> QED BY <1>2, <2>1, <3>1 DEF SameRun
  <2>3. CASE row[k].status # "failed"
    <3>1. SubThrows(j) /\ IsFinalAttempt(j) /\ row' = Marked(j, "failed")
      <4>1. ~(row' = row)
        BY <2>3
      <4>2. ~(row' = Marked(j, "done"))
        BY <2>3 DEF Marked, TypeOK, RowType
      <4> QED BY <4>1, <4>2 DEF SubStep, SubStarts, SubFetches, SubMarks, SubThrows, SubExpires
    <3>2. j.key = k /\ j.id = row[k].id
      BY <2>3, <3>1 DEF Marked, TypeOK, RowType
    <3>3. j.claim = row[k].claim /\ j.claim \in Live
      BY <2>1, <3>2 DEF Sorted, SoleJobs, Sole
    <3>4. jobs' = jobs \ {j} /\ ~(j.try < RetryLimit)
      <4>1. ~(j.try < RetryLimit)
        BY <1>3, <3>1, BoundsAssumption DEF IsFinalAttempt
      <4> QED BY <3>1, <4>1 DEF SubThrows, Becomes, Retried
    <3>5. ASSUME NEW i \in jobs', i.key = k, i.claim = row'[k].claim PROVE i.expired
      <4>1. i \in jobs /\ i # j /\ SameRun(i, j) /\ i.claim \in Live
        BY <2>1, <3>2, <3>3, <3>4, <3>5 DEF SameRun
      <4>2. i.expired \/ j.try < i.try
        BY <4>1 DEF LastFails, Ordered
      <4> QED BY <1>3, <3>4, <4>1, <4>2, BoundsAssumption
    <3>6. \A q \in Inside : Claim(q) = row'[k].claim => ~WillSend(q, k)
      BY <2>1, <3>2, <3>3 DEF LastFails, Unsent
    <3> QED BY <3>5, <3>6
  <2> QED BY <2>2, <2>3
<1> QED BY <1>5, <1>6, <1>7 DEF LastFails

LEMMA LastNext == TypeOK /\ Sorted /\ LastFails /\ [Next]_vars => LastFails'
<1> SUFFICES ASSUME TypeOK, Sorted, LastFails, [Next]_vars PROVE LastFails'
  OBVIOUS
<1>1. TypeOK'
  BY TypeNext
<1>2. ASSUME NEW p \in Planners,
             \/ Reap(p) \/ SendFails(p) \/ PollDecides(p) \/ PollLost(p)
             \/ PollAborts(p) \/ Clean(p) \/ Snapshots(p)
      PROVE  LastFails'
  <2>1. Quiet /\ jobs' = jobs
    BY <1>2, PlannerQuiet
       DEF Reap, SendFails, PollDecides, PollLost, PollAborts, Clean, Snapshots
  <2>2. FailedQuiet
    <3>1. CASE row' = row
      BY <3>1 DEF FailedQuiet
    <3>2. ASSUME NEW S, Deleted(S) PROVE FailedQuiet
      BY <3>2 DEF FailedQuiet, Deleted, NoRow
    <3> QED BY <1>2, <3>1, <3>2
            DEF Reap, SendFails, PollDecides, PollLost, PollAborts, Clean, Snapshots
  <2> QED BY <2>1, <2>2, LastQuiet
<1>3. ASSUME NEW k \in Key, Age(k) PROVE LastFails'
  <2>1. FailedQuiet
    BY <1>3 DEF FailedQuiet, Age, TypeOK, RowType
  <2> QED BY <1>3, <2>1, AgeQuiet, LastQuiet DEF Age
<1>4. CASE Restart
  <2>1. Inside' = {} /\ Live' = {}
    BY <1>4 DEF Restart, Inside, At, Off, Live
  <2> QED BY <2>1 DEF LastFails, Ordered, Unsent, FailedLast, Sole
<1>5. CASE UNCHANGED vars
  BY <1>5 DEF vars, LastFails, Ordered, Unsent, FailedLast, Sole, Live, Claim, Inside, At,
              WillSend, SameRun
<1> QED
  BY <1>1, <1>2, <1>3, <1>4, <1>5, StepsBegin, LastBegins, LastUpsert, LastSend, LastJobs
     DEF Next, Proceed

(* A row that no other run could reach says failed only when the queue     *)
(* awaits no delivery of its sub-job any more (isFinalAttempt).            *)
THEOREM FailedRowsAreFinal == Spec => []FailedIsFinal
<1>1. Init => LastFails
  BY DEF Init, LastFails, Ordered, Unsent, FailedLast, Inside, At, Off, Sole, Live
<1>2. LastFails => FailedIsFinal
  BY DEF LastFails, FailedLast, FailedIsFinal, Sole
<1> QED
  BY <1>1, <1>2, TypeInit, SortedInit, TypeNext, SortedNext, LastNext, PTL DEF Spec

=============================================================================
