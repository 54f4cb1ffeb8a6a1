-------------------------- MODULE SyncClaimProofs --------------------------
(* Theorems about SyncClaim, for every number of runs, pairings, retries,  *)
(* lapses and restarts.                                                    *)
EXTENDS SyncClaim, TLAPS

USE SlotsAssumption, CountsAssumption

LEMMA NoRowTyped == NoRow \in Row
  BY DEF NoRow, Row, Statuses

LEMMA OffTyped == Off \in Function
  BY DEF Off, Function, Kinds

(* The updates of the row and of a function in flight keep their types.    *)
LEMMA RowEdits ==
    ASSUME NEW row \in Row
    PROVE  /\ \A b \in BOOLEAN : [row EXCEPT !.syncing = b, !.stale = FALSE] \in Row
           /\ [row EXCEPT !.stale = TRUE] \in Row
           /\ [row EXCEPT !.linked = FALSE] \in Row
           /\ [row EXCEPT !.status = "error"] \in Row
           /\ \A a \in 0 .. MaxPairings :
                 [row EXCEPT !.status = "connected", !.session = a] \in Row
           /\ \A s \in Statuses, a \in 0 .. MaxPairings :
                 [row EXCEPT !.status = s, !.session = a, !.stale = FALSE] \in Row
  <1>1. ASSUME NEW b \in BOOLEAN
        PROVE  [row EXCEPT !.syncing = b, !.stale = FALSE] \in Row
    BY DEF Row
  <1>2. [row EXCEPT !.stale = TRUE] \in Row
    BY DEF Row
  <1>3. [row EXCEPT !.linked = FALSE] \in Row
    BY DEF Row
  <1>4. [row EXCEPT !.status = "error"] \in Row
    BY DEF Row, Statuses
  <1>5. ASSUME NEW a \in 0 .. MaxPairings
        PROVE  [row EXCEPT !.status = "connected", !.session = a] \in Row
    BY DEF Row, Statuses
  <1>6. ASSUME NEW s \in Statuses, NEW a \in 0 .. MaxPairings
        PROVE  [row EXCEPT !.status = s, !.session = a, !.stale = FALSE] \in Row
    BY DEF Row
  <1> QED BY <1>1, <1>2, <1>3, <1>4, <1>5, <1>6

LEMMA FunctionEdits ==
    ASSUME NEW f \in Function, NEW kind \in Kinds,
           NEW pc \in {"off", "claiming", "sending", "running", "releasing"}
    PROVE  /\ [f EXCEPT !.pc = pc] \in Function
           /\ [f EXCEPT !.pc = pc, !.kind = kind] \in Function
  BY DEF Function

LEMMA CountEdits ==
    ASSUME NEW c \in Counts
    PROVE  /\ c.pairings < MaxPairings =>
                 c.pairings + 1 \in Accounts /\ [c EXCEPT !.pairings = @ + 1] \in Counts
           /\ c.retries < MaxRetries => [c EXCEPT !.retries = @ + 1] \in Counts
           /\ c.lapses < MaxLapses => [c EXCEPT !.lapses = @ + 1] \in Counts
           /\ c.crashes < MaxCrashes => [c EXCEPT !.crashes = @ + 1] \in Counts
  <1>1. /\ c.pairings \in 0 .. MaxPairings /\ c.retries \in 0 .. MaxRetries
        /\ c.lapses \in 0 .. MaxLapses /\ c.crashes \in 0 .. MaxCrashes
    BY DEF Counts
  <1>2. c.pairings < MaxPairings =>
            c.pairings + 1 \in Accounts /\ [c EXCEPT !.pairings = @ + 1] \in Counts
    BY <1>1 DEF Counts, Accounts
  <1>3. c.retries < MaxRetries => [c EXCEPT !.retries = @ + 1] \in Counts
    BY <1>1 DEF Counts
  <1>4. c.lapses < MaxLapses => [c EXCEPT !.lapses = @ + 1] \in Counts
    BY <1>1 DEF Counts
  <1>5. c.crashes < MaxCrashes => [c EXCEPT !.crashes = @ + 1] \in Counts
    BY <1>1 DEF Counts
  <1> QED BY <1>2, <1>3, <1>4, <1>5

LEMMA InitTyped == Init => TypeOK
  <1> SUFFICES ASSUME Init PROVE TypeOK
    OBVIOUS
  <1>1. counts \in Counts
    BY DEF Init, Counts
  <1> QED BY <1>1, NoRowTyped, OffTyped DEF Init, TypeOK

-----------------------------------------------------------------------------
(* A step keeps the types.  The parts of the actions that give the claim   *)
(* back or leave the run are typed first.                                  *)

LEMMA ClaimPartsTyped ==
    ASSUME TypeOK, NEW r \in Runs, NEW row \in Row
    PROVE  /\ Claims(r) => /\ conn' \in Row /\ lost' \in BOOLEAN
                           /\ holder' \in Runs \cup {"nobody", "job"}
                           /\ displaced' \subseteq Runs \cup {"job"}
           /\ GivesBack(r, row) => /\ conn' \in Row /\ lost' \in BOOLEAN
                                   /\ holder' \in Runs \cup {"nobody", "job"}
                                   /\ displaced' \subseteq Runs \cup {"job"}
           /\ KeepsClaim => /\ conn' \in Row /\ lost' \in BOOLEAN
                            /\ holder' \in Runs \cup {"nobody", "job"}
                            /\ displaced' \subseteq Runs \cup {"job"}
  BY RowEdits DEF TypeOK, Claims, GivesBack, KeepsClaim, OtherHolder, Statuses

LEMMA RunPartsTyped ==
    ASSUME TypeOK, NEW r \in Runs
    PROVE  /\ Frees(r) => run' \in [Runs -> Function] /\ worker' \in Runs \cup {"nobody"}
           /\ Leaves(r) => run' \in [Runs -> Function] /\ worker' \in Runs \cup {"nobody"}
           /\ \A pc \in {"claiming", "running"}, kind \in Kinds :
                 Selected(pc, kind) \in Function
  <1>1. Frees(r) => run' \in [Runs -> Function] /\ worker' \in Runs \cup {"nobody"}
    BY OffTyped DEF TypeOK, Frees
  <1>2. Leaves(r) => run' \in [Runs -> Function] /\ worker' \in Runs \cup {"nobody"}
    <2>1. [run EXCEPT ![r].pc = "releasing"] \in [Runs -> Function]
      BY FunctionEdits, run[r] \in Function DEF TypeOK, Kinds
    <2> QED BY <1>1, <2>1 DEF TypeOK, Leaves
  <1>3. ASSUME NEW pc \in {"claiming", "running"}, NEW kind \in Kinds
        PROVE  Selected(pc, kind) \in Function
    BY DEF TypeOK, Selected, Function, Row
  <1> QED BY <1>1, <1>2, <1>3

LEMMA NextTyped == TypeOK /\ [Next]_vars => TypeOK'
  <1> SUFFICES ASSUME TypeOK, [Next]_vars PROVE TypeOK'
    OBVIOUS
  <1> USE ClaimPartsTyped, RunPartsTyped
  <1>1. ASSUME NEW r \in Runs, ManualReads(r) PROVE TypeOK'
    BY <1>1 DEF ManualReads, TypeOK, Kinds
  <1>2. ASSUME NEW r \in Runs, ManualClaims(r) PROVE TypeOK'
    <2>1. [run EXCEPT ![r].pc = "sending"] \in [Runs -> Function]
      BY FunctionEdits, run[r] \in Function DEF TypeOK, Kinds
    <2>2. [run EXCEPT ![r] = Off] \in [Runs -> Function]
      BY OffTyped DEF TypeOK
    <2>3. CASE Claimable(r)
      BY <1>2, <2>1, <2>3, conn \in Row DEF ManualClaims, TypeOK
    <2>4. CASE ~Claimable(r)
      BY <1>2, <2>2, <2>4, conn \in Row DEF ManualClaims, TypeOK
    <2> QED BY <2>3, <2>4
  <1>3. ASSUME NEW r \in Runs, SendCreates(r) \/ SendThrottled(r) PROVE TypeOK'
    BY <1>3 DEF SendCreates, SendThrottled, TypeOK, JobKinds
  <1>4. ASSUME NEW r \in Runs, SendFails(r) PROVE TypeOK'
    BY <1>4, conn \in Row DEF SendFails, TypeOK
  <1>5. ASSUME NEW r \in Runs, InlineStarts(r) PROVE TypeOK'
    <2>1. [run EXCEPT ![r].pc = "running", ![r].kind = "inline"] \in [Runs -> Function]
      BY FunctionEdits, run[r] \in Function DEF TypeOK, Kinds
    <2> QED BY <1>5, <2>1 DEF InlineStarts, KeepsClaim, TypeOK
  <1>6. ASSUME NEW r \in Runs, NEW kind \in {"targeted", "retry"}, FetchTargeted(r, kind)
        PROVE TypeOK'
    <2>1. Selected("running", kind) \in Function
      BY DEF Kinds
    <2>2. [run EXCEPT ![r] = Selected("running", kind)] \in [Runs -> Function]
      BY <2>1 DEF TypeOK
    <2>3. CASE conn.status = "connected"
      BY <1>6, <2>2, <2>3 DEF FetchTargeted, TypeOK
    <2>4. CASE conn.status # "connected"
      BY <1>6, <2>4 DEF FetchTargeted, TypeOK
    <2> QED BY <2>3, <2>4
  <1>7. ASSUME NEW r \in Runs, FetchCron(r) PROVE TypeOK'
    BY <1>7 DEF FetchCron, KeepsClaim, TypeOK, Kinds
  <1>8. ASSUME NEW r \in Runs, CronClaims(r) PROVE TypeOK'
    <2>1. [run EXCEPT ![r].pc = "running"] \in [Runs -> Function]
      BY FunctionEdits, run[r] \in Function DEF TypeOK, Kinds
    <2> QED BY <1>8, <2>1, conn \in Row DEF CronClaims, TypeOK
  <1>9. ASSUME NEW r \in Runs, JobExpires(r) PROVE TypeOK'
    BY <1>9, CountEdits DEF JobExpires, KeepsClaim, Again, TypeOK, JobKinds
  <1>10. ASSUME NEW r \in Runs, SyncSucceeds(r) PROVE TypeOK'
    <2>1. [conn EXCEPT !.status = "connected", !.session = run[r].session] \in Row
      BY RowEdits, run[r].session \in 0 .. MaxPairings DEF TypeOK, Statuses, Function
    <2> QED BY <1>10, <2>1 DEF SyncSucceeds, TypeOK
  <1>11. ASSUME NEW r \in Runs, ExportFails(r) PROVE TypeOK'
    <2>1. [conn EXCEPT !.status = "error"] \in Row
      BY RowEdits DEF TypeOK, Statuses
    <2> QED BY <1>11, <2>1 DEF ExportFails, TypeOK
  <1>12. ASSUME NEW r \in Runs, SyncThrows(r) \/ SweepReleases(r) PROVE TypeOK'
    BY <1>12, conn \in Row DEF SyncThrows, SweepReleases, ThrowClears, TypeOK
  <1>13. ASSUME NEW r \in Runs, SyncSkips(r) PROVE TypeOK'
    BY <1>13 DEF SyncSkips, TypeOK
  <1>14. ASSUME CronFires \/ SlotEnds PROVE TypeOK'
    BY <1>14 DEF CronFires, SlotEnds, KeepsClaim, TypeOK, JobKinds
  <1>15. ASSUME LeaseLapses PROVE TypeOK'
    <2>1. conn' \in Row
      BY <1>15, RowEdits DEF LeaseLapses, TypeOK, Statuses
    <2>2. counts' \in Counts
      BY <1>15, CountEdits DEF LeaseLapses, TypeOK
    <2> QED BY <1>15, <2>1, <2>2 DEF LeaseLapses, TypeOK
  <1>16. ASSUME Restart PROVE TypeOK'
    <2>1. conn' \in Row
      BY <1>16, RowEdits DEF Restart, TypeOK, Statuses
    <2>2. run' \in [Runs -> Function]
      BY <1>16, OffTyped DEF Restart
    <2> QED BY <1>16, <2>1, <2>2, CountEdits DEF Restart, Again, TypeOK, JobKinds
  <1>17. ASSUME PairFirst \/ PairAgain PROVE TypeOK'
    <2>1. counts.pairings + 1 \in Accounts
      BY <1>17, CountEdits DEF PairFirst, PairAgain, TypeOK
    <2>2. conn' \in Row
      <3>1. conn.id \in 0 .. MaxPairings /\ conn.syncing \in BOOLEAN
        BY DEF TypeOK, Row
      <3>2. \A id \in 0 .. MaxPairings, b \in BOOLEAN : Paired(id, b) \in Row
        BY <2>1 DEF Paired, Row, Statuses, Accounts
      <3>3. counts.pairings + 1 \in 0 .. MaxPairings
        BY <2>1 DEF Accounts
      <3>4. conn' = Paired(conn.id, conn.syncing) \/ conn' = Paired(counts.pairings + 1, FALSE)
        BY <1>17 DEF PairFirst, PairAgain
      <3> QED BY <3>1, <3>2, <3>3, <3>4
    <2>3. counts' \in Counts
      BY <1>17, CountEdits DEF PairFirst, PairAgain, TypeOK
    <2> QED BY <1>17, <2>1, <2>2, <2>3 DEF PairFirst, PairAgain, TypeOK
  <1>18. ASSUME Verify \/ Disconnect \/ PortfolioDeleted PROVE TypeOK'
    <2>1. conn.account \in 0 .. MaxPairings /\ conn.session \in 0 .. MaxPairings
      BY DEF TypeOK, Row
    <2>2. CASE Verify
      <3>1. \A s \in Statuses, a \in 0 .. MaxPairings :
               [conn EXCEPT !.status = s, !.session = a, !.stale = FALSE] \in Row
        BY RowEdits DEF TypeOK
      <3>2. conn' \in Row
        <4> PICK ok \in BOOLEAN :
               conn' = [conn EXCEPT !.status = IF ok THEN "connected" ELSE "error",
                                    !.session = IF ok THEN conn.account ELSE @,
                                    !.stale = FALSE]
          BY <2>2 DEF Verify
        <4>1. CASE ok
          BY <2>1, <3>1, <4>1 DEF Statuses
        <4>2. CASE ~ok
          BY <2>1, <3>1, <4>2 DEF Statuses
        <4> QED BY <4>1, <4>2
      <3> QED BY <2>2, <3>2 DEF Verify, TypeOK
    <2>3. CASE Disconnect \/ PortfolioDeleted
      <3>1. conn' \in Row
        BY <2>3, RowEdits, NoRowTyped DEF Disconnect, PortfolioDeleted, TypeOK, Statuses
      <3> QED BY <2>3, <3>1 DEF Disconnect, PortfolioDeleted, TypeOK
    <2> QED BY <1>18, <2>2, <2>3 DEF Verify, Disconnect, PortfolioDeleted, TypeOK
  <1>19. ASSUME UNCHANGED vars PROVE TypeOK'
    BY <1>19 DEF vars, TypeOK
  <1> QED
    BY <1>1, <1>2, <1>3, <1>4, <1>5, <1>6, <1>7, <1>8, <1>9, <1>10, <1>11, <1>12,
       <1>13, <1>14, <1>15, <1>16, <1>17, <1>18, <1>19
    DEF Next, Proceed, Fetch

(* The row, the functions in flight, the jobs and the worker keep their    *)
(* types through every route and handler.                                  *)
THEOREM TypeCorrect == Spec => []TypeOK
  BY InitTyped, NextTyped, PTL DEF Spec

-----------------------------------------------------------------------------
(* What SessionOfAccount needs to be inductive: ids and accounts are       *)
(* numbers already handed out, so a row inserted anew is the row of no     *)
(* function in flight; and the session such a function remembers is that   *)
(* of the account, unless the account was paired under way.                *)

Remembered(r) ==
    (run[r].pc # "off" /\ conn.status # "none" /\ conn.id = run[r].id) =>
        run[r].session = conn.account \/ conn.account \in interrupted

NumbersUsed ==
    /\ conn.id <= counts.pairings
    /\ \A r \in Runs : run[r].id <= counts.pairings

SessionInv ==
    /\ TypeOK
    /\ NumbersUsed
    /\ \A r \in Runs : Remembered(r)
    /\ SessionOfAccount

LEMMA SessionInvInit == Init => SessionInv
  BY InitTyped DEF Init, SessionInv, NumbersUsed, Remembered, SessionOfAccount, Off, NoRow

LEMMA SessionInvStep == SessionInv /\ [Next]_vars => SessionInv'
  <1> SUFFICES ASSUME SessionInv, [Next]_vars PROVE SessionInv'
    OBVIOUS
  <1>0. TypeOK /\ TypeOK'
    BY NextTyped DEF SessionInv
  <1>t. /\ conn \in Row /\ conn' \in Row
        /\ \A q \in Runs : run[q] \in Function /\ run'[q] \in Function
        /\ counts.pairings \in Nat /\ counts'.pairings \in Nat
    BY <1>0 DEF TypeOK, Counts
  (* Most steps leave id, account and session of the row alone, and let a  *)
  (* function remember what it remembered or what the row holds.           *)
  <1> DEFINE RowKept == /\ conn'.id = conn.id /\ conn'.account = conn.account
                        /\ conn'.session = conn.session
                        /\ conn'.status \in {conn.status, "error"}
                        /\ conn'.status = "none" <=> conn.status = "none"
             Kept(q) == \/ run'[q].pc = "off" /\ run'[q].id = 0
                        \/ /\ run[q].pc # "off" /\ run'[q].id = run[q].id
                           /\ run'[q].session = run[q].session
                        \/ run'[q] = run[q]
                        \/ /\ conn.status = "connected"
                           /\ run'[q].id = conn.id /\ run'[q].session = conn.session
  <1>a. ASSUME RowKept, \A q \in Runs : Kept(q),
               counts'.pairings = counts.pairings, interrupted' = interrupted
        PROVE  SessionInv'
    <2>1. NumbersUsed'
      BY <1>a, <1>t DEF SessionInv, NumbersUsed, Function, Row
    <2>2. \A q \in Runs : Remembered(q)'
      BY <1>a DEF SessionInv, Remembered, SessionOfAccount
    <2>3. SessionOfAccount'
      BY <1>a DEF SessionInv, SessionOfAccount
    <2> QED BY <1>0, <2>1, <2>2, <2>3 DEF SessionInv
  <1>b. ASSUME NEW r \in Runs,
               \/ GivesBack(r, conn) \/ Claims(r) \/ UNCHANGED conn
               \/ GivesBack(r, [conn EXCEPT !.status = "error"]) /\ conn.status # "none"
        PROVE  RowKept
    BY <1>b, <1>t DEF GivesBack, Claims, Row
  <1>c. ASSUME NEW r \in Runs,
               \/ Frees(r) \/ UNCHANGED run
               \/ /\ run[r].pc # "off"
                  /\ \/ Leaves(r)
                     \/ \E pc \in {"sending", "running"} : run' = [run EXCEPT ![r].pc = pc]
                     \/ run' = [run EXCEPT ![r].pc = "running", ![r].kind = "inline"]
        PROVE  \A q \in Runs : Kept(q)
    BY <1>c, <1>0, <1>t DEF Frees, Leaves, Off, TypeOK, Function
  <1> HIDE DEF RowKept, Kept
  <1>1. ASSUME NEW r \in Runs, ManualReads(r) \/ FetchCron(r) PROVE SessionInv'
    BY <1>1, <1>a, <1>0 DEF ManualReads, FetchCron, KeepsClaim, Selected, TypeOK, RowKept, Kept
  <1>2. ASSUME NEW r \in Runs, ManualClaims(r) \/ CronClaims(r) PROVE SessionInv'
    <2>1. RowKept
      BY <1>2, <1>b DEF ManualClaims, CronClaims, KeepsClaim
    <2>2. \/ Frees(r)
          \/ run' = [run EXCEPT ![r] = Off]
          \/ \E pc \in {"sending", "running"} : run' = [run EXCEPT ![r].pc = pc]
      BY <1>2 DEF ManualClaims, CronClaims
    <2>3. run[r].pc # "off"
      BY <1>2 DEF ManualClaims, CronClaims
    <2>4. \A q \in Runs : Kept(q)
      <3>1. CASE run' = [run EXCEPT ![r] = Off]
        BY <3>1, <1>0 DEF Off, Kept, TypeOK
      <3> QED BY <2>2, <2>3, <3>1, <1>c
    <2> QED BY <1>2, <2>1, <2>4, <1>a DEF ManualClaims, CronClaims
  <1>3. ASSUME NEW r \in Runs, SendCreates(r) \/ SendThrottled(r) \/ SendFails(r) \/ InlineStarts(r)
        PROVE  SessionInv'
    BY <1>3, <1>a, <1>b, <1>c
    DEF SendCreates, SendThrottled, SendFails, InlineStarts, KeepsClaim
  <1>4. ASSUME NEW r \in Runs, NEW kind \in {"targeted", "retry"}, FetchTargeted(r, kind)
        PROVE  SessionInv'
    BY <1>4, <1>a, <1>0 DEF FetchTargeted, Selected, TypeOK, RowKept, Kept
  <1>5. ASSUME NEW r \in Runs, JobExpires(r) PROVE SessionInv'
    <2>1. counts'.pairings = counts.pairings
      BY <1>5, <1>0 DEF JobExpires, TypeOK, Counts
    <2> QED BY <1>5, <2>1, <1>a, <1>b, <1>c DEF JobExpires, KeepsClaim
  <1>6. ASSUME NEW r \in Runs, SyncSucceeds(r) PROVE SessionInv'
    <2>1. \A q \in Runs : Kept(q)
      BY <1>6, <1>c DEF SyncSucceeds, Running
    <2>2. CASE ~SyncedRow(r)
      BY <1>6, <2>1, <2>2, <1>a, <1>b DEF SyncSucceeds, KeepsClaim
    <2>3. CASE SyncedRow(r)
      <3>1. /\ conn'.id = conn.id /\ conn'.account = conn.account
            /\ conn'.session = run[r].session /\ conn'.status = "connected"
        BY <1>6, <1>t, <2>3 DEF SyncSucceeds, GivesBack, Row
      <3>2. conn'.session = conn'.account \/ conn'.account \in interrupted
        BY <1>6, <2>3, <3>1
        DEF SyncSucceeds, Running, SyncedRow, IsRow, SessionInv, Remembered
      <3>3. counts' = counts /\ interrupted' = interrupted
        BY <1>6 DEF SyncSucceeds
      <3>4. NumbersUsed'
        BY <2>1, <3>1, <3>3, <1>t DEF SessionInv, NumbersUsed, Kept, Function, Row
      <3>5. ASSUME NEW q \in Runs PROVE Remembered(q)'
        <4>1. Kept(q)
          BY <2>1
        <4> QED BY <4>1, <2>3, <3>1, <3>3
                DEF SessionInv, Remembered, Kept, SyncedRow, IsRow, SessionOfAccount
      <3>6. SessionOfAccount'
        BY <3>2, <3>3 DEF SessionOfAccount
      <3> QED BY <1>0, <3>4, <3>5, <3>6 DEF SessionInv
    <2> QED BY <2>2, <2>3
  <1>7. ASSUME NEW r \in Runs,
               ExportFails(r) \/ SyncThrows(r) \/ SyncSkips(r) \/ SweepReleases(r)
        PROVE  SessionInv'
    <2>1. \A q \in Runs : Kept(q)
      BY <1>7, <1>c DEF ExportFails, SyncThrows, SyncSkips, SweepReleases, Running
    <2>2. RowKept
      BY <1>7, <1>b
      DEF ExportFails, SyncThrows, SyncSkips, SweepReleases, ThrowClears, KeepsClaim,
          SyncedRow, IsRow
    <2> QED BY <1>7, <2>1, <2>2, <1>a DEF ExportFails, SyncThrows, SyncSkips, SweepReleases
  <1>8. ASSUME CronFires \/ SlotEnds \/ LeaseLapses \/ PortfolioDeleted PROVE SessionInv'
    <2>1. RowKept /\ counts'.pairings = counts.pairings
      BY <1>8, <1>0, <1>t
      DEF CronFires, SlotEnds, LeaseLapses, PortfolioDeleted, KeepsClaim, RowKept, Row,
          TypeOK, Counts
    <2>2. \A q \in Runs : Kept(q)
      BY <1>8 DEF CronFires, SlotEnds, LeaseLapses, PortfolioDeleted, Kept
    <2> QED BY <1>8, <2>1, <2>2, <1>a
            DEF CronFires, SlotEnds, LeaseLapses, PortfolioDeleted
  <1>9. ASSUME Restart PROVE SessionInv'
    <2>1. RowKept /\ counts'.pairings = counts.pairings
      BY <1>9, <1>0, <1>t DEF Restart, RowKept, Row, TypeOK, Counts
    <2>2. \A q \in Runs : Kept(q)
      BY <1>9 DEF Restart, Kept, Off
    <2> QED BY <1>9, <2>1, <2>2, <1>a DEF Restart
  <1>10. ASSUME PairFirst \/ PairAgain PROVE SessionInv'
    <2>1. /\ conn'.status = "awaiting_2fa" /\ run' = run
          /\ counts'.pairings = counts.pairings + 1
          /\ conn'.account = counts.pairings + 1
          /\ interrupted \subseteq interrupted'
      BY <1>10, <1>0 DEF PairFirst, PairAgain, Paired, TypeOK, Counts
    <2>2. conn'.id <= counts'.pairings
      BY <1>10, <1>t, <2>1 DEF PairFirst, PairAgain, Paired, SessionInv, NumbersUsed, Row
    <2>3. NumbersUsed'
      BY <2>1, <2>2, <1>t DEF SessionInv, NumbersUsed, Function
    <2>4. ASSUME NEW q \in Runs PROVE Remembered(q)'
      <3>1. CASE PairFirst
        BY <3>1, <2>1, <1>t DEF PairFirst, Paired, SessionInv, NumbersUsed, Remembered, Function
      <3>2. CASE PairAgain
        BY <3>2, <2>1 DEF PairAgain, Paired, Remembered, Busy, Pending, IsRow
      <3> QED BY <1>10, <3>1, <3>2
    <2> QED BY <1>0, <2>1, <2>3, <2>4 DEF SessionInv, SessionOfAccount
  <1>11. ASSUME Verify PROVE SessionInv'
    <2>1. /\ conn'.id = conn.id /\ conn'.account = conn.account
          /\ conn'.status = "connected" => conn'.session = conn.account
          /\ run' = run /\ counts' = counts /\ interrupted' = interrupted
          /\ conn.status # "none"
      BY <1>11, <1>t DEF Verify, Row
    <2> QED BY <1>0, <2>1 DEF SessionInv, NumbersUsed, Remembered, SessionOfAccount
  <1>12. ASSUME Disconnect PROVE SessionInv'
    <2>1. conn' = NoRow /\ run' = run /\ counts' = counts /\ interrupted' = interrupted
      BY <1>12 DEF Disconnect
    <2> QED BY <1>0, <1>t, <2>1
            DEF SessionInv, NumbersUsed, Remembered, SessionOfAccount, NoRow
  <1>13. ASSUME UNCHANGED vars PROVE SessionInv'
    BY <1>13 DEF vars, SessionInv, TypeOK, NumbersUsed, Remembered, SessionOfAccount
  <1> QED
    BY <1>1, <1>2, <1>3, <1>4, <1>5, <1>6, <1>7, <1>8, <1>9, <1>10, <1>11, <1>12, <1>13
    DEF Next, Proceed, Fetch

(* A connected row holds the session of its own account, whatever syncs,   *)
(* pairings and restarts interleave, unless the account was paired while a *)
(* sync was in flight.                                                     *)
THEOREM SessionKept == Spec => []SessionOfAccount
  <1>1. SessionInv => SessionOfAccount
    BY DEF SessionInv
  <1> QED BY SessionInvInit, SessionInvStep, <1>1, PTL DEF Spec

-----------------------------------------------------------------------------
(* What NoOverlap needs to be inductive.  A function that has passed the   *)
(* claim, is no second delivery and was not displaced holds the flag of    *)
(* its row as long as the row exists, and so does the job its claim was    *)
(* handed to.  The row of a function may be gone: then ids are not given   *)
(* twice, and no other function of that id can come (Sole).                *)

Claimant(r) ==
    run[r].pc \in {"sending", "running"} /\ run[r].kind # "retry" /\ r \notin displaced

HoldsFlag(r) == Claimant(r) /\ IsRow(r) => conn.syncing /\ holder = r

JobWaits ==
    "targeted" \in waiting =>
        /\ boss /\ conn.status # "none"
        /\ "job" \notin displaced => conn.syncing /\ holder = "job"

Sole(q, r) == Claimant(q) /\ Claimant(r) /\ run[q].id = run[r].id => q = r

ClaimInv ==
    /\ \A r \in Runs : HoldsFlag(r)
    /\ \A r \in Runs : run[r].pc = "sending" => run[r].kind = "manual"
    /\ \A q, r \in Runs : Sole(q, r)
    /\ JobWaits

LEMMA ClaimInvInit == Init => ClaimInv
  BY DEF Init, ClaimInv, HoldsFlag, Sole, JobWaits, Claimant, Off

(* A step after which every claimant was one before, of the same id, and   *)
(* the flag is still its own where the row exists.                         *)
LEMMA FewerClaimants ==
    ASSUME ClaimInv,
           \A r \in Runs :
              /\ Claimant(r)' => Claimant(r) /\ run'[r].id = run[r].id
              /\ Claimant(r)' /\ IsRow(r)' => IsRow(r) /\ conn'.syncing /\ holder' = r
              /\ run'[r].pc = "sending" => run'[r].kind = "manual"
    PROVE  /\ \A r \in Runs : HoldsFlag(r)'
           /\ \A r \in Runs : (run[r].pc = "sending" => run[r].kind = "manual")'
           /\ \A q, r \in Runs : Sole(q, r)'
  BY DEF ClaimInv, HoldsFlag, Sole

(* A function becomes a claimant: it holds the flag, and those of its id   *)
(* that had it are displaced.                                              *)
LEMMA OneMoreClaimant ==
    ASSUME ClaimInv, NEW r \in Runs,
           \A q \in Runs \ {r} : /\ run'[q] = run[q]
                                 /\ q \notin displaced' => q \notin displaced
                                 /\ Claimant(q)' => ~IsRow(q),
           conn'.id = conn.id, conn.status # "none" => conn'.status # "none",
           conn'.status # "none" => conn.status # "none",
           run'[r].id = conn.id, run'[r].pc = "sending" => run'[r].kind = "manual",
           conn.status # "none", conn'.syncing, holder' = r
    PROVE  /\ \A q \in Runs : HoldsFlag(q)'
           /\ \A q \in Runs : (run[q].pc = "sending" => run[q].kind = "manual")'
           /\ \A p, q \in Runs : Sole(p, q)'
  <1>1. ASSUME NEW q \in Runs \ {r}, Claimant(q)'
        PROVE  Claimant(q) /\ run'[q].id # conn.id /\ ~IsRow(q)'
    BY <1>1 DEF Claimant, IsRow
  <1>2. \A q \in Runs : HoldsFlag(q)'
    BY <1>1 DEF HoldsFlag
  <1>3. \A q \in Runs : (run[q].pc = "sending" => run[q].kind = "manual")'
    BY DEF ClaimInv
  <1>4. ASSUME NEW p \in Runs, NEW q \in Runs PROVE Sole(p, q)'
    BY <1>1 DEF ClaimInv, Sole
  <1> QED BY <1>2, <1>3, <1>4

LEMMA ClaimInvStep == SessionInv /\ ClaimInv /\ [Next]_vars => ClaimInv'
  <1> SUFFICES ASSUME SessionInv, ClaimInv, [Next]_vars PROVE ClaimInv'
    OBVIOUS
  <1>0. TypeOK /\ TypeOK'
    BY NextTyped DEF SessionInv
  <1>t. /\ conn \in Row /\ conn' \in Row
        /\ \A q \in Runs : run[q] \in Function /\ run'[q] \in Function
        /\ run \in [Runs -> Function]
    BY <1>0 DEF TypeOK
  <1> DEFINE ManualSends(q) == run'[q].pc = "sending" => run'[q].kind = "manual"
             Others(r) == \A q \in Runs \ {r} : run'[q] = run[q]
             SameRow == conn'.id = conn.id /\ (conn'.status = "none" <=> conn.status = "none")
             Gone(r) == run'[r].pc \in {"off", "releasing"}
             (* A step of r after which it is no claimant, and which keeps *)
             (* the claim, or gives it back.                               *)
             KeptBut(r) == /\ conn'.syncing = conn.syncing
                           /\ holder' = holder \/ holder = r
                           /\ displaced \ {"job"} \subseteq displaced'
             GivenBack(r) == /\ displaced' = (displaced \cup OtherHolder(r)) \ {r}
  <1>a. ASSUME NEW r \in Runs, Frees(r) \/ Leaves(r) \/ run' = [run EXCEPT ![r] = Off]
        PROVE  Others(r) /\ Gone(r)
    BY <1>a, <1>t DEF Frees, Leaves, Off, Function
  <1>b. ASSUME NEW r \in Runs, Others(r), Gone(r), SameRow, KeptBut(r) \/ GivenBack(r)
        PROVE  /\ \A q \in Runs : HoldsFlag(q)'
               /\ \A q \in Runs : (run[q].pc = "sending" => run[q].kind = "manual")'
               /\ \A p, q \in Runs : Sole(p, q)'
    <2>1. ASSUME NEW q \in Runs, Claimant(q)'
          PROVE  q # r /\ Claimant(q) /\ run'[q].id = run[q].id
      BY <1>b, <2>1 DEF Claimant
    <2>2. ASSUME NEW q \in Runs, Claimant(q)', IsRow(q)'
          PROVE  IsRow(q) /\ conn'.syncing /\ holder' = q
      <3>1. q # r /\ Claimant(q) /\ IsRow(q) /\ conn.syncing /\ holder = q
        BY <1>b, <2>1, <2>2 DEF IsRow, ClaimInv, HoldsFlag
      <3>2. CASE KeptBut(r)
        BY <3>1, <3>2
      <3>3. CASE GivenBack(r)
        BY <2>2, <3>1, <3>3 DEF OtherHolder, Claimant
      <3> QED BY <1>b, <3>1, <3>2, <3>3
    <2>3. \A q \in Runs : ManualSends(q)
      BY <1>b DEF ClaimInv
    <2> QED BY <2>1, <2>2, <2>3, FewerClaimants
  <1>c. ASSUME NEW r \in Runs, GivesBack(r, conn) \/ GivesBack(r, [conn EXCEPT !.status = "error"])
                               \/ GivesBack(r, [conn EXCEPT !.status = "connected", !.session = run[r].session]),
               conn.status # "none"
        PROVE  SameRow /\ GivenBack(r) /\ (JobWaits /\ waiting' = waiting /\ boss' = boss => JobWaits')
    <2>1. SameRow
      BY <1>c, <1>t DEF GivesBack, Row
    <2>2. GivenBack(r)
      BY <1>c DEF GivesBack
    <2> QED BY <1>c, <2>1, <2>2 DEF JobWaits, OtherHolder
  <1> HIDE DEF Others, SameRow, Gone, KeptBut, GivenBack
  <1>1. ASSUME NEW r \in Runs, ManualReads(r) \/ FetchCron(r) PROVE ClaimInv'
    <2>1. \A q \in Runs : run'[q] = run[q] \/ run'[q].pc = "claiming"
      BY <1>1, <1>t DEF ManualReads, FetchCron, Selected
    <2>2. /\ UNCHANGED <<conn, holder, displaced, boss>>
          /\ "targeted" \in waiting' <=> "targeted" \in waiting
      BY <1>1 DEF ManualReads, FetchCron, KeepsClaim
    <2>3. \A q \in Runs : /\ Claimant(q)' => Claimant(q) /\ run'[q].id = run[q].id
                          /\ IsRow(q)' /\ Claimant(q)' => IsRow(q)
      BY <2>1, <2>2 DEF Claimant, IsRow
    <2> QED BY <2>1, <2>2, <2>3, FewerClaimants DEF ClaimInv, JobWaits, HoldsFlag
  <1>2. ASSUME NEW r \in Runs, ManualClaims(r) \/ CronClaims(r), Claimable(r) PROVE ClaimInv'
    <2>1. /\ Claims(r) /\ UNCHANGED <<boss, waiting>> /\ IsRow(r)
          /\ \/ run[r].kind = "manual" /\ run' = [run EXCEPT ![r].pc = "sending"]
             \/ run[r].kind = "cron" /\ run' = [run EXCEPT ![r].pc = "running"]
      BY <1>2 DEF ManualClaims, CronClaims, Claimable
    <2>2. /\ \A q \in Runs \ {r} : run'[q] = run[q]
          /\ run'[r].id = conn.id
          /\ run'[r].pc = "sending" => run'[r].kind = "manual"
      BY <2>1, <1>t DEF IsRow, Function
    <2>3. /\ conn'.id = conn.id /\ conn'.status = conn.status /\ conn'.syncing
          /\ conn.status # "none" /\ holder' = r
          /\ \A q \in Runs \cup {"job"} : q # r /\ q \notin displaced' => q \notin displaced
      BY <2>1, <1>t DEF Claims, IsRow, Row
    <2>4. ASSUME NEW q \in Runs \ {r}, Claimant(q)' PROVE ~IsRow(q)
      BY <1>2, <2>1, <2>2, <2>3, <2>4
      DEF Claims, Claimable, Claimant, ClaimInv, HoldsFlag, OtherHolder
    <2>5. JobWaits'
      BY <1>2, <2>1, <2>3 DEF Claims, Claimable, ClaimInv, JobWaits, OtherHolder
    <2> QED BY <2>2, <2>3, <2>4, <2>5, OneMoreClaimant DEF ClaimInv
  <1>3. ASSUME NEW r \in Runs, ManualClaims(r) \/ CronClaims(r), ~Claimable(r) PROVE ClaimInv'
    <2>1. /\ UNCHANGED <<conn, holder, displaced, boss, waiting>>
          /\ Others(r) /\ Gone(r)
      BY <1>3, <1>a DEF ManualClaims, CronClaims, KeepsClaim
    <2>2. SameRow /\ KeptBut(r)
      BY <2>1 DEF SameRow, KeptBut
    <2> QED BY <2>1, <2>2, <1>b DEF ClaimInv, JobWaits
  <1>4. ASSUME NEW r \in Runs, SendCreates(r) PROVE ClaimInv'
    <2>1. Others(r) /\ Gone(r) /\ UNCHANGED <<boss, conn>>
      BY <1>4, <1>a DEF SendCreates
    <2>2. SameRow /\ KeptBut(r)
      BY <1>4 DEF SendCreates, SameRow, KeptBut
    <2>3. JobWaits'
      BY <1>4 DEF SendCreates, ClaimInv, JobWaits, HoldsFlag, Claimant, IsRow
    <2> QED BY <2>1, <2>2, <2>3, <1>b DEF ClaimInv
  <1>5. ASSUME NEW r \in Runs, SendThrottled(r) PROVE ClaimInv'
    <2>1. Others(r) /\ Gone(r) /\ UNCHANGED <<boss, conn, waiting, displaced>>
          /\ holder' = (IF holder = r THEN "nobody" ELSE holder)
      BY <1>5, <1>a DEF SendThrottled
    <2>2. SameRow /\ KeptBut(r)
      BY <2>1 DEF SameRow, KeptBut
    <2> QED BY <2>1, <2>2, <1>b DEF ClaimInv, JobWaits
  <1>6. ASSUME NEW r \in Runs,
               SendFails(r) \/ SyncSucceeds(r) \/ ExportFails(r) \/ SyncThrows(r) \/ SweepReleases(r)
        PROVE  ClaimInv'
    <2>1. /\ Others(r) /\ Gone(r) /\ UNCHANGED <<boss, waiting>>
      BY <1>6, <1>a DEF SendFails, SyncSucceeds, ExportFails, SyncThrows, SweepReleases
    <2>2. CASE KeepsClaim
      <3>1. SameRow /\ KeptBut(r)
        BY <2>2 DEF KeepsClaim, SameRow, KeptBut
      <3> QED BY <2>1, <2>2, <3>1, <1>b DEF ClaimInv, JobWaits, KeepsClaim
    <2>3. CASE ~KeepsClaim
      <3>1. /\ conn.status # "none"
            /\ \/ GivesBack(r, conn) \/ GivesBack(r, [conn EXCEPT !.status = "error"])
               \/ GivesBack(r, [conn EXCEPT !.status = "connected", !.session = run[r].session])
        BY <1>6, <2>3 DEF SendFails, SyncSucceeds, ExportFails, SyncThrows, SweepReleases,
                          ThrowClears, SyncedRow, IsRow
      <3> QED BY <2>1, <3>1, <1>b, <1>c DEF ClaimInv
    <2> QED BY <2>2, <2>3
  <1>7. ASSUME NEW r \in Runs, InlineStarts(r) PROVE ClaimInv'
    <2>1. UNCHANGED <<boss, conn, waiting, holder, displaced>>
      BY <1>7 DEF InlineStarts, KeepsClaim
    <2>2. \A q \in Runs : /\ Claimant(q)' => Claimant(q) /\ run'[q].id = run[q].id
                          /\ IsRow(q)' => IsRow(q)
                          /\ run'[q].pc = "sending" => run'[q].kind = "manual"
      BY <1>7, <1>t, <2>1 DEF InlineStarts, ClaimInv, Claimant, IsRow, Function
    <2> QED BY <2>1, <2>2, FewerClaimants DEF ClaimInv, JobWaits, HoldsFlag
  <1>8. ASSUME NEW r \in Runs, SyncSkips(r) PROVE ClaimInv'
    <2>1. Others(r) /\ Gone(r) /\ UNCHANGED <<boss, conn, waiting, displaced>>
          /\ (holder' = holder \/ holder = r)
      BY <1>8, <1>a DEF SyncSkips
    <2>2. SameRow /\ KeptBut(r)
      BY <2>1 DEF SameRow, KeptBut
    <2> QED BY <2>1, <2>2, <1>b DEF ClaimInv, JobWaits
  <1>9. ASSUME NEW r \in Runs, NEW kind \in {"targeted", "retry"}, FetchTargeted(r, kind)
        PROVE  ClaimInv'
    <2>1. /\ run[r].pc = "off" /\ kind \in waiting /\ waiting' = waiting \ {kind}
          /\ UNCHANGED <<boss, conn>>
      BY <1>9 DEF FetchTargeted
    <2>2. CASE conn.status # "connected"
      <3>1. /\ run' = run /\ displaced' = displaced
            /\ holder' = IF kind = "targeted" /\ holder = "job" THEN "nobody" ELSE holder
        BY <1>9, <2>2 DEF FetchTargeted
      <3>2. \A q \in Runs : holder = q => holder' = q
        BY <3>1
      <3>3. JobWaits'
        BY <2>1, <3>1 DEF ClaimInv, JobWaits
      <3> QED BY <2>1, <3>1, <3>2, <3>3, FewerClaimants
              DEF ClaimInv, HoldsFlag, Claimant, IsRow
    <2>3. CASE conn.status = "connected" /\ kind = "targeted" /\ "job" \notin displaced
      <3>1. /\ run' = [run EXCEPT ![r] = Selected("running", kind)]
            /\ displaced' = displaced \ {r} /\ holder' = r /\ conn.syncing
            /\ holder = "job"
        BY <1>9, <2>1, <2>3 DEF FetchTargeted, ClaimInv, JobWaits
      <3>2. run'[r].id = conn.id /\ run'[r].pc = "running"
            /\ \A q \in Runs \ {r} : run'[q] = run[q]
        BY <3>1, <1>t DEF Selected
      <3>3. ASSUME NEW q \in Runs \ {r}, Claimant(q)' PROVE ~IsRow(q)
        BY <3>1, <3>2, <3>3 DEF Claimant, ClaimInv, HoldsFlag
      <3>4. JobWaits'
        BY <2>1, <2>3 DEF JobWaits
      <3> QED BY <2>1, <2>3, <3>1, <3>2, <3>3, <3>4, OneMoreClaimant DEF ClaimInv
    <2>4. CASE conn.status = "connected" /\ ~(kind = "targeted" /\ "job" \notin displaced)
      <3>1. /\ run' = [run EXCEPT ![r] = Selected("running", kind)]
            /\ displaced' = (IF kind = "targeted" THEN (displaced \ {"job"}) \cup {r}
                                                 ELSE displaced \ {r})
            /\ holder' = IF kind = "targeted" /\ holder = "job" THEN r ELSE holder
        BY <1>9, <2>4 DEF FetchTargeted
      <3>2. /\ run'[r].kind = kind /\ run'[r].pc = "running"
            /\ \A q \in Runs \ {r} : run'[q] = run[q]
        BY <3>1, <1>t DEF Selected
      <3>3. ~Claimant(r)'
        BY <3>1, <3>2 DEF Claimant
      <3>4. \A q \in Runs : holder = q => holder' = q
        BY <3>1
      <3>5. \A q \in Runs : Claimant(q)' => Claimant(q) /\ run'[q] = run[q]
        BY <3>1, <3>2, <3>3 DEF Claimant
      <3>6. JobWaits'
        BY <2>1, <3>1 DEF ClaimInv, JobWaits
      <3> QED BY <2>1, <3>2, <3>4, <3>5, <3>6, FewerClaimants DEF ClaimInv, HoldsFlag, IsRow
    <2> QED BY <2>2, <2>3, <2>4
  <1>10. ASSUME \/ \E r \in Runs : JobExpires(r)
                \/ CronFires \/ SlotEnds \/ LeaseLapses \/ PortfolioDeleted \/ Verify \/ PairAgain
                \/ UNCHANGED vars
         PROVE  ClaimInv'
    <2>1. /\ UNCHANGED <<boss, run, holder, displaced>>
          /\ "targeted" \in waiting' <=> "targeted" \in waiting
      BY <1>10 DEF JobExpires, CronFires, SlotEnds, LeaseLapses, PortfolioDeleted, Verify,
                   PairAgain, KeepsClaim, Again, vars
    <2>2. /\ conn'.id = conn.id /\ conn'.syncing = conn.syncing
          /\ conn'.status = "none" <=> conn.status = "none"
      <3>1. CASE Verify
        BY <3>1, <1>t DEF Verify, Row
      <3>2. CASE PairAgain
        BY <3>2, <1>t DEF PairAgain, Paired
      <3>3. CASE LeaseLapses \/ PortfolioDeleted
        BY <3>3, <1>t DEF LeaseLapses, PortfolioDeleted, Row
      <3> QED BY <1>10, <3>1, <3>2, <3>3
              DEF JobExpires, CronFires, SlotEnds, KeepsClaim, vars
    <2> QED BY <2>1, <2>2, FewerClaimants DEF ClaimInv, HoldsFlag, Claimant, IsRow, JobWaits
  <1>11. ASSUME Restart PROVE ClaimInv'
    <2>1. /\ \A q \in Runs : run'[q].pc = "off"
          /\ "targeted" \in waiting' => "targeted" \in waiting
          /\ boss' = boss /\ conn'.status = conn.status
          /\ displaced' = {"job"} \cap (displaced \cup IF boss THEN {holder} ELSE {})
      BY <1>11, <1>t DEF Restart, Again, Off, Row
    <2>2. JobWaits'
      BY <2>1 DEF ClaimInv, JobWaits
    <2> QED BY <2>1, <2>2, FewerClaimants DEF ClaimInv, Claimant
  <1>12. ASSUME PairFirst \/ Disconnect PROVE ClaimInv'
    <2>1. /\ UNCHANGED <<boss, run, displaced>> /\ "targeted" \notin waiting'
      BY <1>12 DEF PairFirst, Disconnect, ClaimInv, JobWaits
    <2>2. ASSUME NEW q \in Runs PROVE ~IsRow(q)'
      <3>1. CASE Disconnect
        BY <3>1 DEF Disconnect, IsRow, NoRow
      <3>2. CASE PairFirst
        BY <3>2, <1>0, <1>t DEF PairFirst, Paired, IsRow, SessionInv, NumbersUsed, TypeOK,
                                Counts, Function
      <3> QED BY <1>12, <3>1, <3>2
    <2> QED BY <2>1, <2>2, FewerClaimants DEF ClaimInv, JobWaits, Claimant
  <1> QED
    BY <1>1, <1>2, <1>3, <1>4, <1>5, <1>6, <1>7, <1>8, <1>9, <1>10, <1>11, <1>12
    DEF Next, Proceed, Fetch

(* Whatever routes, jobs, lapses, restarts and pairings interleave, two    *)
(* syncs of one connection run at once only if one of them is a second     *)
(* delivery or had its claim taken over or given back                      *)
(* (routes/tr/sync.ts:23-72, scheduler.ts:218-275).                        *)
THEOREM SyncsDoNotOverlap == Spec => []NoOverlap
  <1>1. Init => SessionInv /\ ClaimInv
    BY SessionInvInit, ClaimInvInit
  <1>2. SessionInv /\ ClaimInv /\ [Next]_vars => (SessionInv /\ ClaimInv)'
    BY SessionInvStep, ClaimInvStep
  <1>3. ClaimInv => NoOverlap
    BY DEF ClaimInv, Sole, Claimant, NoOverlap, Twice, Running
  <1> QED BY <1>1, <1>2, <1>3, PTL DEF Spec
=============================================================================
