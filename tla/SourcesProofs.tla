--------------------------- MODULE SourcesProofs ----------------------------
(* Theorems of the parts that fetch from outside: TrSync for every set of  *)
(* events, every behaviour of the mapper and every number of restarts,     *)
(* IbkrSync for every set of events and of overlapping syncs, Feeds for    *)
(* any providers, lookups, lengths and bounds.                             *)
EXTENDS TrSync, MCSources, FiniteSetTheorems, WellFoundedInduction, TLAPS

USE DEF Outcomes, SeedStatuses, SyncRowStatus, Healable, BrokerStatus, RowStatus, OtherStatus, Resolution,
        AnchorStatus, Verdict, ExportKind, Steps

LEMMA OvertakenRequest ==
    ASSUME request \in [at: {"none", "confirm", "discard", "recorded"},
                       issues: SUBSET Issue, current: BOOLEAN]
    PROVE  [request EXCEPT !.current = FALSE]
             \in [at: {"none", "confirm", "discard", "recorded"},
                 issues: SUBSET Issue, current: BOOLEAN]
  OBVIOUS

LEMMA NewRequest ==
    ASSUME NEW I \in SUBSET Issue, NEW kind \in {"confirm", "discard"}
    PROVE  /\ [at |-> kind, issues |-> I, current |-> TRUE]
                \in [at: {"none", "confirm", "discard", "recorded"},
                    issues: SUBSET Issue, current: BOOLEAN]
           /\ NoRequest \in [at: {"none", "confirm", "discard", "recorded"},
                             issues: SUBSET Issue, current: BOOLEAN]
  BY DEF NoRequest

LEMMA InitTyped == Init => TypeOK
<1> SUFFICES ASSUME Init PROVE TypeOK
  OBVIOUS
<1>1. crashes \in 0 .. MaxCrashes
  BY BoundsAssumption DEF Init
<1>2. /\ anchor \in [status: AnchorStatus, issues: SUBSET Issue]
      /\ request \in [at: {"none", "confirm", "discard", "recorded"},
                      issues: SUBSET Issue, current: BOOLEAN]
  BY DEF Init, NoRequest
<1>3. /\ broker \in [Events -> BrokerStatus] /\ rows \in [Events -> RowStatus]
      /\ ledger \in [Events -> Resolution] /\ other \in [Events -> OtherStatus]
      /\ export \in [Events -> ExportKind] /\ verdict \in [Events -> Verdict]
  BY DEF Init, NoExport
<1> QED
  BY <1>1, <1>2, <1>3 DEF Init, TypeOK

LEMMA NextTyped == TypeOK /\ [Next]_vars => TypeOK'
<1> SUFFICES ASSUME TypeOK, [Next]_vars PROVE TypeOK'
  OBVIOUS
<1> USE BoundsAssumption, MappingsAssumption DEF TypeOK, dbVars, syncVars, histVars
<1>1. ASSUME NEW e \in Events, BrokerMoves(e) PROVE TypeOK'
  BY <1>1 DEF BrokerMoves, BrokerNext
<1>2. CASE Export
  BY <1>2 DEF Export
<1>3. CASE CancelRows
  BY <1>3 DEF CancelRows, SetAll, Cancelled
<1>4. CASE CancelLedger
  BY <1>4 DEF CancelLedger, SetAll
<1>5. CASE ReadRows
  BY <1>5 DEF ReadRows
<1>6. CASE Seed
  BY <1>6 DEF Seed, InsertLedger
<1>7. CASE ReadLedger
  BY <1>7 DEF ReadLedger
<1>8. CASE Heal
  BY <1>8 DEF Heal, SetAll
<1>9. CASE ReadCollector
  BY <1>9 DEF ReadCollector, NewEvents, KeptIssues, Issue
<1>10. CASE InsertAnchor
  <2>1. anchor' \in [status: AnchorStatus, issues: SUBSET Issue]
    BY <1>10 DEF InsertAnchor, AnchorValue
  <2>2. request' \in [at: {"none", "confirm", "discard", "recorded"},
                      issues: SUBSET Issue, current: BOOLEAN]
    <3>1. request' = request \/ request' = [request EXCEPT !.current = FALSE]
      BY <1>10 DEF InsertAnchor
    <3> QED BY <3>1, OvertakenRequest
  <2> QED
    BY <1>10, <2>1, <2>2 DEF InsertAnchor
<1>11. CASE Materialize
  BY <1>11 DEF Materialize
<1>12. CASE Collapse
  BY <1>12 DEF Collapse, InsertLedger
<1>13. CASE UpdateAnchor
  BY <1>13 DEF UpdateAnchor, AnchorValue, NoExport
<1>14. CASE Crash
  <2>1. /\ crashes' \in 0 .. MaxCrashes
        /\ torn' \subseteq Events
        /\ export' \in [Events -> ExportKind]
    BY <1>14 DEF Crash, NoExport, Cancelled
  <2> QED
    BY <1>14, <2>1 DEF Crash
<1>15. CASE Reimport
  BY <1>15 DEF Reimport, SetAll
<1>16. CASE DiscardStep \/ GivesUp
  <2>1. CASE DiscardReads \/ DiscardCloses \/ GivesUp
    <3>1. anchor' \in [status: AnchorStatus, issues: SUBSET Issue]
      BY <2>1 DEF DiscardReads, Reads, DiscardCloses, GivesUp
    <3>2. request' \in [at: {"none", "confirm", "discard", "recorded"},
                        issues: SUBSET Issue, current: BOOLEAN]
      <4>1. request' = [at |-> "discard", issues |-> anchor.issues, current |-> TRUE]
            \/ request' = NoRequest
        BY <2>1 DEF DiscardReads, Reads, DiscardCloses, GivesUp
      <4>2. anchor.issues \in SUBSET Issue
        OBVIOUS
      <4> QED BY <4>1, <4>2, NewRequest
    <3> QED
      BY <2>1, <3>1, <3>2 DEF DiscardReads, Reads, DiscardCloses, GivesUp
  <2>2. CASE DiscardRecords
    <3>1. IssueEvents(request.issues) \subseteq Events
      BY DEF IssueEvents, Issue
    <3>2. ledger' \in [Events -> Resolution] /\ verdict' \in [Events -> Verdict]
      BY <2>2 DEF DiscardRecords, InsertLedger, Discarded
    <3> QED
      BY <2>2, <3>1, <3>2 DEF DiscardRecords
  <2> QED
    BY <1>16, <2>1, <2>2 DEF DiscardStep
<1>17. CASE ConfirmStep
  <2>1. CASE ConfirmReads
    BY <2>1 DEF ConfirmReads, Reads
  <2>3. ASSUME NEW S \in SUBSET IssueEvents(request.issues), NEW twice \in SUBSET S,
               ConfirmWrites(S, twice)
        PROVE  TypeOK'
    <3> DEFINE rest == {i \in request.issues : i[1] \notin S}
    <3>1. S \subseteq Events /\ IssueEvents(rest) \subseteq Events /\ rest \subseteq Issue
      BY DEF IssueEvents, Issue
    <3>2. /\ rows' \in [Events -> RowStatus]
          /\ ledger' \in [Events -> Resolution]
          /\ verdict' \in [Events -> Verdict]
      BY <2>3 DEF ConfirmWrites, Confirmed, Discarded
    <3>3. anchor' \in [status: AnchorStatus, issues: SUBSET Issue]
      BY <2>3, <3>1 DEF ConfirmWrites, WrittenBack
    <3>4. settled' \subseteq Events /\ overtaken' \subseteq Events /\ asked' \subseteq Events
      BY <2>3, <3>1 DEF ConfirmWrites, Overtake
    <3>5. request' \in [at: {"none", "confirm", "discard", "recorded"},
                        issues: SUBSET Issue, current: BOOLEAN]
      BY <2>3 DEF ConfirmWrites, NoRequest
    <3> QED
      BY <2>3, <3>2, <3>3, <3>4, <3>5 DEF ConfirmWrites
  <2> QED
    BY <1>17, <2>1, <2>3 DEF ConfirmStep
<1>18. ASSUME NEW e \in Events, RowStep(e) PROVE TypeOK'
  BY <1>18 DEF RowStep, ResolveConfirm, ResolveDiscard, SetCounted, SetArchived,
               DeleteRow, InsertLedger, Confirmed, Discarded
<1>19. ASSUME NEW e \in Events, TwinStep(e) PROVE TypeOK'
  BY <1>19 DEF TwinStep, ImportTwin, ConfirmTwin, DropTwin
<1>20. CASE UNCHANGED vars
  BY <1>20 DEF vars
<1> QED
  BY <1>1, <1>2, <1>3, <1>4, <1>5, <1>6, <1>7, <1>8, <1>9, <1>10, <1>11, <1>12,
     <1>13, <1>14, <1>15, <1>16, <1>17, <1>18, <1>19, <1>20 DEF Next, SyncStep

(* Every reachable state has the types TypeOK names: no step of the sync   *)
(* or of a route leaves a table, or the sync's own reads, outside them.    *)
THEOREM TypeCorrect == Spec => []TypeOK
<1>1. Init => TypeOK
  BY InitTyped
<1>2. TypeOK /\ [Next]_vars => TypeOK'
  BY NextTyped
<1> QED
  BY <1>1, <1>2, PTL DEF Spec

-----------------------------------------------------------------------------
(* The invariant of a confirmed event, one event at a time.                *)

EventInv(e) ==
    /\ Known(e) => ledger[e] = "confirmed" /\ rows[e] # "draft"
    /\ (e \notin overtaken /\ pc = "cancelLedger" /\ export[e] = "cancelled") =>
          rows[e] = "none" /\ verdict[e] # "confirmed"
    /\ Safe(e) =>
         /\ ledger[e] = "discarded" =>
              \/ verdict[e] \in {"discarded", "revived"}
              \/ pc = "cancelLedger" /\ export[e] = "cancelled"
         /\ (pc \in {"seed", "readLedger", "heal", "collector"} /\ e \notin existing)
               => rows[e] = "none"
         /\ (pc = "heal" /\ e \in healable) =>
               \/ verdict[e] \in {"discarded", "revived"}
               \/ verdict[e] = "none" /\ rows[e] = "none"
         /\ (pc \in {"heal", "collector"} /\ Known(e)) =>
               e \in existing \/ e \in resolved \ healable
         /\ (pc \in {"anchor", "materialize"} /\ e \in drafts) =>
               rows[e] = "none" /\ verdict[e] # "confirmed"

LEMMA ConfirmInvByEvent == ConfirmInv <=> \A e \in Events : EventInv(e)
  BY DEF ConfirmInv, KnownIsRecorded, ReadsStillHold, ConfirmedNeverReoffered,
         EventInv, Known, Safe

LEMMA EventInvStep ==
    ASSUME TypeOK, [Next]_vars, NEW e \in Events, EventInv(e)
    PROVE  EventInv(e)'
<1> USE DEF TypeOK, EventInv, Known, Safe, dbVars, syncVars, histVars
<1>1. ASSUME NEW x \in Events, BrokerMoves(x) PROVE EventInv(e)'
  BY <1>1 DEF BrokerMoves
<1>2. CASE Export
  BY <1>2 DEF Export
<1>3. CASE CancelRows
  BY <1>3 DEF CancelRows, SetAll, Cancelled
<1>4. CASE CancelLedger
  BY <1>4 DEF CancelLedger, SetAll, Cancelled
<1>5. CASE ReadRows
  BY <1>5 DEF ReadRows
<1>6. CASE Seed
  BY <1>6 DEF Seed, InsertLedger
<1>7. CASE ReadLedger
  BY <1>7 DEF ReadLedger
<1>8. CASE Heal
  BY <1>8 DEF Heal, SetAll
<1>9. CASE ReadCollector
  BY <1>9 DEF ReadCollector, NewEvents
<1>10. CASE InsertAnchor
  BY <1>10 DEF InsertAnchor
<1>11. CASE Materialize
  BY <1>11 DEF Materialize
<1>12. CASE Collapse
  BY <1>12 DEF Collapse, InsertLedger
<1>13. CASE UpdateAnchor
  BY <1>13 DEF UpdateAnchor, NoExport
<1>14. CASE Crash
  BY <1>14 DEF Crash, NoExport, Cancelled
<1>15. CASE Reimport
  BY <1>15 DEF Reimport, SetAll
<1>16. CASE DiscardStep \/ GivesUp
  BY <1>16 DEF DiscardStep, DiscardReads, Reads, DiscardRecords, DiscardCloses, GivesUp,
               InsertLedger, Discarded
<1>17. CASE ConfirmStep
  <2>1. CASE ConfirmReads
    BY <2>1 DEF ConfirmReads, Reads
  <2>3. ASSUME NEW S \in SUBSET IssueEvents(request.issues), NEW twice \in SUBSET S,
               ConfirmWrites(S, twice)
        PROVE  EventInv(e)'
    <3> DEFINE rest == {i \in request.issues : i[1] \notin S}
               auto == IF \A i \in rest : i[2] # "attention" THEN IssueEvents(rest) ELSE {}
               merged == {d \in S : CountedMatch(d)} \ twice
    <3>1. /\ rows'[e] = IF e \in S \ merged /\ rows[e] = "none" THEN "normal" ELSE rows[e]
          /\ ledger'[e] = IF ledger[e] # "none" THEN ledger[e]
                          ELSE IF e \in S THEN "confirmed"
                          ELSE IF e \in auto THEN "discarded" ELSE "none"
          /\ verdict'[e] = IF e \in auto \ S THEN Discarded(auto)[e] ELSE Confirmed(S)[e]
          /\ overtaken' = IF pc = "idle" THEN overtaken ELSE overtaken \cup (S \cup auto)
          /\ UNCHANGED <<syncVars, torn>>
          /\ e \in S => rows[e] # "draft"
      BY <2>3 DEF ConfirmWrites, Overtake, PendingMatch
    <3> HIDE DEF auto, merged
    <3>2. CASE pc # "idle" /\ e \in S \cup auto
      BY <3>1, <3>2
    <3>3. /\ Confirmed(S)[e] = IF e \notin S THEN verdict[e]
                              ELSE IF verdict[e] \in {"none", "confirmed"}
                                   THEN "confirmed" ELSE "revived"
          /\ Discarded(auto)[e] = IF e \in auto /\ verdict[e] = "none"
                                 THEN "discarded" ELSE verdict[e]
      BY DEF Confirmed, Discarded
    <3>4. CASE e \notin S \cup auto
      BY <3>1, <3>3, <3>4
    <3>5. CASE pc = "idle" /\ e \in S
      BY <3>1, <3>3, <3>5
    <3>6. CASE pc = "idle" /\ e \in auto \ S
      BY <3>1, <3>3, <3>6
    <3> QED
      BY <3>2, <3>4, <3>5, <3>6
  <2> QED
    BY <1>17, <2>1, <2>3 DEF ConfirmStep
<1>18. ASSUME NEW x \in Events, RowStep(x) PROVE EventInv(e)'
  <2>1. CASE ResolveConfirm(x)
    BY <2>1 DEF ResolveConfirm, InsertLedger, Confirmed
  <2>2. CASE ResolveDiscard(x)
    BY <2>2 DEF ResolveDiscard, InsertLedger, Discarded
  <2>3. CASE SetCounted(x)
    BY <2>3 DEF SetCounted, InsertLedger, Confirmed
  <2>4. CASE SetArchived(x)
    BY <2>4 DEF SetArchived, InsertLedger, Discarded
  <2>5. CASE DeleteRow(x)
    BY <2>5 DEF DeleteRow
  <2> QED
    BY <1>18, <2>1, <2>2, <2>3, <2>4, <2>5 DEF RowStep
<1>19. ASSUME NEW x \in Events, TwinStep(x) PROVE EventInv(e)'
  BY <1>19 DEF TwinStep, ImportTwin, ConfirmTwin, DropTwin
<1>20. CASE UNCHANGED vars
  BY <1>20 DEF vars
<1> QED
  BY <1>1, <1>2, <1>3, <1>4, <1>5, <1>6, <1>7, <1>8, <1>9, <1>10, <1>11, <1>12,
     <1>13, <1>14, <1>15, <1>16, <1>17, <1>18, <1>19, <1>20 DEF Next, SyncStep

(* The strengthening that makes the next theorem inductive: what the sync  *)
(* read stays true of every confirmed event until the sync acts on it.     *)
THEOREM ConfirmInvariant == Spec => []ConfirmInv
<1>1. Init => ConfirmInv
  BY DEF Init, ConfirmInv, KnownIsRecorded, ReadsStillHold,
         ConfirmedNeverReoffered, Known, Safe
<1>2. TypeOK /\ ConfirmInv /\ [Next]_vars => ConfirmInv'
  <2> SUFFICES ASSUME TypeOK, ConfirmInv, [Next]_vars PROVE ConfirmInv'
    OBVIOUS
  <2>1. \A e \in Events : EventInv(e)
    BY ConfirmInvByEvent
  <2>2. \A e \in Events : EventInv(e)'
    BY <2>1, EventInvStep
  <2> QED
    BY <2>2 DEF ConfirmInv, KnownIsRecorded, ReadsStillHold,
                ConfirmedNeverReoffered, EventInv, Known, Safe
<1> QED
  BY <1>1, <1>2, TypeCorrect, PTL DEF Spec

(* An event the user confirmed is never offered as a draft again, however  *)
(* the statements of the syncs and the requests of the user interleave.    *)
THEOREM ConfirmedStaysConfirmed == Spec => []ConfirmedNeverReoffered
<1>1. ConfirmInv => ConfirmedNeverReoffered
  BY DEF ConfirmInv
<1> QED
  BY <1>1, ConfirmInvariant, PTL

-----------------------------------------------------------------------------
(* The ledger holds decided events only.                                   *)

LedgerInv(e) ==
    /\ ledger[e] # "none" =>
         \/ e \in settled \cup torn
         \/ pc = "cancelLedger" /\ export[e] = "cancelled"
    /\ rows[e] \in {"normal", "archived"} => e \in settled
    /\ (pc = "seed" /\ e \in seed) => e \in settled \cup torn

LEMMA LedgerInvStep ==
    ASSUME TypeOK, [Next]_vars, NEW e \in Events, LedgerInv(e)
    PROVE  LedgerInv(e)'
<1>0. rows \in [Events -> RowStatus] /\ ledger \in [Events -> Resolution]
  BY DEF TypeOK
<1> USE <1>0 DEF LedgerInv, dbVars, syncVars, histVars
<1>1. CASE Export
  BY <1>1 DEF Export
<1>2. CASE CancelRows
  BY <1>2 DEF CancelRows, SetAll, Cancelled
<1>3. CASE CancelLedger
  BY <1>3 DEF CancelLedger, SetAll, Cancelled
<1>4. CASE ReadRows
  BY <1>4 DEF ReadRows
<1>5. CASE Seed
  BY <1>5 DEF Seed, InsertLedger
<1>6. CASE ReadLedger
  BY <1>6 DEF ReadLedger
<1>7. CASE Heal
  BY <1>7 DEF Heal, SetAll
<1>8. CASE ReadCollector
  BY <1>8 DEF ReadCollector
<1>9. CASE InsertAnchor
  BY <1>9 DEF InsertAnchor
<1>10. CASE Materialize
  BY <1>10 DEF Materialize, PendingMatch, CountedMatch
<1>11. CASE Collapse
  BY <1>11 DEF Collapse, InsertLedger
<1>12. CASE UpdateAnchor
  BY <1>12 DEF UpdateAnchor, NoExport
<1>13. CASE Crash
  BY <1>13 DEF Crash, NoExport, Cancelled
<1>14. CASE Reimport
  BY <1>14 DEF Reimport, SetAll
<1>15. CASE DiscardStep \/ GivesUp
  BY <1>15 DEF DiscardStep, DiscardReads, Reads, DiscardRecords, DiscardCloses, GivesUp,
               InsertLedger
<1>16. CASE ConfirmStep
  <2>1. CASE ConfirmReads
    BY <2>1 DEF ConfirmReads, Reads
  <2>3. ASSUME NEW S \in SUBSET IssueEvents(request.issues), NEW twice \in SUBSET S,
               ConfirmWrites(S, twice)
        PROVE  LedgerInv(e)'
    BY <2>3 DEF ConfirmWrites
  <2> QED
    BY <1>16, <2>1, <2>3 DEF ConfirmStep
<1>17. ASSUME NEW x \in Events, RowStep(x) PROVE LedgerInv(e)'
  BY <1>17 DEF RowStep, ResolveConfirm, ResolveDiscard, SetCounted, SetArchived,
               DeleteRow, InsertLedger
<1>18. ASSUME NEW x \in Events, TwinStep(x) PROVE LedgerInv(e)'
  BY <1>18 DEF TwinStep, ImportTwin, ConfirmTwin, DropTwin
<1>19. ASSUME NEW x \in Events, BrokerMoves(x) PROVE LedgerInv(e)'
  BY <1>19 DEF BrokerMoves
<1>20. CASE UNCHANGED vars
  BY <1>20 DEF vars
<1> QED
  BY <1>1, <1>2, <1>3, <1>4, <1>5, <1>6, <1>7, <1>8, <1>9, <1>10, <1>11, <1>12,
     <1>13, <1>14, <1>15, <1>16, <1>17, <1>18, <1>19, <1>20 DEF Next, SyncStep

(* No event is in the ledger that nobody decided, except one torn by a     *)
(* re-import during the seeding or by a crash inside a cancellation: every *)
(* other executed event is offered by the next sync that completes.        *)
THEOREM LedgerHoldsDecisions == Spec => []NothingLost
<1>1. Init => \A e \in Events : LedgerInv(e)
  BY DEF Init, LedgerInv
<1>2. TypeOK /\ (\A e \in Events : LedgerInv(e)) /\ [Next]_vars
        => (\A e \in Events : LedgerInv(e))'
  BY LedgerInvStep
<1>3. (\A e \in Events : LedgerInv(e)) => NothingLost
  BY DEF LedgerInv, NothingLost
<1> QED
  BY <1>1, <1>2, <1>3, TypeCorrect, PTL DEF Spec

-----------------------------------------------------------------------------
(* One live copy of a trade.                                               *)

CopyInv(e) ==
    (rows[e] \in {"draft", "normal"} /\ other[e] # "none") => e \in asked

LEMMA CopyInvStep ==
    ASSUME TypeOK, [Next]_vars, NEW e \in Events, CopyInv(e)
    PROVE  CopyInv(e)'
<1> USE DEF TypeOK, CopyInv, dbVars, syncVars, histVars
<1>1. CASE Export
  BY <1>1 DEF Export
<1>2. CASE CancelRows
  BY <1>2 DEF CancelRows, SetAll, Cancelled
<1>3. CASE CancelLedger
  BY <1>3 DEF CancelLedger, SetAll, Cancelled
<1>4. CASE ReadRows
  BY <1>4 DEF ReadRows
<1>5. CASE Seed
  BY <1>5 DEF Seed, InsertLedger
<1>6. CASE ReadLedger
  BY <1>6 DEF ReadLedger
<1>7. CASE Heal
  BY <1>7 DEF Heal, SetAll
<1>8. CASE ReadCollector
  BY <1>8 DEF ReadCollector
<1>9. CASE InsertAnchor
  BY <1>9 DEF InsertAnchor
<1>10. CASE Materialize
  BY <1>10 DEF Materialize, PendingMatch, CountedMatch
<1>11. CASE Collapse
  BY <1>11 DEF Collapse, InsertLedger
<1>12. CASE UpdateAnchor
  BY <1>12 DEF UpdateAnchor, NoExport
<1>13. CASE Crash
  BY <1>13 DEF Crash, NoExport, Cancelled
<1>14. CASE Reimport
  BY <1>14 DEF Reimport, SetAll
<1>15. CASE DiscardStep \/ GivesUp
  BY <1>15 DEF DiscardStep, DiscardReads, Reads, DiscardRecords, DiscardCloses, GivesUp,
               InsertLedger
<1>16. CASE ConfirmStep
  <2>1. CASE ConfirmReads
    BY <2>1 DEF ConfirmReads, Reads
  <2>3. ASSUME NEW S \in SUBSET IssueEvents(request.issues), NEW twice \in SUBSET S,
               ConfirmWrites(S, twice)
        PROVE  CopyInv(e)'
    BY <2>3 DEF ConfirmWrites, PendingMatch, CountedMatch
  <2> QED
    BY <1>16, <2>1, <2>3 DEF ConfirmStep
<1>17. ASSUME NEW x \in Events, RowStep(x) PROVE CopyInv(e)'
  BY <1>17 DEF RowStep, ResolveConfirm, ResolveDiscard, SetCounted, SetArchived,
               DeleteRow
<1>18. ASSUME NEW x \in Events, TwinStep(x) PROVE CopyInv(e)'
  BY <1>18 DEF TwinStep, ImportTwin, ConfirmTwin, DropTwin
<1>19. ASSUME NEW x \in Events, BrokerMoves(x) PROVE CopyInv(e)'
  BY <1>19 DEF BrokerMoves
<1>20. CASE UNCHANGED vars
  BY <1>20 DEF vars
<1> QED
  BY <1>1, <1>2, <1>3, <1>4, <1>5, <1>6, <1>7, <1>8, <1>9, <1>10, <1>11, <1>12,
     <1>13, <1>14, <1>15, <1>16, <1>17, <1>18, <1>19, <1>20 DEF Next, SyncStep

(* The broker's row and the row of another source never both stand for one *)
(* trade unless the user asked for both: the classification inside the     *)
(* locked transaction sees every row written before it.                    *)
THEOREM NoSecondCopy == Spec => []OneLiveCopy
<1>1. Init => OneLiveCopy
  BY DEF Init, OneLiveCopy
<1>2. TypeOK /\ OneLiveCopy /\ [Next]_vars => OneLiveCopy'
  BY CopyInvStep DEF OneLiveCopy, CopyInv
<1> QED
  BY <1>1, <1>2, TypeCorrect, PTL DEF Spec

-----------------------------------------------------------------------------
(* What was cancelled stays gone for the sync that saw it.                 *)

(* An export is that of the sync under way, and what it is about to write  *)
(* are drafts of that export, never what it saw cancelled; nor does it seed*)
(* the ledger with that, unless a re-import undid the decision meanwhile.  *)
GoneInv(e) ==
    /\ pc = "idle" => export[e] = "absent"
    /\ (pc \in {"anchor", "materialize"} /\ e \in drafts) => export[e] = "draft"
    /\ e \in collapsed => pc = "collapse" /\ export[e] = "draft"
    /\ (export[e] = "cancelled" /\ verdict[e] = "none") =>
          /\ pc # "cancelRows" => rows[e] = "none"
          /\ pc \notin {"cancelRows", "cancelLedger"} => ledger[e] = "none" \/ e \in torn
          /\ (pc = "seed" /\ e \in seed) => e \in torn

LEMMA GoneInvStep ==
    ASSUME TypeOK, [Next]_vars, NEW e \in Events, GoneInv(e)
    PROVE  GoneInv(e)'
<1>0. /\ rows \in [Events -> RowStatus] /\ export \in [Events -> ExportKind]
      /\ ledger \in [Events -> Resolution] /\ verdict \in [Events -> Verdict]
  BY DEF TypeOK
<1> USE <1>0 DEF GoneInv, dbVars, syncVars, histVars
<1>1. CASE Export
  BY <1>1 DEF Export
<1>2. CASE CancelRows
  BY <1>2 DEF CancelRows, SetAll, Cancelled
<1>3. CASE CancelLedger
  BY <1>3 DEF CancelLedger, SetAll, Cancelled
<1>4. CASE ReadRows
  BY <1>4 DEF ReadRows
<1>5. CASE Seed
  BY <1>5 DEF Seed, InsertLedger
<1>6. CASE ReadLedger \/ Heal
  BY <1>6 DEF ReadLedger, Heal, SetAll
<1>7. CASE ReadCollector
  BY <1>7 DEF ReadCollector
<1>8. CASE InsertAnchor
  BY <1>8 DEF InsertAnchor
<1>9. CASE Materialize
  <2>1. /\ pc = "materialize" /\ pc' \in {"update", "collapse"}
        /\ UNCHANGED <<export, verdict, ledger, torn>>
        /\ e \notin drafts => rows'[e] = rows[e]
        /\ collapsed' \subseteq drafts \/ collapsed' = collapsed
        /\ e \in collapsed' => pc' = "collapse"
    BY <1>9 DEF Materialize
  <2>2. CASE e \in drafts
    BY <2>1, <2>2
  <2>3. CASE e \notin drafts
    BY <2>1, <2>3
  <2> QED
    BY <2>2, <2>3
<1>10. CASE Collapse
  BY <1>10 DEF Collapse, InsertLedger
<1>11. CASE UpdateAnchor
  BY <1>11 DEF UpdateAnchor, NoExport
<1>12. CASE Crash
  BY <1>12 DEF Crash, NoExport
<1>13. CASE Reimport
  BY <1>13 DEF Reimport, SetAll
<1>14. CASE DiscardStep \/ GivesUp
  BY <1>14 DEF DiscardStep, DiscardReads, Reads, DiscardRecords, DiscardCloses, GivesUp,
               InsertLedger, Discarded
<1>15. CASE ConfirmStep
  <2>1. CASE ConfirmReads
    BY <2>1 DEF ConfirmReads, Reads
  <2>2. ASSUME NEW S \in SUBSET IssueEvents(request.issues), NEW twice \in SUBSET S,
               ConfirmWrites(S, twice)
        PROVE  GoneInv(e)'
    <3> DEFINE rest == {i \in request.issues : i[1] \notin S}
               auto == IF \A i \in rest : i[2] # "attention" THEN IssueEvents(rest) ELSE {}
    <3>1. /\ UNCHANGED <<syncVars, torn>>
          /\ e \notin S => rows'[e] = rows[e]
          /\ e \notin S \cup auto => ledger'[e] = ledger[e]
          /\ verdict'[e] = IF e \in auto \ S THEN Discarded(auto)[e] ELSE Confirmed(S)[e]
      BY <2>2 DEF ConfirmWrites
    <3> HIDE DEF auto
    <3>2. /\ e \in S \cup auto => verdict'[e] # "none"
          /\ e \notin S \cup auto => verdict'[e] = verdict[e]
      BY <3>1 DEF Confirmed, Discarded
    <3> QED BY <3>1, <3>2
  <2> QED
    BY <1>15, <2>1, <2>2 DEF ConfirmStep
<1>16. ASSUME NEW x \in Events, RowStep(x) PROVE GoneInv(e)'
  BY <1>16 DEF RowStep, ResolveConfirm, ResolveDiscard, SetCounted, SetArchived, DeleteRow,
               InsertLedger, Confirmed, Discarded
<1>17. ASSUME NEW x \in Events, TwinStep(x) PROVE GoneInv(e)'
  BY <1>17 DEF TwinStep, ImportTwin, ConfirmTwin, DropTwin
<1>18. ASSUME NEW x \in Events, BrokerMoves(x) PROVE GoneInv(e)'
  BY <1>18 DEF BrokerMoves
<1>19. CASE UNCHANGED vars
  BY <1>19 DEF vars
<1> QED
  BY <1>1, <1>2, <1>3, <1>4, <1>5, <1>6, <1>7, <1>8, <1>9, <1>10, <1>11, <1>12,
     <1>13, <1>14, <1>15, <1>16, <1>17, <1>18, <1>19 DEF Next, SyncStep

(* From the deletes of a cancelled event to the end of the sync that saw   *)
(* it, it has neither a row of the broker nor an entry in the ledger, also *)
(* where an earlier sync died between the two deletes; the exceptions are  *)
(* a decision taken after the deletion, and the seeding of one that a      *)
(* re-import undid meanwhile (cancellation.ts:42-80).                      *)
THEOREM CancelledStaysGone == Spec => []CancelledIsGone
<1>1. Init => \A e \in Events : GoneInv(e)
  BY DEF Init, NoExport, GoneInv
<1>2. TypeOK /\ (\A e \in Events : GoneInv(e)) /\ [Next]_vars
        => (\A e \in Events : GoneInv(e))'
  BY GoneInvStep
<1>3. (\A e \in Events : GoneInv(e)) => CancelledIsGone
  BY DEF GoneInv, CancelledIsGone
<1> QED
  BY <1>1, <1>2, <1>3, TypeCorrect, PTL DEF Spec
-----------------------------------------------------------------------------
(* The sync of Interactive Brokers.  What a sync may still offer or write  *)
(* into the ledger, and what it takes for granted there.                   *)
MayOffer(s) ==
    IF sync[s].at \in {"rows", "seed", "collector"}
    THEN FlexEvents \ sync[s].resolved ELSE sync[s].drafts

(* An event decided since the sync read the ledger has a row or a twin     *)
(* that the sync will find; one that moved away is named by loose; what it *)
(* will record was counted, or merged into a twin.                         *)
StaleReads(s) ==
    /\ sync[s].at = "idle" => sync[s] = Idle
    /\ \A e \in MayOffer(s) \ loose :
          /\ decided[e] # "none" => held["home"][e] # "none" \/ twin[e] = "normal"
          /\ held["away"][e] = "none"
    /\ sync[s].counted \subseteq chosen \cup reread
    /\ \A e \in sync[s].counted \ loose : held["home"][e] \in {"normal", "archived"}
    /\ \A e \in sync[s].merged \ loose : twin[e] = "normal" /\ held["home"][e] # "draft"

(* Rows that are decided were chosen; one that left the home portfolio     *)
(* undecided is named by loose.                                            *)
DecidedRows ==
    /\ \A p \in Places, e \in FlexEvents :
          held[p][e] \in {"normal", "archived"} => e \in chosen
    /\ \A e \in FlexEvents \ loose :
          /\ held["away"][e] # "draft"
          /\ decided[e] = "none" => held["away"][e] = "none"
    /\ DecisionsStand /\ HeldOnce

IbkrInv == IbkrTypeOK /\ (\A s \in Syncs : StaleReads(s)) /\ DecidedRows

SyncType ==
    [at: {"idle", "rows", "seed", "collector", "write", "collapse", "close"},
     resolved: SUBSET FlexEvents, existing: SUBSET FlexEvents,
     counted: SUBSET FlexEvents, open: BOOLEAN,
     drafts: SUBSET FlexEvents, merged: SUBSET FlexEvents]
MoveType == [at: {"none", "target", "write"}, from: Places, ids: SUBSET FlexEvents]
CollectorType == [open: BOOLEAN, discarding: BOOLEAN, staged: SUBSET FlexEvents]

LEMMA IbkrTypes ==
    ASSUME IbkrTypeOK
    PROVE  /\ sync \in [Syncs -> SyncType] /\ move \in MoveType /\ collector \in CollectorType
           /\ held \in [Places -> [FlexEvents -> {"none", "draft", "normal", "archived"}]]
           /\ decided \in [FlexEvents -> {"none", "confirmed", "discarded"}]
           /\ twin \in [FlexEvents -> {"none", "draft", "normal"}]
           /\ chosen \subseteq FlexEvents /\ loose \subseteq FlexEvents
           /\ reread \subseteq FlexEvents
BY DEF IbkrTypeOK, SyncType, MoveType, CollectorType

LEMMA IdleTyped == Idle \in SyncType
BY DEF Idle, SyncType

LEMMA SyncGoes ==
    ASSUME IbkrTypeOK, NEW s \in Syncs, NEW r \in SyncType, sync' = [sync EXCEPT ![s] = r]
    PROVE  /\ sync' \in [Syncs -> SyncType] /\ sync'[s] = r
           /\ \A x \in Syncs \ {s} : sync'[x] = sync[x]
BY IbkrTypes

(* What each step of a sync does to the syncs.                             *)
LEMMA LedgerRead ==
    ASSUME IbkrTypeOK, NEW s \in Syncs, LoadsLedger(s)
    PROVE  /\ sync' \in [Syncs -> SyncType] /\ \A x \in Syncs \ {s} : sync'[x] = sync[x]
           /\ sync'[s].at = "rows"
           /\ sync'[s].resolved = {e \in FlexEvents : decided[e] # "none"}
           /\ sync'[s].counted = sync[s].counted /\ sync'[s].merged = sync[s].merged
<1> DEFINE known == {e \in FlexEvents : decided[e] # "none"}
           r == [sync[s] EXCEPT !.at = "rows", !.resolved = known]
<1>1. sync[s] \in SyncType /\ known \subseteq FlexEvents
  BY IbkrTypes
<1>2. sync' = [sync EXCEPT ![s] = r]
  BY DEF LoadsLedger
<1> HIDE DEF known
<1>3. /\ r \in SyncType /\ r.at = "rows" /\ r.resolved = known
      /\ r.counted = sync[s].counted /\ r.merged = sync[s].merged
  BY <1>1 DEF SyncType
<1> HIDE DEF r
<1> QED BY <1>2, <1>3, SyncGoes DEF known

LEMMA RowsRead ==
    ASSUME IbkrTypeOK, NEW s \in Syncs, LoadsRows(s)
    PROVE  /\ sync' \in [Syncs -> SyncType] /\ \A x \in Syncs \ {s} : sync'[x] = sync[x]
           /\ sync'[s].at \in {"seed", "collector"}
           /\ sync'[s].resolved = sync[s].resolved
           /\ sync'[s].counted = CountedRows /\ sync'[s].merged = sync[s].merged
<1> DEFINE at == IF CountedRows = {} THEN "collector" ELSE "seed"
           r == [sync[s] EXCEPT !.at = at, !.existing = Rows("home"), !.counted = CountedRows]
<1>1. /\ sync[s] \in SyncType /\ at \in {"seed", "collector"}
      /\ Rows("home") \subseteq FlexEvents /\ CountedRows \subseteq FlexEvents
  BY IbkrTypes DEF Rows, CountedRows
<1>2. sync' = [sync EXCEPT ![s] = r]
  BY DEF LoadsRows
<1> HIDE DEF at
<1>3. /\ r \in SyncType /\ r.at = at /\ r.resolved = sync[s].resolved
      /\ r.counted = CountedRows /\ r.merged = sync[s].merged
  BY <1>1 DEF SyncType
<1> HIDE DEF r
<1> QED BY <1>1, <1>2, <1>3, SyncGoes

LEMMA LedgerSeeded ==
    ASSUME IbkrTypeOK, NEW s \in Syncs, Seeds(s)
    PROVE  /\ sync' \in [Syncs -> SyncType] /\ \A x \in Syncs \ {s} : sync'[x] = sync[x]
           /\ sync'[s].at = "collector"
           /\ sync'[s].resolved = sync[s].resolved \cup sync[s].counted
           /\ sync'[s].counted = {} /\ sync'[s].merged = sync[s].merged
<1> DEFINE known == sync[s].resolved \cup sync[s].counted
           r == [sync[s] EXCEPT !.at = "collector", !.resolved = known, !.counted = {}]
<1>1. sync[s] \in SyncType /\ known \subseteq FlexEvents
  BY IbkrTypes DEF SyncType
<1>2. sync' = [sync EXCEPT ![s] = r]
  BY DEF Seeds
<1> HIDE DEF known
<1>3. /\ r \in SyncType /\ r.at = "collector" /\ r.resolved = known
      /\ r.counted = {} /\ r.merged = sync[s].merged
  BY <1>1 DEF SyncType
<1> HIDE DEF r
<1> QED BY <1>2, <1>3, SyncGoes DEF known

LEMMA CollectorFound ==
    ASSUME IbkrTypeOK, NEW s \in Syncs, FindsCollector(s)
    PROVE  /\ sync' \in [Syncs -> SyncType] /\ \A x \in Syncs \ {s} : sync'[x] = sync[x]
           /\ sync'[s].at \in {"write", "close"}
           /\ sync'[s].drafts \subseteq FlexEvents \ sync[s].resolved
           /\ sync'[s].counted = {} /\ sync'[s].merged = {}
<1> DEFINE given == (StagedDrafts \ sync[s].resolved) \cup Fresh(s)
           at == IF given # {} THEN "write" ELSE "close"
           r == [Idle EXCEPT !.at = at, !.open = collector.open, !.drafts = given]
<1>1. /\ collector.open \in BOOLEAN /\ collector.staged \subseteq FlexEvents
      /\ given \subseteq FlexEvents \ sync[s].resolved /\ at \in {"write", "close"}
  BY IbkrTypes DEF CollectorType, StagedDrafts, Fresh
<1>2. sync' = [sync EXCEPT ![s] = r]
  BY DEF FindsCollector
<1> HIDE DEF given, at
<1>3. /\ r \in SyncType /\ r.at = at /\ r.drafts = given
      /\ r.counted = {} /\ r.merged = {}
  BY <1>1 DEF SyncType, Idle
<1> HIDE DEF r
<1> QED BY <1>1, <1>2, <1>3, SyncGoes

LEMMA DraftsWritten ==
    ASSUME IbkrTypeOK, NEW s \in Syncs, Writes(s)
    PROVE  /\ sync' \in [Syncs -> SyncType] /\ \A x \in Syncs \ {s} : sync'[x] = sync[x]
           /\ sync'[s].at \in {"collapse", "close"} /\ sync'[s].drafts = {}
           /\ sync'[s].counted = sync[s].counted
           /\ sync'[s].merged \subseteq {e \in sync[s].drafts : MergesWith(e) /\ ~Pending(e)}
                                         \cup sync[s].merged
<1> DEFINE merges == {e \in sync[s].drafts : MergesWith(e)}
<1>1. sync[s] \in SyncType
  BY IbkrTypes
<1>2. CASE \E e \in sync[s].drafts : Pending(e)
  <2> DEFINE r == [sync[s] EXCEPT !.at = "close", !.drafts = {}]
  <2>1. sync' = [sync EXCEPT ![s] = r]
    BY <1>2 DEF Writes
  <2>2. /\ r \in SyncType /\ r.at = "close" /\ r.drafts = {}
        /\ r.counted = sync[s].counted /\ r.merged = sync[s].merged
    BY <1>1 DEF SyncType
  <2> HIDE DEF r
  <2> QED BY <2>1, <2>2, SyncGoes
<1>3. CASE ~\E e \in sync[s].drafts : Pending(e)
  <2>1. PICK done \in SUBSET merges :
           sync' = [sync EXCEPT ![s].at = IF done = {} THEN "close" ELSE "collapse",
                                ![s].drafts = {}, ![s].merged = done]
    BY <1>3 DEF Writes
  <2> DEFINE at == IF done = {} THEN "close" ELSE "collapse"
             r == [sync[s] EXCEPT !.at = at, !.drafts = {}, !.merged = done]
  <2>2. done \subseteq FlexEvents /\ at \in {"close", "collapse"}
    BY <1>1 DEF SyncType
  <2>3. sync' = [sync EXCEPT ![s] = r]
    BY <2>1
  <2> HIDE DEF at
  <2>4. /\ r \in SyncType /\ r.at = at /\ r.drafts = {}
        /\ r.counted = sync[s].counted /\ r.merged = done
    BY <1>1, <2>2 DEF SyncType
  <2> HIDE DEF r
  <2>5. done \subseteq {e \in sync[s].drafts : MergesWith(e) /\ ~Pending(e)}
    BY <1>3
  <2> QED BY <2>2, <2>3, <2>4, <2>5, SyncGoes
<1> QED BY <1>2, <1>3

LEMMA MergesRecorded ==
    ASSUME IbkrTypeOK, NEW s \in Syncs, Collapses(s)
    PROVE  /\ sync' \in [Syncs -> SyncType] /\ \A x \in Syncs \ {s} : sync'[x] = sync[x]
           /\ sync'[s].at = "close" /\ sync'[s].drafts = sync[s].drafts
           /\ sync'[s].counted = sync[s].counted /\ sync'[s].merged = {}
<1> DEFINE r == [sync[s] EXCEPT !.at = "close", !.merged = {}]
<1>1. sync[s] \in SyncType
  BY IbkrTypes
<1>2. sync' = [sync EXCEPT ![s] = r]
  BY DEF Collapses
<1>3. /\ r \in SyncType /\ r.at = "close" /\ r.drafts = sync[s].drafts
      /\ r.counted = sync[s].counted /\ r.merged = {}
  BY <1>1 DEF SyncType
<1> HIDE DEF r
<1> QED BY <1>2, <1>3, SyncGoes

LEMMA SyncEnds ==
    ASSUME IbkrTypeOK, NEW s \in Syncs, Closes(s) \/ Throws(s)
    PROVE  /\ sync' \in [Syncs -> SyncType] /\ \A x \in Syncs \ {s} : sync'[x] = sync[x]
           /\ sync'[s] = Idle
BY IdleTyped, SyncGoes DEF Closes, Throws

-----------------------------------------------------------------------------
(* What a sync has read stays as good as it was, where a step of another   *)
(* or of the user changes nothing of the events that loose does not name.  *)
LEMMA StaleKept ==
    ASSUME IbkrTypeOK, NEW x \in Syncs, StaleReads(x), sync'[x] = sync[x],
           sync[x].at # "idle" => loose \subseteq loose',
           sync[x].counted \subseteq chosen' \cup reread',
           sync[x].at # "idle" => \A e \in FlexEvents \ loose' :
              /\ \/ decided'[e] = decided[e]
                 \/ held'["home"][e] # "none" \/ twin'[e] = "normal"
              /\ twin'[e] = twin[e]
              /\ held["home"][e] # "none" => held'["home"][e] # "none"
              /\ held["home"][e] \in {"normal", "archived"}
                    => held'["home"][e] \in {"normal", "archived"}
              /\ twin[e] = "normal" /\ held["home"][e] # "draft" => held'["home"][e] # "draft"
              /\ held["away"][e] = "none" => held'["away"][e] = "none"
    PROVE  StaleReads(x)'
<1>1. sync[x] \in SyncType
  BY IbkrTypes
<1>2. CASE sync[x].at = "idle"
  BY <1>2 DEF StaleReads, MayOffer, Idle
<1>3. CASE sync[x].at # "idle"
  <2>1. MayOffer(x)' = MayOffer(x) /\ MayOffer(x) \subseteq FlexEvents
    BY <1>1 DEF MayOffer, SyncType
  <2>2. sync[x].counted \subseteq FlexEvents /\ sync[x].merged \subseteq FlexEvents
    BY <1>1 DEF SyncType
  <2> QED BY <1>3, <2>1, <2>2 DEF StaleReads
<1> QED BY <1>2, <1>3

(* The steps of a sync that only read, or that end it.                     *)
LEMMA ReadsKeep ==
    ASSUME IbkrInv, NEW s \in Syncs,
           LoadsLedger(s) \/ LoadsRows(s) \/ FindsCollector(s) \/ Closes(s) \/ Throws(s)
    PROVE  IbkrInv'
<1>1. IbkrTypeOK /\ StaleReads(s) /\ DecidedRows /\ sync[s] \in SyncType
  BY IbkrTypes DEF IbkrInv
<1>2. UNCHANGED <<held, decided, twin, move, chosen, loose, reread>>
  BY DEF LoadsLedger, LoadsRows, FindsCollector, Closes, Throws, historyVars
<1>3. /\ sync' \in [Syncs -> SyncType] /\ \A x \in Syncs \ {s} : sync'[x] = sync[x]
  BY <1>1, LedgerRead, RowsRead, CollectorFound, SyncEnds
<1>4. DecidedRows'
  BY <1>1, <1>2 DEF DecidedRows, DecisionsStand, HeldOnce
<1>5. collector' \in CollectorType
  BY <1>1, IbkrTypes DEF LoadsLedger, LoadsRows, FindsCollector, Closes, Throws, Emptied,
                         CollectorType
<1>6. IbkrTypeOK'
  BY <1>1, <1>2, <1>3, <1>5, IbkrTypes DEF IbkrTypeOK, SyncType, CollectorType
<1>7. StaleReads(s)'
  <2>1. CASE LoadsLedger(s)
    <3>1. sync[s] = Idle
      BY <1>1, <2>1 DEF LoadsLedger, StaleReads
    <3>2. sync'[s].counted = {} /\ sync'[s].merged = {} /\ sync'[s].at = "rows"
          /\ sync'[s].resolved = {e \in FlexEvents : decided[e] # "none"}
      BY <1>1, <2>1, <3>1, LedgerRead DEF Idle
    <3>3. MayOffer(s)' = {e \in FlexEvents : decided[e] = "none"}
      BY <3>2 DEF MayOffer
    <3> QED BY <1>1, <1>2, <3>2, <3>3 DEF StaleReads, DecidedRows
  <2>2. CASE LoadsRows(s)
    <3>1. /\ sync'[s].at \in {"seed", "collector"} /\ sync'[s].merged = sync[s].merged
          /\ sync'[s].resolved = sync[s].resolved /\ sync'[s].counted = CountedRows
      BY <1>1, <2>2, RowsRead
    <3>2. sync[s].at = "rows"
      BY <2>2 DEF LoadsRows
    <3>3. MayOffer(s)' = MayOffer(s)
      BY <3>1, <3>2 DEF MayOffer
    <3> QED BY <1>1, <1>2, <3>1, <3>3 DEF StaleReads, DecidedRows, CountedRows, Places
  <2>3. CASE FindsCollector(s)
    <3>1. /\ sync'[s].at \in {"write", "close"} /\ sync'[s].counted = {} /\ sync'[s].merged = {}
          /\ sync'[s].drafts \subseteq FlexEvents \ sync[s].resolved
      BY <1>1, <2>3, CollectorFound
    <3>2. sync[s].at = "collector"
      BY <2>3 DEF FindsCollector
    <3>3. MayOffer(s)' \subseteq MayOffer(s)
      BY <3>1, <3>2 DEF MayOffer
    <3> QED BY <1>1, <1>2, <3>1, <3>3 DEF StaleReads
  <2>4. CASE Closes(s) \/ Throws(s)
    BY <1>1, <2>4, SyncEnds DEF StaleReads, MayOffer, Idle
  <2> QED BY <2>1, <2>2, <2>3, <2>4
<1>8. ASSUME NEW x \in Syncs \ {s} PROVE StaleReads(x)'
  <2>1. StaleReads(x) /\ sync'[x] = sync[x]
    BY <1>3 DEF IbkrInv
  <2> QED BY <1>2, <2>1 DEF StaleReads, MayOffer
<1> QED BY <1>4, <1>6, <1>7, <1>8 DEF IbkrInv

(* The ledger takes what a sync counted, or merged.                        *)
LEMMA RecordsKeep ==
    ASSUME IbkrInv, NEW s \in Syncs, Seeds(s) \/ Collapses(s)
    PROVE  IbkrInv'
<1>1. IbkrTypeOK /\ StaleReads(s) /\ DecidedRows /\ sync[s] \in SyncType
  BY IbkrTypes DEF IbkrInv
<1>2. UNCHANGED <<held, twin, collector, move, loose, reread>>
  BY DEF Seeds, Collapses, historyVars
<1>3. /\ sync' \in [Syncs -> SyncType] /\ \A x \in Syncs \ {s} : sync'[x] = sync[x]
  BY <1>1, LedgerSeeded, MergesRecorded
<1> DEFINE S == IF Seeds(s) THEN sync[s].counted ELSE sync[s].merged
<1>4. /\ decided' = Recorded(S, "confirmed") /\ S \subseteq FlexEvents
      /\ chosen \subseteq chosen' /\ chosen' \subseteq FlexEvents
      /\ S \subseteq chosen' \cup reread'
  BY <1>1, IbkrTypes DEF Seeds, Collapses, SyncType, StaleReads, historyVars
<1>5. \A e \in S \ loose :
         /\ held["home"][e] # "draft"
         /\ held["home"][e] # "none" \/ twin[e] = "normal"
  BY <1>1 DEF StaleReads
<1> HIDE DEF S
<1>6. /\ decided' \in [FlexEvents -> {"none", "confirmed", "discarded"}]
      /\ \A e \in FlexEvents : decided'[e] = decided[e] \/ e \in S
      /\ \A e \in FlexEvents : decided[e] # "none" => decided'[e] # "none"
  BY <1>1, <1>4, IbkrTypes DEF Recorded
<1>7. IbkrTypeOK'
  BY <1>1, <1>2, <1>3, <1>4, <1>6, IbkrTypes DEF IbkrTypeOK, SyncType
<1>8. DecidedRows'
  BY <1>1, <1>2, <1>4, <1>5, <1>6 DEF DecidedRows, DecisionsStand, HeldOnce
<1>9. ASSUME NEW x \in Syncs \ {s} PROVE StaleReads(x)'
  <2>1. StaleReads(x) /\ sync'[x] = sync[x]
    BY <1>3 DEF IbkrInv
  <2>2. sync[x].counted \subseteq chosen' \cup reread'
    BY <1>2, <1>4, <2>1 DEF StaleReads
  <2> QED BY <1>1, <1>2, <1>5, <1>6, <2>1, <2>2, StaleKept
<1>10. StaleReads(s)'
  <2>1. /\ sync'[s].at # "idle" /\ MayOffer(s)' \subseteq MayOffer(s)
        /\ sync'[s].counted \subseteq sync[s].counted
        /\ sync'[s].merged \subseteq sync[s].merged
    BY <1>1, LedgerSeeded, MergesRecorded DEF MayOffer, Seeds, Collapses
  <2>2. MayOffer(s) \subseteq FlexEvents
    BY <1>1 DEF MayOffer, SyncType
  <2> QED BY <1>1, <1>2, <1>4, <1>5, <1>6, <2>1, <2>2 DEF StaleReads
<1> QED BY <1>7, <1>8, <1>9, <1>10 DEF IbkrInv

(* The drafts of a sync are written beside what is held.                   *)
LEMMA WritesKeep ==
    ASSUME IbkrInv, NEW s \in Syncs, Writes(s)
    PROVE  IbkrInv'
<1>1. IbkrTypeOK /\ StaleReads(s) /\ DecidedRows /\ sync[s] \in SyncType
  BY IbkrTypes DEF IbkrInv
<1>2. UNCHANGED <<decided, twin, collector, move, chosen, loose, reread>>
  BY DEF Writes, historyVars
<1>3. /\ sync' \in [Syncs -> SyncType] /\ (\A x \in Syncs \ {s} : sync'[x] = sync[x])
      /\ sync'[s].at \in {"collapse", "close"} /\ sync'[s].drafts = {}
      /\ sync'[s].counted = sync[s].counted
      /\ sync'[s].merged \subseteq {e \in sync[s].drafts : MergesWith(e) /\ ~Pending(e)}
                                    \cup sync[s].merged
  BY <1>1, DraftsWritten
<1>4. /\ held' \in [Places -> [FlexEvents -> {"none", "draft", "normal", "archived"}]]
      /\ held'["away"] = held["away"]
      /\ \A e \in FlexEvents :
            \/ held'["home"][e] = held["home"][e]
            \/ /\ held'["home"][e] = "draft" /\ held["home"][e] = "none"
               /\ e \in sync[s].drafts /\ ~MergesWith(e)
  <2>1. CASE UNCHANGED held
    BY <1>1, <2>1, IbkrTypes
  <2>2. CASE ~UNCHANGED held
    <3> DEFINE merges == {e \in sync[s].drafts : MergesWith(e)}
               row == [e \in FlexEvents |->
                         IF e \in sync[s].drafts \ merges /\ held["home"][e] = "none"
                         THEN "draft" ELSE held["home"][e]]
    <3>1. held' = [held EXCEPT !["home"] = row]
      BY <2>2 DEF Writes
    <3>2. row \in [FlexEvents -> {"none", "draft", "normal", "archived"}]
      BY <1>1, IbkrTypes DEF Places
    <3> QED BY <1>1, <3>1, <3>2, IbkrTypes DEF Places
  <2> QED BY <2>1, <2>2
<1>5. MayOffer(s) = sync[s].drafts /\ sync[s].drafts \subseteq FlexEvents
  BY <1>1 DEF MayOffer, Writes, SyncType
<1>6. IbkrTypeOK'
  BY <1>1, <1>2, <1>3, <1>4, IbkrTypes DEF IbkrTypeOK, SyncType
<1>7. DecidedRows'
  <2>1. \A e \in FlexEvents : MergesWith(e) <=> twin[e] = "normal" /\ held["home"][e] # "normal"
    BY DEF MergesWith
  <2> QED BY <1>1, <1>2, <1>4, <1>5, <2>1
          DEF DecidedRows, DecisionsStand, HeldOnce, StaleReads, Places
<1>8. ASSUME NEW x \in Syncs \ {s} PROVE StaleReads(x)'
  <2>1. StaleReads(x) /\ sync'[x] = sync[x]
    BY <1>3 DEF IbkrInv
  <2>2. sync[x].counted \subseteq chosen' \cup reread'
    BY <1>2, <2>1 DEF StaleReads
  <2> QED BY <1>1, <1>2, <1>4, <2>1, <2>2, StaleKept DEF MergesWith
<1>9. StaleReads(s)'
  <2>1. MayOffer(s)' = {}
    BY <1>3 DEF MayOffer
  <2>2. \A e \in sync'[s].merged \ loose : twin[e] = "normal" /\ held'["home"][e] # "draft"
    <3> SUFFICES ASSUME NEW e \in sync'[s].merged \ loose
                 PROVE  twin[e] = "normal" /\ held'["home"][e] # "draft"
      OBVIOUS
    <3>1. e \in FlexEvents /\ twin[e] = "normal" /\ held["home"][e] # "draft"
      BY <1>1, <1>3, <1>5 DEF StaleReads, MergesWith, Pending, SyncType
    <3> QED BY <1>4, <3>1 DEF MergesWith
  <2>3. \A e \in sync[s].counted \ loose : held'["home"][e] \in {"normal", "archived"}
    BY <1>1, <1>4 DEF StaleReads, SyncType
  <2> QED BY <1>1, <1>2, <1>3, <2>1, <2>2, <2>3 DEF StaleReads
<1> QED BY <1>6, <1>7, <1>8, <1>9 DEF IbkrInv

-----------------------------------------------------------------------------
(* Steps of the user.                                                      *)
HeldType == [Places -> [FlexEvents -> {"none", "draft", "normal", "archived"}]]
DecidedType == [FlexEvents -> {"none", "confirmed", "discarded"}]

LEMMA RecordedFacts ==
    ASSUME IbkrTypeOK, NEW S, NEW r \in {"confirmed", "discarded"}, decided' = Recorded(S, r)
    PROVE  /\ decided' \in DecidedType
           /\ \A e \in FlexEvents : decided'[e] = decided[e] \/ e \in S
           /\ \A e \in FlexEvents : decided[e] # "none" => decided'[e] # "none"
BY IbkrTypes DEF Recorded, DecidedType

LEMMA LoosenedFacts ==
    ASSUME NEW S, loose' = Loosened(S)
    PROVE  loose \subseteq loose' /\ loose' \subseteq loose \cup S
           /\ \A s \in Syncs : sync[s].at # "idle" => S \subseteq loose'
BY DEF Loosened, UnderWay

(* One row changes its state.                                              *)
LEMMA OneRow ==
    ASSUME IbkrTypeOK, NEW p \in Places, NEW e \in FlexEvents,
           NEW status \in {"none", "draft", "normal", "archived"},
           held' = [held EXCEPT ![p][e] = status]
    PROVE  /\ held' \in HeldType /\ held'[p][e] = status
           /\ \A x \in FlexEvents \ {e} : held'[p][x] = held[p][x]
           /\ \A q \in Places \ {p} : held'[q] = held[q]
<1>1. held \in HeldType
  BY IbkrTypes DEF HeldType
<1> DEFINE row == [held[p] EXCEPT ![e] = status]
<1>2. /\ row \in [FlexEvents -> {"none", "draft", "normal", "archived"}] /\ row[e] = status
      /\ \A x \in FlexEvents \ {e} : row[x] = held[p][x]
  BY <1>1 DEF HeldType
<1>3. held' = [held EXCEPT ![p] = row]
  OBVIOUS
<1> HIDE DEF row
<1> QED BY <1>1, <1>2, <1>3 DEF HeldType

LEMMA ForgetsTyped ==
    ASSUME IbkrTypeOK, NEW S
    PROVE  Forgets(S) \in MoveType
<1>1. move \in MoveType
  BY IbkrTypes
<1> DEFINE rest == move.ids \ S
<1>2. rest \subseteq FlexEvents
  BY <1>1 DEF MoveType
<1>3. Forgets(S) = [move EXCEPT !.ids = rest]
  BY DEF Forgets
<1> HIDE DEF rest
<1> QED BY <1>1, <1>2, <1>3 DEF MoveType

LEMMA StillTyped ==
    ASSUME IbkrTypeOK, UNCHANGED sync, held' \in HeldType, decided' \in DecidedType,
           twin' \in [FlexEvents -> {"none", "draft", "normal"}],
           collector' \in CollectorType, move' \in MoveType,
           chosen' \subseteq FlexEvents, loose' \subseteq FlexEvents,
           reread' \subseteq FlexEvents
    PROVE  IbkrTypeOK'
BY DEF IbkrTypeOK, HeldType, DecidedType, CollectorType, MoveType

LEMMA DecidesKeep ==
    ASSUME IbkrInv, NEW p \in Places, NEW e \in FlexEvents,
           NEW status \in {"normal", "archived"}, Decides(p, e, status)
    PROVE  IbkrInv'
<1>1. IbkrTypeOK /\ DecidedRows
  BY DEF IbkrInv
<1>2. /\ UNCHANGED <<twin, collector, sync, move, loose, reread>>
      /\ held[p][e] # "none" /\ chosen' = chosen \cup {e}
  BY DEF Decides
<1>3. /\ held' \in HeldType /\ held'[p][e] = status
      /\ \A x \in FlexEvents \ {e} : held'[p][x] = held[p][x]
      /\ \A q \in Places \ {p} : held'[q] = held[q]
  BY <1>1, OneRow DEF Decides
<1>4. /\ decided' \in DecidedType
      /\ \A x \in FlexEvents : decided'[x] = decided[x] \/ (x = e /\ p = "home")
      /\ \A x \in FlexEvents : decided[x] # "none" => decided'[x] # "none"
  <2>1. CASE p = "home"
    BY <1>1, <2>1, RecordedFacts DEF Decides
  <2>2. CASE p # "home"
    BY <1>1, <2>2, IbkrTypes DEF Decides, DecidedType
  <2> QED BY <2>1, <2>2
<1>5. IbkrTypeOK'
  BY <1>1, <1>2, <1>3, <1>4, StillTyped, IbkrTypes
<1>6. DecidedRows'
  <2>1. {"home", "away"} = Places
    BY DEF Places
  <2> QED BY <1>1, <1>2, <1>3, <1>4, <2>1 DEF DecidedRows, DecisionsStand, HeldOnce
<1>7. ASSUME NEW x \in Syncs PROVE StaleReads(x)'
  <2>1. StaleReads(x) /\ sync[x].counted \subseteq chosen' \cup reread'
    BY <1>2 DEF IbkrInv, StaleReads
  <2> QED BY <1>1, <1>2, <1>3, <1>4, <2>1, StaleKept DEF Places
<1> QED BY <1>5, <1>6, <1>7 DEF IbkrInv

LEMMA DeletesKeep ==
    ASSUME IbkrInv, NEW p \in Places, NEW e \in FlexEvents, Deletes(p, e)
    PROVE  IbkrInv'
<1>1. IbkrTypeOK /\ DecidedRows
  BY DEF IbkrInv
<1>2. UNCHANGED <<decided, twin, collector, sync, chosen, reread>> /\ loose' = Loosened({e})
  BY DEF Deletes
<1>3. /\ held' \in HeldType /\ held'[p][e] = "none"
      /\ \A x \in FlexEvents \ {e} : held'[p][x] = held[p][x]
      /\ \A q \in Places \ {p} : held'[q] = held[q]
  BY <1>1, OneRow DEF Deletes
<1>4. move' \in MoveType
  BY <1>1, ForgetsTyped, IbkrTypes DEF Deletes
<1>5. IbkrTypeOK'
  <2>1. loose' \subseteq FlexEvents
    BY <1>1, <1>2, IbkrTypes, LoosenedFacts
  <2> QED BY <1>1, <1>2, <1>3, <1>4, <2>1, StillTyped, IbkrTypes DEF DecidedType
<1>6. DecidedRows'
  <2>1. loose \subseteq loose'
    BY <1>2, LoosenedFacts
  <2>2. \A q \in Places, x \in FlexEvents : held'[q][x] \in {held[q][x], "none"}
    BY <1>3
  <2> QED BY <1>1, <1>2, <2>1, <2>2 DEF DecidedRows, DecisionsStand, HeldOnce, Places
<1>7. ASSUME NEW x \in Syncs PROVE StaleReads(x)'
  <2>1. StaleReads(x) /\ sync[x].counted \subseteq chosen' \cup reread'
    BY <1>2 DEF IbkrInv, StaleReads
  <2>2. loose \subseteq loose' /\ (sync[x].at # "idle" => e \in loose')
    BY <1>2, LoosenedFacts
  <2> QED BY <1>1, <1>2, <1>3, <2>1, <2>2, StaleKept DEF Places
<1> QED BY <1>5, <1>6, <1>7 DEF IbkrInv

(* The twin comes, changes or goes; also when the broker row absorbs it.   *)
LEMMA TwinKeeps ==
    ASSUME IbkrInv, NEW e \in FlexEvents, NEW status \in {"none", "draft", "normal"},
           TwinChanges(e, status) \/ AbsorbsTwin(e)
    PROVE  IbkrInv'
<1>1. IbkrTypeOK /\ DecidedRows
  BY DEF IbkrInv
<1>2. /\ UNCHANGED <<held, decided, collector, sync, move, chosen, reread>>
      /\ loose' = Loosened({e})
  BY DEF TwinChanges, AbsorbsTwin
<1>3. /\ twin' \in [FlexEvents -> {"none", "draft", "normal"}]
      /\ \A x \in FlexEvents \ {e} : twin'[x] = twin[x]
  BY <1>1, IbkrTypes DEF TwinChanges, AbsorbsTwin
<1>4. IbkrTypeOK'
  BY <1>1, <1>2, <1>3, StillTyped, IbkrTypes, LoosenedFacts DEF DecidedType, HeldType
<1>5. DecidedRows'
  BY <1>1, <1>2, LoosenedFacts DEF DecidedRows, DecisionsStand, HeldOnce
<1>6. ASSUME NEW x \in Syncs PROVE StaleReads(x)'
  <2>1. StaleReads(x) /\ sync[x].counted \subseteq chosen' \cup reread'
    BY <1>2 DEF IbkrInv, StaleReads
  <2>2. loose \subseteq loose' /\ (sync[x].at # "idle" => e \in loose')
    BY <1>2, LoosenedFacts
  <2> QED BY <1>1, <1>2, <1>3, <2>1, <2>2, StaleKept
<1> QED BY <1>4, <1>5, <1>6 DEF IbkrInv

LEMMA AbsorbedKeeps ==
    ASSUME IbkrInv, NEW e \in FlexEvents, AbsorbedByTwin(e)
    PROVE  IbkrInv'
<1>1. IbkrTypeOK /\ DecidedRows /\ "home" \in Places
  BY DEF IbkrInv, Places
<1>2. /\ UNCHANGED <<twin, collector, sync, reread>> /\ loose' = Loosened({e})
      /\ chosen' = chosen \cup {e} /\ decided' = Recorded({e}, "confirmed")
  BY DEF AbsorbedByTwin
<1>3. /\ held' \in HeldType /\ held'["home"][e] = "none"
      /\ \A x \in FlexEvents \ {e} : held'["home"][x] = held["home"][x]
      /\ \A q \in Places \ {"home"} : held'[q] = held[q]
  BY <1>1, OneRow DEF AbsorbedByTwin
<1>4. /\ decided' \in DecidedType
      /\ \A x \in FlexEvents : decided'[x] = decided[x] \/ x \in {e}
      /\ \A x \in FlexEvents : decided[x] # "none" => decided'[x] # "none"
  BY <1>1, <1>2, RecordedFacts
<1>5. move' \in MoveType
  BY <1>1, ForgetsTyped, IbkrTypes DEF AbsorbedByTwin
<1>6. IbkrTypeOK'
  <2>1. loose' \subseteq FlexEvents /\ chosen' \subseteq FlexEvents
    BY <1>1, <1>2, IbkrTypes, LoosenedFacts
  <2> QED BY <1>1, <1>2, <1>3, <1>4, <1>5, <2>1, StillTyped, IbkrTypes
<1>7. DecidedRows'
  <2>1. loose \subseteq loose'
    BY <1>2, LoosenedFacts
  <2> QED BY <1>1, <1>2, <1>3, <1>4, <2>1 DEF DecidedRows, DecisionsStand, HeldOnce, Places
<1>8. ASSUME NEW x \in Syncs PROVE StaleReads(x)'
  <2>1. StaleReads(x) /\ sync[x].counted \subseteq chosen' \cup reread'
    BY <1>2 DEF IbkrInv, StaleReads
  <2>2. loose \subseteq loose' /\ (sync[x].at # "idle" => e \in loose')
    BY <1>2, LoosenedFacts
  <2> QED BY <1>1, <1>2, <1>3, <1>4, <2>1, <2>2, StaleKept DEF Places
<1> QED BY <1>6, <1>7, <1>8 DEF IbkrInv

LEMMA DiscardKeeps ==
    ASSUME IbkrInv, RecordsDiscard \/ DiscardsCollector
    PROVE  IbkrInv'
<1>1. IbkrTypeOK /\ DecidedRows /\ collector \in CollectorType
  BY IbkrTypes DEF IbkrInv
<1>2. UNCHANGED <<held, twin, sync, move, reread>>
  BY DEF RecordsDiscard, DiscardsCollector, historyVars
<1>3. collector' \in CollectorType
  BY <1>1 DEF RecordsDiscard, DiscardsCollector, CollectorType, Emptied
<1>4. CASE RecordsDiscard
  <2> DEFINE S == collector.staged
  <2>1. /\ decided' = Recorded(S, "discarded") /\ chosen' = chosen \cup S
        /\ loose' = Loosened(S) \cup (S \cap Rows("home")) /\ S \subseteq FlexEvents
    BY <1>1, <1>4 DEF RecordsDiscard, CollectorType
  <2> HIDE DEF S
  <2>2. /\ decided' \in DecidedType
        /\ \A e \in FlexEvents : decided'[e] = decided[e] \/ e \in S
        /\ \A e \in FlexEvents : decided[e] # "none" => decided'[e] # "none"
    BY <1>1, <2>1, RecordedFacts
  <2>3. /\ loose \subseteq loose' /\ loose' \subseteq loose \cup S
        /\ \A x \in Syncs : sync[x].at # "idle" => S \subseteq loose'
        /\ \A e \in S : held["home"][e] # "none" => e \in loose'
    BY <2>1 DEF Loosened, UnderWay, Rows
  <2>4. IbkrTypeOK'
    BY <1>1, <1>2, <1>3, <2>1, <2>2, <2>3, StillTyped, IbkrTypes DEF HeldType
  <2>5. DecidedRows'
    BY <1>1, <1>2, <2>1, <2>2, <2>3 DEF DecidedRows, DecisionsStand, HeldOnce
  <2>6. ASSUME NEW x \in Syncs PROVE StaleReads(x)'
    <3>1. StaleReads(x) /\ sync[x].counted \subseteq chosen' \cup reread'
      BY <1>2, <2>1 DEF IbkrInv, StaleReads
    <3> QED BY <1>1, <1>2, <2>2, <2>3, <3>1, StaleKept
  <2> QED BY <2>4, <2>5, <2>6 DEF IbkrInv
<1>5. CASE DiscardsCollector
  <2>1. UNCHANGED <<decided, chosen, loose>>
    BY <1>5 DEF DiscardsCollector, historyVars
  <2>2. IbkrTypeOK'
    BY <1>1, <1>2, <1>3, <2>1, StillTyped, IbkrTypes DEF HeldType, DecidedType
  <2>3. DecidedRows'
    BY <1>1, <1>2, <2>1 DEF DecidedRows, DecisionsStand, HeldOnce
  <2>4. ASSUME NEW x \in Syncs PROVE StaleReads(x)'
    BY <1>2, <2>1 DEF IbkrInv, StaleReads, MayOffer
  <2> QED BY <2>2, <2>3, <2>4 DEF IbkrInv
<1> QED BY <1>4, <1>5

LEMMA ReimportKeeps ==
    ASSUME IbkrInv, Reimports
    PROVE  IbkrInv'
<1>1. IbkrTypeOK /\ DecidedRows /\ collector \in CollectorType
  BY IbkrTypes DEF IbkrInv
<1>2. /\ UNCHANGED <<twin, sync>> /\ decided' = [e \in FlexEvents |-> "none"]
      /\ held' = [held EXCEPT !["home"] = [e \in FlexEvents |-> "none"]]
      /\ chosen' = chosen \cap Rows("away")
      /\ loose' = IF UnderWay THEN FlexEvents ELSE Rows("away")
      /\ reread' = UNION {sync[s].counted : s \in Syncs}
  BY DEF Reimports
<1>3. /\ held' \in HeldType /\ held'["away"] = held["away"]
      /\ \A e \in FlexEvents : held'["home"][e] = "none"
  BY <1>1, <1>2, IbkrTypes DEF HeldType, Places
<1>4. collector' \in CollectorType /\ move' \in MoveType
  BY <1>1, ForgetsTyped, IbkrTypes DEF Reimports, Emptied, CollectorType
<1>5. /\ loose' \subseteq FlexEvents
      /\ \A e \in FlexEvents : held["away"][e] # "none" => e \in loose'
      /\ \A x \in Syncs : sync[x].at # "idle" => loose' = FlexEvents /\ loose \subseteq loose'
  <2>1. Rows("away") = {e \in FlexEvents : held["away"][e] # "none"} /\ loose \subseteq FlexEvents
    BY <1>1, IbkrTypes DEF Rows
  <2>2. (\E x \in Syncs : sync[x].at # "idle") <=> UnderWay
    BY DEF UnderWay
  <2> QED BY <1>2, <2>1, <2>2
<1>6. reread' \subseteq FlexEvents /\ \A x \in Syncs : sync[x].counted \subseteq reread'
  <2>1. \A s \in Syncs : sync[s].counted \subseteq FlexEvents
    BY <1>1, IbkrTypes DEF SyncType
  <2> QED BY <1>1, <1>2, <2>1, IbkrTypes
<1>7. IbkrTypeOK'
  <2>1. decided' \in DecidedType /\ chosen' \subseteq FlexEvents
    BY <1>1, <1>2, IbkrTypes DEF DecidedType
  <2> QED BY <1>1, <1>2, <1>3, <1>4, <1>5, <1>6, <2>1, StillTyped, IbkrTypes
<1>8. DecidedRows'
  BY <1>1, <1>2, <1>3, <1>5 DEF DecidedRows, DecisionsStand, HeldOnce, Places, Rows
<1>9. ASSUME NEW x \in Syncs PROVE StaleReads(x)'
  <2>1. StaleReads(x)
    BY DEF IbkrInv
  <2> QED BY <1>1, <1>2, <1>5, <1>6, <2>1, StaleKept
<1> QED BY <1>7, <1>8, <1>9 DEF IbkrInv

-----------------------------------------------------------------------------
(* A move takes rows to the other portfolio.  Those whose event is         *)
(* undecided, and all while a sync is under way, are named by loose.       *)
LEMMA MovesKeep ==
    ASSUME IbkrInv,
           MoveChecks \/ MoveWrites \/ \E from \in Places, S \in SUBSET FlexEvents : MoveReads(from, S)
    PROVE  IbkrInv'
<1>1. IbkrTypeOK /\ DecidedRows /\ move \in MoveType
  BY IbkrTypes DEF IbkrInv
<1>2. UNCHANGED <<decided, twin, collector, sync, chosen, reread>>
  BY DEF MoveChecks, MoveWrites, MoveReads, historyVars
<1>3. move' \in MoveType
  <2>1. CASE MoveChecks
    <3> DEFINE rest == move.ids \ Conflicting
    <3>1. rest \subseteq FlexEvents
      BY <1>1 DEF MoveType
    <3>2. move' = [move EXCEPT !.at = "write", !.ids = rest]
      BY <2>1 DEF MoveChecks
    <3> HIDE DEF rest
    <3> QED BY <1>1, <3>1, <3>2 DEF MoveType
  <2>2. CASE MoveWrites
    BY <2>2 DEF MoveWrites, NoMove, MoveType, Places
  <2>3. ASSUME NEW from \in Places, NEW S \in SUBSET FlexEvents, MoveReads(from, S)
        PROVE  move' \in MoveType
    BY <2>3 DEF MoveReads, MoveType
  <2> QED BY <2>1, <2>2, <2>3
<1>4. CASE UNCHANGED held
  <2>1. loose' = loose \/ (\E S \in SUBSET FlexEvents : loose' = Loosened(S) \cup {e \in S : decided[e] = "none"})
    BY <1>1 DEF MoveChecks, MoveWrites, MoveReads, historyVars, MoveType
  <2>2. loose \subseteq loose' /\ loose' \subseteq FlexEvents
    BY <1>1, <2>1, IbkrTypes DEF Loosened
  <2>3. IbkrTypeOK'
    BY <1>1, <1>2, <1>3, <1>4, <2>2, StillTyped, IbkrTypes DEF HeldType, DecidedType
  <2>4. DecidedRows'
    BY <1>1, <1>2, <1>4, <2>2 DEF DecidedRows, DecisionsStand, HeldOnce
  <2>5. ASSUME NEW x \in Syncs PROVE StaleReads(x)'
    <3>1. StaleReads(x) /\ sync[x].counted \subseteq chosen' \cup reread'
      BY <1>2 DEF IbkrInv, StaleReads
    <3> QED BY <1>1, <1>2, <1>4, <2>2, <3>1, StaleKept
  <2> QED BY <2>3, <2>4, <2>5 DEF IbkrInv
<1>5. CASE ~UNCHANGED held
  <2> DEFINE from == move.from
             to == Elsewhere(from)
             S == move.ids
             origin == [e \in FlexEvents |-> IF e \in S THEN "none" ELSE held[from][e]]
             target == [e \in FlexEvents |-> IF e \in S THEN held[from][e] ELSE held[to][e]]
  <2>1. /\ from \in Places /\ to \in Places /\ from # to /\ S \subseteq FlexEvents
        /\ \A p \in Places : p = from \/ p = to
    BY <1>1 DEF MoveType, Places, Elsewhere
  <2>2. /\ held' = [held EXCEPT ![from] = origin, ![to] = target]
        /\ S \cap Rows(to) = {}
        /\ loose' = Loosened(S) \cup {e \in S : decided[e] = "none"}
    BY <1>5, <2>1 DEF MoveChecks, MoveWrites, MoveReads
  <2>3. /\ origin \in [FlexEvents -> {"none", "draft", "normal", "archived"}]
        /\ target \in [FlexEvents -> {"none", "draft", "normal", "archived"}]
    BY <1>1, <2>1, IbkrTypes
  <2>4. held' \in HeldType /\ held'[from] = origin /\ held'[to] = target
    <3> HIDE DEF origin, target
    <3> QED BY <1>1, <2>1, <2>2, <2>3, IbkrTypes DEF HeldType
  <2>5. \A e \in FlexEvents :
           /\ e \in S => held[to][e] = "none" /\ held'[from][e] = "none"
                        /\ held'[to][e] = held[from][e]
           /\ e \notin S => held'[from][e] = held[from][e] /\ held'[to][e] = held[to][e]
    BY <2>2, <2>4 DEF Rows
  <2>6. /\ loose \subseteq loose' /\ loose' \subseteq FlexEvents
        /\ \A e \in S : decided[e] = "none" => e \in loose'
        /\ \A x \in Syncs : sync[x].at # "idle" => S \subseteq loose'
    BY <1>1, <2>1, <2>2, IbkrTypes DEF Loosened, UnderWay
  <2>7. IbkrTypeOK'
    BY <1>1, <1>2, <1>3, <2>4, <2>6, StillTyped, IbkrTypes DEF DecidedType
  <2> HIDE DEF S, origin, target, to
  <2>8. (from = "home" /\ to = "away") \/ (from = "away" /\ to = "home")
    BY <2>1 DEF Places
  <2> HIDE DEF from
  <2>9. DecidedRows'
    <3>1. CASE from = "home" /\ to = "away"
      BY <1>1, <1>2, <2>5, <2>6, <3>1 DEF DecidedRows, DecisionsStand, HeldOnce, Places
    <3>2. CASE from = "away" /\ to = "home"
      BY <1>1, <1>2, <2>5, <2>6, <3>2 DEF DecidedRows, DecisionsStand, HeldOnce, Places
    <3> QED BY <2>8, <3>1, <3>2
  <2>10. ASSUME NEW x \in Syncs PROVE StaleReads(x)'
    <3>1. StaleReads(x) /\ sync[x].counted \subseteq chosen' \cup reread'
      BY <1>2 DEF IbkrInv, StaleReads
    <3>2. sync[x].at # "idle" =>
             \A e \in FlexEvents \ loose' : held'["home"][e] = held["home"][e]
                                           /\ held'["away"][e] = held["away"][e]
      BY <2>5, <2>6, <2>8
    <3> QED BY <1>1, <1>2, <2>6, <3>1, <3>2, StaleKept
  <2> QED BY <2>7, <2>9, <2>10 DEF IbkrInv
<1> QED BY <1>4, <1>5

LEMMA IbkrInitHolds == ASSUME IbkrInit PROVE IbkrInv
<1>1. /\ \A s \in Syncs : sync[s] = Idle
      /\ \A p \in Places, e \in FlexEvents : held[p][e] = "none"
      /\ \A e \in FlexEvents : decided[e] = "none"
  BY DEF IbkrInit
<1>2. IbkrTypeOK
  <2>1. sync \in [Syncs -> SyncType]
    BY IdleTyped DEF IbkrInit
  <2>2. move \in MoveType
    BY DEF IbkrInit, NoMove, MoveType, Places
  <2>3. collector \in CollectorType
    BY DEF IbkrInit, CollectorType
  <2>4. /\ held \in HeldType /\ decided \in DecidedType
        /\ twin \in [FlexEvents -> {"none", "draft", "normal"}]
        /\ chosen = {} /\ loose = {} /\ reread = {}
    BY DEF IbkrInit, HeldType, DecidedType
  <2> QED BY <2>1, <2>2, <2>3, <2>4
          DEF IbkrTypeOK, SyncType, MoveType, CollectorType, HeldType, DecidedType
<1>3. \A s \in Syncs : StaleReads(s)
  BY <1>1 DEF StaleReads, MayOffer, Idle
<1>4. DecidedRows
  BY <1>1 DEF DecidedRows, DecisionsStand, HeldOnce, Places
<1> QED BY <1>2, <1>3, <1>4 DEF IbkrInv

LEMMA IbkrNextHolds == IbkrInv /\ [IbkrNext]_ibkrVars => IbkrInv'
<1> SUFFICES ASSUME IbkrInv, [IbkrNext]_ibkrVars PROVE IbkrInv'
  OBVIOUS
<1>1. CASE SyncNext
  BY <1>1, ReadsKeep, RecordsKeep, WritesKeep DEF SyncNext
<1>2. CASE UserNext
  BY <1>2, DecidesKeep, DeletesKeep, TwinKeeps, AbsorbedKeeps, DiscardKeeps, ReimportKeeps
     DEF UserNext
<1>3. CASE MoveNext
  BY <1>3, MovesKeep DEF MoveNext
<1>4. CASE UNCHANGED ibkrVars
  BY <1>4 DEF ibkrVars, IbkrInv, IbkrTypeOK, DecidedRows, DecisionsStand, HeldOnce, StaleReads,
              MayOffer
<1> QED BY <1>1, <1>2, <1>3, <1>4 DEF IbkrNext

(* The overlapping syncs, the user, a merge and a move keep every field    *)
(* within its type, and what a sync read before stays true of every event  *)
(* that loose does not name: an inductive invariant (sync.ts:93-329).      *)
THEOREM IbkrInvariant == IbkrSpec => []IbkrInv
<1>1. IbkrInit => IbkrInv
  BY IbkrInitHolds
<1> QED BY <1>1, IbkrNextHolds, PTL DEF IbkrSpec

(* What is offered to the user is not decided, and the ledger knows only   *)
(* what was decided or merged.  Excepted from the first are an event whose *)
(* row was deleted, moved, merged or wiped, whose twin changed or whose    *)
(* import was discarded while a sync ran; one that moved undecided; one a  *)
(* re-import left in the other portfolio; and one whose import was         *)
(* discarded beside its row.  Excepted from the second is what a sync      *)
(* seeds after a re-import from rows it read before (sync.ts:152-184).     *)
THEOREM IbkrDecisionsStand == IbkrSpec => []DecisionsStand
<1>1. IbkrInv => DecisionsStand
  BY DEF IbkrInv, DecidedRows
<1> QED BY <1>1, IbkrInvariant, PTL

(* An event is held by one portfolio, unless it moved undecided, or a      *)
(* re-import of its home left it in the other, or its row or its twin      *)
(* changed or its import was discarded while a sync ran                    *)
(* (reassign.ts:1-15).                                                     *)
THEOREM IbkrHeldOnce == IbkrSpec => []HeldOnce
<1>1. IbkrInv => HeldOnce
  BY DEF IbkrInv, DecidedRows
<1> QED BY <1>1, IbkrInvariant, PTL

-----------------------------------------------------------------------------
(* The market-data providers.                                              *)
(* A cooldown that runs is the block that stands.                          *)
Cools(p) ==
    now < cooling[p] =>
        blockedUntil[p].until = cooling[p] /\ blockedUntil[p].reason = "rate"

CooldownInv ==
    /\ now \in Nat
    /\ cooling \in [Providers -> Int]
    /\ blockedUntil \in [Providers -> [until: Int, reason: {"quota", "rate"}]]
    /\ lastProbeAt \in [Probed -> [at: Nat, awaited: BOOLEAN]]
    /\ \A p \in Providers : Cools(p)

USE LengthsAssumption

(* A new block begins where none stands, so it cuts no cooldown short.     *)
LEMMA BlockingKeeps ==
    ASSUME CooldownInv, NEW p \in Providers, ~IsBlocked(p),
           NEW until \in Int, NEW reason \in {"quota", "rate"},
           Blocked(p, until, reason), UNCHANGED now,
           lastProbeAt' \in [Probed -> [at: Nat, awaited: BOOLEAN]]
    PROVE  CooldownInv'
<1>1. \A q \in Providers : q # p => blockedUntil'[q] = blockedUntil[q] /\ cooling'[q] = cooling[q]
  BY DEF CooldownInv, Blocked
<1>2. Cools(p)'
  <2>1. blockedUntil'[p] = [until |-> until, reason |-> reason]
    BY DEF CooldownInv, Blocked
  <2>2. CASE reason = "rate"
    BY <2>1, <2>2 DEF CooldownInv, Blocked, Cools
  <2>3. CASE reason = "quota"
    <3>1. cooling'[p] = cooling[p]
      BY <2>3 DEF Blocked
    <3>2. ~(now < cooling[p])
      BY DEF CooldownInv, Cools, IsBlocked
    <3> QED BY <3>1, <3>2 DEF Cools
  <2> QED BY <2>2, <2>3
<1>3. cooling' \in [Providers -> Int]
      /\ blockedUntil' \in [Providers -> [until: Int, reason: {"quota", "rate"}]]
  BY DEF CooldownInv, Blocked
<1>4. \A q \in Providers : Cools(q)'
  BY <1>1, <1>2 DEF CooldownInv, Cools
<1> QED BY <1>3, <1>4 DEF CooldownInv

LEMMA UnchangedKeeps ==
    ASSUME CooldownInv, UNCHANGED <<now, blockedUntil, cooling>>,
           lastProbeAt' \in [Probed -> [at: Nat, awaited: BOOLEAN]]
    PROVE  CooldownInv'
BY DEF CooldownInv, Cools

LEMMA MidnightType == ASSUME NEW t \in Nat PROVE NextUtcMidnight(t) \in Int
BY DEF NextUtcMidnight

(* A failure blocks only a provider that is not blocked.  A provider the   *)
(* chain does not know changes nothing.                                    *)
LEMMA FailureKeeps ==
    ASSUME CooldownInv, NEW p, NEW status,
           ProviderFailed(p, status), UNCHANGED <<now, lastProbeAt>>
    PROVE  CooldownInv'
<1>0. lastProbeAt' \in [Probed -> [at: Nat, awaited: BOOLEAN]]
  BY DEF CooldownInv
<1>1. CASE UNCHANGED <<blockedUntil, cooling>>
  BY <1>0, <1>1, UnchangedKeeps
<1>2. CASE p \in Providers /\ ~IsBlocked(p) /\ Blocked(p, NextUtcMidnight(now), "quota")
  <2>1. NextUtcMidnight(now) \in Int
    BY MidnightType DEF CooldownInv
  <2> QED BY <1>0, <1>2, <2>1, BlockingKeeps
<1>3. CASE p \in Providers /\ ~IsBlocked(p) /\ Blocked(p, now + Cooldown, "rate")
  <2>1. now + Cooldown \in Int
    BY DEF CooldownInv
  <2> QED BY <1>0, <1>3, <2>1, BlockingKeeps
<1>4. CASE p \notin Providers
  <2>1. ASSUME NEW until, NEW reason, Blocked(p, until, reason)
        PROVE  UNCHANGED <<blockedUntil, cooling>>
    BY <1>4, <2>1 DEF Blocked, CooldownInv
  <2> QED BY <2>1, <1>0, UnchangedKeeps DEF ProviderFailed
<1> QED BY <1>1, <1>2, <1>3, <1>4 DEF ProviderFailed

(* A used-up quota found by a probe ends no cooldown.                      *)
LEMMA UsedUpKeeps ==
    ASSUME CooldownInv, NEW p \in Probed, QuotaUsedUp(p)
    PROVE  CooldownInv'
<1>1. lastProbeAt' \in [Probed -> [at: Nat, awaited: BOOLEAN]] /\ UNCHANGED now
  BY DEF QuotaUsedUp, ProbeAnswered, CooldownInv
<1>2. CASE IsBlocked(p)
  BY <1>1, <1>2, UnchangedKeeps DEF QuotaUsedUp
<1>3. CASE ~IsBlocked(p)
  <2>1. p \in Providers
    BY DEF Providers
  <2>2. lastProbeAt[p].at \in Nat
    BY DEF CooldownInv
  <2>3. NextUtcMidnight(lastProbeAt[p].at) \in Int
    BY <2>2, MidnightType
  <2> QED BY <1>1, <1>3, <2>1, <2>3, BlockingKeeps DEF QuotaUsedUp
<1> QED BY <1>2, <1>3

(* A probe lifts a quota block, and a provider with one is not cooling.    *)
LEMMA HeadroomKeeps ==
    ASSUME CooldownInv, NEW p \in Probed, HasHeadroom(p)
    PROVE  CooldownInv'
<1>1. lastProbeAt' \in [Probed -> [at: Nat, awaited: BOOLEAN]] /\ UNCHANGED <<now, cooling>>
  BY DEF HasHeadroom, ProbeAnswered, CooldownInv
<1>2. CASE ~MayLift(p)
  BY <1>1, <1>2, UnchangedKeeps DEF HasHeadroom
<1>3. CASE MayLift(p)
  <2>1. blockedUntil' = [blockedUntil EXCEPT ![p].until = 0]
    BY <1>3 DEF HasHeadroom
  <2>2. blockedUntil' \in [Providers -> [until: Int, reason: {"quota", "rate"}]]
    <3>1. [blockedUntil[p] EXCEPT !.until = 0] \in [until: Int, reason: {"quota", "rate"}]
      <4>1. p \in Providers
        BY DEF Providers
      <4>2. blockedUntil[p] \in [until: Int, reason: {"quota", "rate"}]
        BY <4>1 DEF CooldownInv
      <4> QED BY <4>2
    <3> QED BY <2>1, <3>1 DEF CooldownInv
  <2>3. ~(now < cooling[p])
    BY <1>3 DEF MayLift, CooldownInv, Cools, Providers
  <2>4. \A q \in Providers : Cools(q)'
    BY <1>1, <2>1, <2>3 DEF CooldownInv, Cools
  <2> QED BY <1>1, <2>2, <2>4 DEF CooldownInv
<1> QED BY <1>2, <1>3

(* However failures, probes, midnights and lookups mix, a provider that    *)
(* answered 429 is asked by no new lookup until its cooldown is over       *)
(* (service.ts:67-70).                                                     *)
THEOREM CooldownsAreKept == FeedsSpec => []CooldownKept
<1>1. FeedsInit => CooldownInv
  BY DEF FeedsInit, CooldownInv, Cools, NeverProbed
<1>2. CooldownInv /\ [FeedsNext]_feedVars => CooldownInv'
  <2> SUFFICES ASSUME CooldownInv, [FeedsNext]_feedVars
               PROVE  CooldownInv'
    OBVIOUS
  <2>1. CASE UNCHANGED feedVars
    BY <2>1 DEF feedVars, CooldownInv, Cools
  <2>2. CASE Passes
    BY <2>2 DEF Passes, CooldownInv, Cools
  <2>3. ASSUME NEW p \in Probed, Probes(p)
        PROVE  CooldownInv'
    BY <2>3, UnchangedKeeps DEF Probes, CooldownInv
  <2>4. ASSUME NEW p \in Probed, ProbeFails(p)
        PROVE  CooldownInv'
    BY <2>4, UnchangedKeeps DEF ProbeFails, ProbeAnswered, CooldownInv
  <2>5. CASE RunStarts \/ \E l \in Lookups : Begins(l) \/ Finds(l) \/ FindsNothing(l)
    BY <2>5, UnchangedKeeps DEF RunStarts, Begins, Finds, FindsNothing, CooldownInv
  <2>6. ASSUME NEW l \in Lookups, NEW status, Fails(l, status)
        PROVE  CooldownInv'
    BY <2>6, FailureKeeps DEF Fails
  <2> QED BY <2>1, <2>2, <2>3, <2>4, <2>5, <2>6, UsedUpKeeps, HeadroomKeeps DEF FeedsNext
<1>3. CooldownInv => CooldownKept
  BY DEF CooldownInv, Cools, CooldownKept, IsBlocked
<1> QED BY <1>1, <1>2, <1>3, PTL DEF FeedsSpec

-----------------------------------------------------------------------------
(* The chain asks the first provider that is open.  A set of numbers has a *)
(* least one, because < is well-founded on Nat.                            *)
LEMMA NatMin ==
    ASSUME NEW S \in SUBSET Nat, S # {}
    PROVE  \E x \in S : \A y \in S : x <= y
<1> DEFINE R == OpToRel(<, Nat)
<1>1. PICK x \in S : \A y \in S : ~ (<<y, x>> \in R)
  <2> HIDE DEF R
  <2>1. IsWellFoundedOn(R, Nat)
    BY NatLessThanWellFounded DEF R
  <2> QED BY <2>1, WFMin
<1>2. \A y \in S : y < x => <<y, x>> \in R
  BY DEF OpToRel
<1> HIDE DEF R
<1>3. \A y \in S : ~ (y < x)
  BY <1>1, <1>2
<1> QED BY <1>3

LEMMA MinIs ==
    ASSUME NEW S \in SUBSET Nat, S # {}
    PROVE  Min(S) \in S /\ \A y \in S : Min(S) <= y
BY NatMin DEF Min

(* Whom a lookup asks next: nobody, or one of the rest that has budget     *)
(* left, with only later ones after it.                                    *)
LEMMA AheadIs ==
    ASSUME NEW l \in Lookups, NEW rest \in SUBSET Providers, NEW failures
    PROVE  /\ Ahead(l, rest, failures) \in [asks: Providers \cup {Nobody}, rest: SUBSET Providers]
           /\ Ahead(l, rest, failures).rest \subseteq rest
           /\ Ahead(l, rest, failures).asks # Nobody =>
                 /\ Ahead(l, rest, failures).asks \in rest
                 /\ Ahead(l, rest, failures).asks \notin Ahead(l, rest, failures).rest
                 /\ WithinBudget(l, Ahead(l, rest, failures).asks, failures)
<1> DEFINE usable == {p \in rest : WithinBudget(l, p, failures)}
<1>1. CASE usable = {}
  BY <1>1 DEF Ahead, Resting
<1>2. CASE usable # {}
  <2>1. usable \in SUBSET Nat /\ usable \subseteq rest
    <3>1. \A p \in Providers : p \in Nat
      BY DEF Providers
    <3> QED BY <3>1
  <2>2. Min(usable) \in usable
    BY <1>2, <2>1, MinIs
  <2>3. Min(usable) \in rest /\ Min(usable) \in Nat /\ WithinBudget(l, Min(usable), failures)
    BY <2>1, <2>2
  <2>4. Ahead(l, rest, failures) =
           [asks |-> Min(usable), rest |-> {p \in rest : p > Min(usable)}]
    BY <1>2 DEF Ahead
  <2> HIDE DEF usable
  <2> QED BY <2>3, <2>4
<1> QED BY <1>1, <1>2

-----------------------------------------------------------------------------
(* Type correctness.  A probe whose answer is awaited began at a tick the  *)
(* clock has shown.                                                        *)
ProbeInv == \A p \in Probed : lastProbeAt[p].awaited => lastProbeAt[p].at \in 0 .. LastTick

LEMMA MidnightInRange ==
    ASSUME NEW t \in 0 .. LastTick
    PROVE  NextUtcMidnight(t) \in 0 .. LastUntil
<1>1. ((t \div DayLength) + 1) * DayLength <= t + DayLength
      /\ ((t \div DayLength) + 1) * DayLength > t
  OBVIOUS
<1> QED BY <1>1 DEF NextUtcMidnight, LastUntil

LEMMA BlockedType ==
    ASSUME FeedsTypeOK, NEW p, NEW until \in 0 .. LastUntil,
           NEW reason \in {"quota", "rate"}, Blocked(p, until, reason)
    PROVE  /\ blockedUntil' \in [Providers -> [until: 0 .. LastUntil, reason: {"quota", "rate"}]]
           /\ cooling' \in [Providers -> 0 .. LastUntil]
BY DEF FeedsTypeOK, Blocked

LEMMA FailedType ==
    ASSUME FeedsTypeOK, NEW p, NEW status, ProviderFailed(p, status)
    PROVE  /\ blockedUntil' \in [Providers -> [until: 0 .. LastUntil, reason: {"quota", "rate"}]]
           /\ cooling' \in [Providers -> 0 .. LastUntil]
<1>1. NextUtcMidnight(now) \in 0 .. LastUntil /\ now + Cooldown \in 0 .. LastUntil
  BY MidnightInRange DEF FeedsTypeOK, LastUntil
<1> QED BY <1>1, BlockedType DEF ProviderFailed, FeedsTypeOK

LEMMA CountedType ==
    ASSUME FeedsTypeOK, NEW next
    PROVE  Counted(next) \in [Providers -> Nat]
<1>1. ASSUME NEW p \in Providers
      PROVE  (IF ~IsBlocked(p) THEN 0 ELSE wasted[p])
             + (IF p = next /\ IsBlocked(p) THEN 1 ELSE 0) \in Nat
  BY DEF FeedsTypeOK
<1> QED BY <1>1 DEF Counted

(* The answers of a probe.                                                 *)
LEMMA AnswerType ==
    ASSUME FeedsTypeOK, ProbeInv, NEW p \in Probed, ProbeAnswered(p)
    PROVE  /\ lastProbeAt' \in [Probed -> [at: 0 .. LastTick + 1, awaited: BOOLEAN]]
           /\ ProbeInv'
<1>1. lastProbeAt[p] \in [at: 0 .. LastTick + 1, awaited: BOOLEAN]
  BY DEF FeedsTypeOK
<1>2. [lastProbeAt[p] EXCEPT !.awaited = FALSE] \in [at: 0 .. LastTick + 1, awaited: BOOLEAN]
      /\ [lastProbeAt[p] EXCEPT !.awaited = FALSE].awaited = FALSE
  BY <1>1
<1>3. lastProbeAt' = [lastProbeAt EXCEPT ![p] = [lastProbeAt[p] EXCEPT !.awaited = FALSE]]
  BY DEF ProbeAnswered
<1> QED BY <1>2, <1>3 DEF FeedsTypeOK, ProbeInv

LEMMA LookupType ==
    ASSUME FeedsTypeOK, NEW l \in Lookups, NEW rest \in SUBSET Providers, NEW failures,
           lookup' = [lookup EXCEPT ![l] = Ahead(l, rest, failures)]
    PROVE  lookup' \in [Lookups -> [asks: Providers \cup {Nobody}, rest: SUBSET Providers]]
BY AheadIs DEF FeedsTypeOK

LEMMA FeedsTypeStep ==
    FeedsTypeOK /\ ProbeInv /\ [FeedsNext]_feedVars => FeedsTypeOK' /\ ProbeInv'
<1> SUFFICES ASSUME FeedsTypeOK, ProbeInv, [FeedsNext]_feedVars
             PROVE  FeedsTypeOK' /\ ProbeInv'
  OBVIOUS
<1>1. CASE UNCHANGED feedVars
  BY <1>1 DEF feedVars, FeedsTypeOK, ProbeInv
<1>2. CASE Passes
  BY <1>2 DEF Passes, FeedsTypeOK, ProbeInv
<1>3. CASE RunStarts
  BY <1>3 DEF RunStarts, FeedsTypeOK, ProbeInv
<1>4. ASSUME NEW p \in Probed, Probes(p) PROVE FeedsTypeOK' /\ ProbeInv'
  <2>1. now \in 0 .. LastTick /\ now \in 0 .. LastTick + 1
    BY DEF FeedsTypeOK
  <2>2. lastProbeAt' \in [Probed -> [at: 0 .. LastTick + 1, awaited: BOOLEAN]] /\ ProbeInv'
    BY <1>4, <2>1 DEF Probes, FeedsTypeOK, ProbeInv
  <2> QED BY <1>4, <2>2 DEF Probes, FeedsTypeOK
<1>5. ASSUME NEW p \in Probed, QuotaUsedUp(p) PROVE FeedsTypeOK' /\ ProbeInv'
  <2>1. NextUtcMidnight(lastProbeAt[p].at) \in 0 .. LastUntil
    BY <1>5, MidnightInRange DEF QuotaUsedUp, ProbeInv
  <2>2. /\ blockedUntil' \in [Providers -> [until: 0 .. LastUntil, reason: {"quota", "rate"}]]
        /\ cooling' \in [Providers -> 0 .. LastUntil] /\ wasted' \in [Providers -> Nat]
    BY <1>5, <2>1, BlockedType DEF QuotaUsedUp, FeedsTypeOK
  <2> QED BY <1>5, <2>2, AnswerType DEF QuotaUsedUp, FeedsTypeOK
<1>6. ASSUME NEW p \in Probed, HasHeadroom(p) PROVE FeedsTypeOK' /\ ProbeInv'
  <2>1. blockedUntil' \in [Providers -> [until: 0 .. LastUntil, reason: {"quota", "rate"}]]
    <3>1. p \in Providers
      BY DEF Providers
    <3>2. blockedUntil[p] \in [until: 0 .. LastUntil, reason: {"quota", "rate"}]
      BY <3>1 DEF FeedsTypeOK
    <3>3. 0 \in 0 .. LastUntil
      BY DEF LastUntil
    <3>4. [blockedUntil[p] EXCEPT !.until = 0]
             \in [until: 0 .. LastUntil, reason: {"quota", "rate"}]
      BY <3>2, <3>3
    <3>5. blockedUntil' = [blockedUntil EXCEPT ![p] = [blockedUntil[p] EXCEPT !.until = 0]]
          \/ blockedUntil' = blockedUntil
      BY <1>6 DEF HasHeadroom
    <3> QED BY <3>4, <3>5 DEF FeedsTypeOK
  <2> QED BY <1>6, <2>1, AnswerType DEF HasHeadroom, FeedsTypeOK
<1>7. ASSUME NEW p \in Probed, ProbeFails(p) PROVE FeedsTypeOK' /\ ProbeInv'
  BY <1>7, AnswerType DEF ProbeFails, FeedsTypeOK
<1>8. ASSUME NEW l \in Lookups, Begins(l) PROVE FeedsTypeOK' /\ ProbeInv'
  <2>1. lookup' \in [Lookups -> [asks: Providers \cup {Nobody}, rest: SUBSET Providers]]
    BY <1>8, LookupType DEF Begins, ProvidersFor
  <2>2. left' \in 0 .. Quotes
    BY <1>8 DEF Begins, FeedsTypeOK
  <2> QED BY <1>8, <2>1, <2>2 DEF Begins, FeedsTypeOK, ProbeInv
<1>9. ASSUME NEW l \in Lookups, Finds(l) PROVE FeedsTypeOK' /\ ProbeInv'
  BY <1>9 DEF Finds, FeedsTypeOK, ProbeInv, Resting
<1>10. ASSUME NEW l \in Lookups, FindsNothing(l) PROVE FeedsTypeOK' /\ ProbeInv'
  <2>1. lookup[l].rest \in SUBSET Providers
    BY DEF FeedsTypeOK
  <2>2. lookup' \in [Lookups -> [asks: Providers \cup {Nobody}, rest: SUBSET Providers]]
    BY <1>10, <2>1, LookupType DEF FindsNothing
  <2>3. wasted' \in [Providers -> Nat]
    BY <1>10, CountedType DEF FindsNothing
  <2> QED BY <1>10, <2>2, <2>3 DEF FindsNothing, FeedsTypeOK, ProbeInv
<1>11. ASSUME NEW l \in Lookups, NEW status, Fails(l, status) PROVE FeedsTypeOK' /\ ProbeInv'
  <2>1. lookup[l].rest \in SUBSET Providers
    BY DEF FeedsTypeOK
  <2>2. lookup' \in [Lookups -> [asks: Providers \cup {Nobody}, rest: SUBSET Providers]]
    BY <1>11, <2>1, LookupType DEF Fails
  <2>3. wasted' \in [Providers -> Nat]
    BY <1>11, CountedType DEF Fails
  <2>4. errors' \in [Providers -> Nat]
    BY <1>11 DEF Fails, FeedsTypeOK
  <2>5. /\ blockedUntil' \in [Providers -> [until: 0 .. LastUntil, reason: {"quota", "rate"}]]
        /\ cooling' \in [Providers -> 0 .. LastUntil]
    BY <1>11, FailedType DEF Fails
  <2> QED BY <1>11, <2>2, <2>3, <2>4, <2>5 DEF Fails, FeedsTypeOK, ProbeInv
<1> QED BY <1>1, <1>2, <1>3, <1>4, <1>5, <1>6, <1>7, <1>8, <1>9, <1>10, <1>11 DEF FeedsNext

(* Type correctness of the chain and its breaker (service.ts).             *)
THEOREM FeedsTypeCorrect == FeedsSpec => [](FeedsTypeOK /\ ProbeInv)
<1>1. FeedsInit => FeedsTypeOK /\ ProbeInv
  BY DEF FeedsInit, FeedsTypeOK, ProbeInv, NeverProbed, Resting, LastUntil
<1>2. FeedsTypeOK /\ ProbeInv /\ [FeedsNext]_feedVars => FeedsTypeOK' /\ ProbeInv'
  BY FeedsTypeStep
<1> QED BY <1>1, <1>2, PTL DEF FeedsSpec

-----------------------------------------------------------------------------
(* A call under way may still add one failure, and a provider still listed *)
(* may still be asked once by that lookup.                                 *)
Asking(p)  == {w \in QuoteWorkers : lookup[w].asks = p}
Listing(p) == {l \in Lookups : p \in lookup[l].rest}

ErrorsInv ==
    \A p \in Providers :
        errors[p] + Cardinality(Asking(p)) < Budget + Cardinality(QuoteWorkers)

WastedInv ==
    \A p \in Providers :
        IsBlocked(p) => wasted[p] + Cardinality(Listing(p)) <= Cardinality(Lookups)

(* The sets that are counted are finite, whatever the state.               *)
LEMMA Finite ==
    /\ IsFiniteSet(Lookups)
    /\ \A S \in SUBSET Lookups :
          IsFiniteSet(S) /\ Cardinality(S) \in Nat /\ Cardinality(S) <= Cardinality(Lookups)
    /\ \A S \in SUBSET QuoteWorkers :
          IsFiniteSet(S) /\ Cardinality(S) \in Nat /\ Cardinality(S) <= Cardinality(QuoteWorkers)
    /\ Cardinality(Lookups) \in Nat
    /\ Cardinality(QuoteWorkers) \in Nat /\ Cardinality(QuoteWorkers) > 0
<1>1. IsFiniteSet(Lookups)
  BY FS_AddElement DEF Lookups
<1>2. Cardinality(Lookups) \in Nat /\ Cardinality(QuoteWorkers) \in Nat
  BY <1>1, FS_CardinalityType
<1>3. Cardinality(QuoteWorkers) # 0
  BY FS_EmptySet
<1> QED BY <1>1, <1>2, <1>3, FS_Subset, FS_CardinalityType

(* Smaller sets count less, one member fewer counts one less.              *)
LEMMA CountsLess ==
    ASSUME NEW S, IsFiniteSet(S), NEW T \in SUBSET S
    PROVE  /\ Cardinality(T) \in Nat /\ Cardinality(S) \in Nat /\ Cardinality(T) <= Cardinality(S)
           /\ \A x \in S : x \notin T => Cardinality(T) + 1 <= Cardinality(S)
<1>1. IsFiniteSet(T) /\ Cardinality(T) <= Cardinality(S)
  BY FS_Subset
<1>2. Cardinality(T) \in Nat /\ Cardinality(S) \in Nat
  BY <1>1, FS_CardinalityType
<1>3. ASSUME NEW x \in S, x \notin T PROVE Cardinality(T) + 1 <= Cardinality(S)
  <2>1. T \cup {x} \in SUBSET S /\ Cardinality(T \cup {x}) = Cardinality(T) + 1
    BY <1>1, <1>3, FS_AddElement
  <2>2. Cardinality(T \cup {x}) <= Cardinality(S)
    BY <2>1, FS_Subset
  <2> QED BY <2>1, <2>2
<1> QED BY <1>1, <1>2, <1>3

(* A lookup goes on to whom it asks next: it was in budget then, and       *)
(* before, it had the provider on its list.                                *)
LEMMA ErrorsOfStep ==
    ASSUME FeedsTypeOK, ErrorsInv, NEW l \in Lookups, NEW rest \in SUBSET Providers,
           errors' \in [Providers -> Nat],
           lookup' = [lookup EXCEPT ![l] = Ahead(l, rest, errors')],
           \A p \in Providers :
              \/ errors'[p] = errors[p]
              \/ l \in QuoteWorkers /\ lookup[l].asks = p /\ errors'[p] = errors[p] + 1
    PROVE  ErrorsInv'
<1> SUFFICES ASSUME NEW p \in Providers
             PROVE  errors'[p] + Cardinality(Asking(p)') < Budget + Cardinality(QuoteWorkers)
  BY DEF ErrorsInv
<1>1. /\ IsFiniteSet(Asking(p)) /\ IsFiniteSet(Asking(p)')
      /\ Cardinality(Asking(p)) \in Nat /\ Cardinality(Asking(p)') \in Nat
      /\ Cardinality(Asking(p)') <= Cardinality(QuoteWorkers)
      /\ Cardinality(QuoteWorkers) \in Nat
  BY Finite DEF Asking
<1>2. errors[p] \in Nat /\ errors'[p] \in Nat /\ Budget \in Nat
  BY DEF FeedsTypeOK
<1>3. errors[p] + Cardinality(Asking(p)) < Budget + Cardinality(QuoteWorkers)
  BY DEF ErrorsInv
<1>4. /\ lookup'[l] = Ahead(l, rest, errors')
      /\ \A k \in Lookups \ {l} : lookup'[k] = lookup[k]
  BY DEF FeedsTypeOK
<1>5. QuoteWorkers \subseteq Lookups /\ p # Nobody
  BY DEF Lookups, Providers, Nobody
<1>6. CASE l \in QuoteWorkers /\ lookup'[l].asks = p
  <2>1. WithinBudget(l, p, errors')
    BY <1>4, <1>5, <1>6, AheadIs
  <2>2. errors'[p] < Budget
    BY <1>6, <2>1 DEF WithinBudget
  <2> QED BY <1>1, <1>2, <2>2
<1>7. CASE ~(l \in QuoteWorkers /\ lookup'[l].asks = p)
  <2>1. Asking(p)' \in SUBSET Asking(p) /\ l \notin Asking(p)'
    BY <1>4, <1>5, <1>7 DEF Asking
  <2>2. Cardinality(Asking(p)') <= Cardinality(Asking(p))
        /\ (l \in Asking(p) => Cardinality(Asking(p)') + 1 <= Cardinality(Asking(p)))
    BY <1>1, <2>1, CountsLess
  <2>3. errors'[p] = errors[p] + 1 => l \in Asking(p)
    BY <1>2 DEF Asking
  <2> QED BY <1>1, <1>2, <1>3, <2>2, <2>3
<1> QED BY <1>6, <1>7

LEMMA WastedOfStep ==
    ASSUME FeedsTypeOK, WastedInv, NEW l \in Lookups, NEW rest \in SUBSET Providers,
           NEW failures, rest \subseteq lookup[l].rest,
           lookup' = [lookup EXCEPT ![l] = Ahead(l, rest, failures)],
           wasted' = Counted(Ahead(l, rest, failures).asks)
    PROVE  \A p \in Providers : wasted'[p] + Cardinality(Listing(p)') <= Cardinality(Lookups)
<1> SUFFICES ASSUME NEW p \in Providers
             PROVE  wasted'[p] + Cardinality(Listing(p)') <= Cardinality(Lookups)
  OBVIOUS
<1>1. /\ IsFiniteSet(Listing(p)) /\ IsFiniteSet(Listing(p)')
      /\ Cardinality(Listing(p)) \in Nat /\ Cardinality(Listing(p)') \in Nat
      /\ Cardinality(Listing(p)') <= Cardinality(Lookups)
      /\ Cardinality(Lookups) \in Nat
  BY Finite DEF Listing
<1>2. /\ lookup'[l] = Ahead(l, rest, failures)
      /\ \A k \in Lookups \ {l} : lookup'[k] = lookup[k]
  BY DEF FeedsTypeOK
<1>3. wasted[p] \in Nat /\ p # Nobody
  BY DEF FeedsTypeOK, Providers, Nobody
<1>4. CASE ~IsBlocked(p)
  BY <1>1, <1>4 DEF Counted
<1>5. CASE IsBlocked(p)
  <2>1. wasted[p] + Cardinality(Listing(p)) <= Cardinality(Lookups)
    BY <1>5 DEF WastedInv
  <2>2. Listing(p)' \in SUBSET Listing(p)
    BY <1>2, AheadIs DEF Listing
  <2>3. CASE lookup'[l].asks = p
    <3>1. l \in Listing(p) /\ l \notin Listing(p)'
      BY <1>2, <1>3, <2>3, AheadIs DEF Listing
    <3>2. Cardinality(Listing(p)') + 1 <= Cardinality(Listing(p))
      BY <1>1, <2>2, <3>1, CountsLess
    <3>3. wasted'[p] = wasted[p] + 1
      BY <1>2, <1>3, <1>5, <2>3 DEF Counted
    <3> QED BY <1>1, <1>3, <2>1, <3>2, <3>3
  <2>4. CASE lookup'[l].asks # p
    <3>1. Cardinality(Listing(p)') <= Cardinality(Listing(p))
      BY <1>1, <2>2, CountsLess
    <3>2. wasted'[p] = wasted[p]
      BY <1>2, <1>3, <1>5, <2>4 DEF Counted
    <3> QED BY <1>1, <1>3, <2>1, <3>1, <3>2
  <2> QED BY <2>3, <2>4
<1> QED BY <1>4, <1>5

(* A lookup that is over asks nobody and lists nobody.                     *)
LEMMA FewerAsked ==
    ASSUME ErrorsInv, FeedsTypeOK,
           \A p \in Providers : errors'[p] = errors[p] /\ Asking(p)' \subseteq Asking(p)
    PROVE  ErrorsInv'
<1> SUFFICES ASSUME NEW p \in Providers
             PROVE  errors'[p] + Cardinality(Asking(p)') < Budget + Cardinality(QuoteWorkers)
  BY DEF ErrorsInv
<1>1. IsFiniteSet(Asking(p)) /\ Asking(p)' \in SUBSET Asking(p)
  BY Finite DEF Asking
<1>2. /\ Cardinality(Asking(p)) \in Nat /\ Cardinality(Asking(p)') \in Nat
      /\ Cardinality(Asking(p)') <= Cardinality(Asking(p))
  BY <1>1, CountsLess
<1>3. errors[p] \in Nat /\ Budget \in Nat /\ Cardinality(QuoteWorkers) \in Nat
  BY Finite DEF FeedsTypeOK
<1>4. errors[p] + Cardinality(Asking(p)) < Budget + Cardinality(QuoteWorkers)
  BY DEF ErrorsInv
<1> QED BY <1>2, <1>3, <1>4

LEMMA FewerListed ==
    ASSUME WastedInv, FeedsTypeOK, NEW p \in Providers, IsBlocked(p),
           wasted'[p] = wasted[p], Listing(p)' \subseteq Listing(p)
    PROVE  wasted'[p] + Cardinality(Listing(p)') <= Cardinality(Lookups)
<1>1. IsFiniteSet(Listing(p)) /\ Listing(p)' \in SUBSET Listing(p)
  BY Finite DEF Listing
<1>2. /\ Cardinality(Listing(p)) \in Nat /\ Cardinality(Listing(p)') \in Nat
      /\ Cardinality(Listing(p)') <= Cardinality(Listing(p))
  BY <1>1, CountsLess
<1>3. wasted[p] \in Nat /\ Cardinality(Lookups) \in Nat
  BY Finite DEF FeedsTypeOK
<1>4. wasted[p] + Cardinality(Listing(p)) <= Cardinality(Lookups)
  BY DEF WastedInv
<1> QED BY <1>2, <1>3, <1>4

(* The steps of the clock and of the probes: a block is set anew only      *)
(* where none stands, and then its count begins at 0.                      *)
LEMMA ProbesBounded ==
    ASSUME FeedsTypeOK, ErrorsInv, WastedInv,
           Passes \/ \E p \in Probed : Probes(p) \/ QuotaUsedUp(p) \/ HasHeadroom(p) \/ ProbeFails(p)
    PROVE  ErrorsInv' /\ WastedInv'
<1>1. UNCHANGED <<errors, lookup>>
  BY DEF Passes, Probes, QuotaUsedUp, HasHeadroom, ProbeFails
<1>2. ErrorsInv'
  BY <1>1, FewerAsked DEF Asking
<1>3. \A p \in Providers : Listing(p)' = Listing(p)
  BY <1>1 DEF Listing
<1>4. ASSUME NEW p \in Providers, IsBlocked(p)'
      PROVE  wasted'[p] + Cardinality(Listing(p)') <= Cardinality(Lookups)
  <2>1. \/ IsBlocked(p) /\ wasted'[p] = wasted[p]
        \/ wasted'[p] = 0
    <3>1. CASE Passes
      BY <1>4, <3>1 DEF Passes, IsBlocked, FeedsTypeOK
    <3>2. ASSUME NEW q \in Probed, Probes(q) \/ ProbeFails(q)
          PROVE  IsBlocked(p) /\ wasted'[p] = wasted[p]
      BY <1>4, <3>2 DEF Probes, ProbeFails, IsBlocked
    <3>3. ASSUME NEW q \in Probed, HasHeadroom(q)
          PROVE  IsBlocked(p) /\ wasted'[p] = wasted[p]
      <4>1. p # q \/ blockedUntil'[p] = blockedUntil[p] \/ blockedUntil'[p].until = 0
        BY <3>3 DEF HasHeadroom, FeedsTypeOK
      <4>2. p # q => blockedUntil'[p] = blockedUntil[p]
        BY <3>3 DEF HasHeadroom, FeedsTypeOK
      <4>3. now' = now /\ now \in Nat /\ wasted' = wasted
        BY <3>3 DEF HasHeadroom, FeedsTypeOK
      <4> QED BY <1>4, <4>1, <4>2, <4>3 DEF IsBlocked
    <3>4. ASSUME NEW q \in Probed, QuotaUsedUp(q)
          PROVE  (IsBlocked(p) /\ wasted'[p] = wasted[p]) \/ wasted'[p] = 0
      <4>1. CASE p = q /\ ~IsBlocked(q)
        BY <3>4, <4>1 DEF QuotaUsedUp, FeedsTypeOK
      <4>2. CASE p # q \/ IsBlocked(q)
        <5>1. now' = now /\ blockedUntil'[p] = blockedUntil[p] /\ wasted'[p] = wasted[p]
          BY <3>4, <4>2 DEF QuotaUsedUp, Blocked, FeedsTypeOK
        <5> QED BY <1>4, <5>1 DEF IsBlocked
      <4> QED BY <4>1, <4>2
    <3> QED BY <3>1, <3>2, <3>3, <3>4
  <2>2. CASE IsBlocked(p) /\ wasted'[p] = wasted[p]
    BY <1>3, <2>2, FewerListed
  <2>3. CASE wasted'[p] = 0
    BY <2>3, <1>3, Finite DEF Listing
  <2> QED BY <2>1, <2>2, <2>3
<1>5. WastedInv'
  BY <1>4 DEF WastedInv
<1> QED BY <1>2, <1>5

LEMMA LookupsBounded ==
    ASSUME FeedsTypeOK, ErrorsInv, WastedInv, NEW l \in Lookups,
           NEW status, Begins(l) \/ Finds(l) \/ FindsNothing(l) \/ Fails(l, status)
    PROVE  ErrorsInv' /\ WastedInv'
<1>0. errors \in [Providers -> Nat] /\ lookup[l].rest \in SUBSET Providers
      /\ ProvidersFor \in SUBSET Providers
  BY DEF FeedsTypeOK, ProvidersFor
<1>1. CASE Begins(l)
  <2>1. UNCHANGED <<now, blockedUntil, errors, wasted>>
        /\ lookup' = [lookup EXCEPT ![l] = Ahead(l, ProvidersFor, errors)]
    BY <1>1 DEF Begins
  <2>2. ErrorsInv'
    <3>1. /\ lookup' = [lookup EXCEPT ![l] = Ahead(l, ProvidersFor, errors')]
          /\ errors' \in [Providers -> Nat] /\ \A p \in Providers : errors'[p] = errors[p]
      BY <1>0, <2>1
    <3> QED BY <1>0, <3>1, ErrorsOfStep
  <2>3. ASSUME NEW p \in Providers, IsBlocked(p)' PROVE Listing(p)' \subseteq Listing(p) /\ IsBlocked(p)
    <3>1. IsBlocked(p) /\ p \notin Ahead(l, ProvidersFor, errors).rest
      BY <1>0, <2>1, <2>3, AheadIs DEF IsBlocked, ProvidersFor
    <3>2. lookup'[l] = Ahead(l, ProvidersFor, errors) /\ \A k \in Lookups \ {l} : lookup'[k] = lookup[k]
      BY <2>1 DEF FeedsTypeOK
    <3> QED BY <3>1, <3>2 DEF Listing
  <2>4. WastedInv'
    BY <2>1, <2>3, FewerListed DEF WastedInv
  <2> QED BY <2>2, <2>4
<1>2. CASE Finds(l)
  <2>1. UNCHANGED <<now, blockedUntil, errors, wasted>>
        /\ lookup'[l] = Resting /\ \A k \in Lookups \ {l} : lookup'[k] = lookup[k]
    BY <1>2 DEF Finds, FeedsTypeOK
  <2>2. \A p \in Providers : Asking(p)' \subseteq Asking(p) /\ Listing(p)' \subseteq Listing(p)
    BY <2>1 DEF Asking, Listing, Resting, Nobody, Providers, Lookups
  <2>3. WastedInv'
    BY <2>1, <2>2, FewerListed DEF WastedInv, IsBlocked
  <2> QED BY <2>1, <2>2, <2>3, FewerAsked
<1>3. CASE FindsNothing(l)
  <2>1. /\ UNCHANGED <<now, blockedUntil, errors>>
        /\ lookup' = [lookup EXCEPT ![l] = Ahead(l, lookup[l].rest, errors)]
        /\ wasted' = Counted(Ahead(l, lookup[l].rest, errors).asks)
    BY <1>3 DEF FindsNothing
  <2>2. ErrorsInv'
    <3>1. /\ lookup' = [lookup EXCEPT ![l] = Ahead(l, lookup[l].rest, errors')]
          /\ errors' \in [Providers -> Nat] /\ \A p \in Providers : errors'[p] = errors[p]
      BY <1>0, <2>1
    <3> QED BY <1>0, <3>1, ErrorsOfStep
  <2>3. WastedInv'
    BY <1>0, <2>1, WastedOfStep DEF WastedInv
  <2> QED BY <2>2, <2>3
<1>4. CASE Fails(l, status)
  <2>1. /\ lookup' = [lookup EXCEPT ![l] = Ahead(l, lookup[l].rest, errors')]
        /\ wasted' = Counted(Ahead(l, lookup[l].rest, errors').asks)
        /\ errors' = IF l = Outside THEN errors
                     ELSE [errors EXCEPT ![lookup[l].asks] = @ + 1]
    BY <1>4 DEF Fails
  <2>2. /\ errors' \in [Providers -> Nat]
        /\ \A p \in Providers :
              \/ errors'[p] = errors[p]
              \/ l \in QuoteWorkers /\ lookup[l].asks = p /\ errors'[p] = errors[p] + 1
    <3>1. CASE l = Outside
      BY <1>0, <2>1, <3>1
    <3>2. CASE l # Outside
      <4>1. l \in QuoteWorkers
        BY <3>2 DEF Lookups
      <4>2. errors' = [errors EXCEPT ![lookup[l].asks] = errors[lookup[l].asks] + 1]
        BY <2>1, <3>2
      <4>3. CASE lookup[l].asks \in Providers
        <5>1. errors[lookup[l].asks] + 1 \in Nat
          BY <1>0, <4>3
        <5> QED BY <1>0, <4>1, <4>2, <4>3, <5>1
      <4>4. CASE lookup[l].asks \notin Providers
        <5>1. errors' = errors
          BY <1>0, <4>2, <4>4
        <5> QED BY <1>0, <5>1
      <4> QED BY <4>3, <4>4
    <3> QED BY <3>1, <3>2
  <2>3. ErrorsInv'
    BY <1>0, <2>1, <2>2, ErrorsOfStep
  <2>4. WastedInv'
    BY <1>0, <2>1, WastedOfStep DEF WastedInv
  <2> QED BY <2>3, <2>4
<1> QED BY <1>1, <1>2, <1>3, <1>4

(* One dead upstream costs a run its budget of failures and the calls that *)
(* were under way when it ran out, and a blocked one costs a call for each *)
(* lookup that had listed it before (service.ts:104-110, 176-179), for any *)
(* number of workers, providers and instruments.                           *)
THEOREM FailuresAreBounded == FeedsSpec => []FailuresBounded
<1>1. FeedsInit => FeedsTypeOK /\ ProbeInv /\ ErrorsInv /\ WastedInv
  <2> SUFFICES ASSUME FeedsInit PROVE FeedsTypeOK /\ ProbeInv /\ ErrorsInv /\ WastedInv
    OBVIOUS
  <2>1. FeedsTypeOK /\ ProbeInv
    BY DEF FeedsInit, FeedsTypeOK, ProbeInv, NeverProbed, Resting, LastUntil
  <2>2. \A p \in Providers : Asking(p) = {} /\ Listing(p) = {}
    BY DEF FeedsInit, Resting, Nobody, Providers, Lookups, Asking, Listing
  <2>3. \A p \in Providers : errors[p] = 0 /\ wasted[p] = 0
    BY DEF FeedsInit
  <2> QED BY <2>1, <2>2, <2>3, Finite, FS_EmptySet DEF ErrorsInv, WastedInv
<1>2. FeedsTypeOK /\ ProbeInv /\ ErrorsInv /\ WastedInv /\ [FeedsNext]_feedVars
         => FeedsTypeOK' /\ ProbeInv' /\ ErrorsInv' /\ WastedInv'
  <2> SUFFICES ASSUME FeedsTypeOK, ProbeInv, ErrorsInv, WastedInv, [FeedsNext]_feedVars
               PROVE  ErrorsInv' /\ WastedInv'
    BY FeedsTypeStep
  <2>1. CASE UNCHANGED feedVars
    BY <2>1 DEF feedVars, ErrorsInv, WastedInv, Asking, Listing, IsBlocked
  <2>2. CASE RunStarts
    <3>1. \A p \in Providers : Asking(p)' = {} /\ errors'[p] = 0
      BY <2>2 DEF RunStarts, Asking, Resting, Nobody, Providers
    <3>2. ErrorsInv'
      BY <3>1, Finite, FS_EmptySet DEF ErrorsInv
    <3>3. WastedInv'
      BY <2>2 DEF RunStarts, WastedInv, Listing, IsBlocked
    <3> QED BY <3>2, <3>3
  <2> QED BY <2>1, <2>2, ProbesBounded, LookupsBounded DEF FeedsNext
<1>3. FeedsTypeOK /\ ErrorsInv /\ WastedInv => FailuresBounded
  <2> SUFFICES ASSUME FeedsTypeOK, ErrorsInv, WastedInv, NEW p \in Providers
               PROVE  /\ errors[p] < Budget + Cardinality(QuoteWorkers)
                      /\ IsBlocked(p) => wasted[p] <= Cardinality(Lookups)
    BY DEF FailuresBounded
  <2>1. /\ errors[p] \in Nat /\ wasted[p] \in Nat /\ Budget \in Nat
        /\ Cardinality(Asking(p)) \in Nat /\ Cardinality(Listing(p)) \in Nat
        /\ Cardinality(QuoteWorkers) \in Nat /\ Cardinality(Lookups) \in Nat
    BY Finite DEF FeedsTypeOK, Asking, Listing
  <2> QED BY <2>1 DEF ErrorsInv, WastedInv
<1> QED BY <1>1, <1>2, <1>3, PTL DEF FeedsSpec

-----------------------------------------------------------------------------
(* In the instance that TLC checks, where one of the three sources runs    *)
(* and the others rest, each keeps its type (MCSources).                   *)
THEOREM SourcesTypeCorrect == SourcesSpec => []SourcesTypeOK
<1> DEFINE Good == IbkrInv /\ FeedsTypeOK /\ ProbeInv
<1>1. SourcesInit => Good
  <2> SUFFICES ASSUME SourcesInit PROVE Good
    OBVIOUS
  <2>1. IbkrInit /\ FeedsInit
    BY DEF SourcesInit
  <2>2. FeedsTypeOK /\ ProbeInv
    BY <2>1, LengthsAssumption DEF FeedsInit, FeedsTypeOK, ProbeInv, NeverProbed, Resting, LastUntil
  <2>3. IbkrInv
    BY <2>1, IbkrInitHolds
  <2> QED BY <2>2, <2>3
<1>2. Good /\ [SourcesNext]_<<source, ibkrVars, feedVars>> => Good'
  <2> SUFFICES ASSUME Good, [SourcesNext]_<<source, ibkrVars, feedVars>> PROVE Good'
    OBVIOUS
  <2>1. [IbkrNext]_ibkrVars /\ [FeedsNext]_feedVars
    BY DEF SourcesNext
  <2> QED BY <2>1, IbkrNextHolds, FeedsTypeStep
<1>3. Good => SourcesTypeOK
  BY DEF IbkrInv, SourcesTypeOK
<1> QED BY <1>1, <1>2, <1>3, PTL DEF SourcesSpec
=============================================================================
