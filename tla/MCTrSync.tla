------------------------------ MODULE MCTrSync ------------------------------
(***************************************************************************)
(* Two instances of TrSync in one run, chosen at the start: one event with *)
(* everything that may happen to it, and a batch of two events that meet   *)
(* in one import.                                                          *)
(***************************************************************************)
EXTENDS TrSync

CONSTANT first             \* the event of the instance that has one

VARIABLE scope             \* the instance that runs

syncRunVars == <<scope, vars>>

-----------------------------------------------------------------------------
(* The other event never happens; an ignorable issue alone closes nothing. *)
OneEventNext ==
    /\ Next
    /\ \A e \in Events \ {first} : UNCHANGED <<broker[e], other[e]>>
    /\ export'[first] # "info"

(* In the batch what a partial confirm, a discard or a write-back of the   *)
(* one event does to the other needs neither cancellations nor decisions   *)
(* about rows, twins, restarts or a re-import, which the first instance    *)
(* has.  One event may become a draft, the other an ignorable issue.       *)
BatchNext ==
    /\ \/ \E e \in Events : BrokerMoves(e) /\ broker'[e] = "executed"
       \/ Export \/ SyncStep \/ ConfirmStep \/ DiscardStep \/ GivesUp
    /\ \A e \in Events : export'[e] # (IF e = first THEN "info" ELSE "draft")

SyncRunInit == scope \in {"one event", "batch"} /\ Init

SyncRunNext ==
    /\ UNCHANGED scope
    /\ IF scope = "batch" THEN BatchNext ELSE OneEventNext

(* The fairness of TrSync, which serves both instances.                    *)
SyncRunSpec == SyncRunInit /\ [][SyncRunNext]_syncRunVars /\ Fairness
=============================================================================
