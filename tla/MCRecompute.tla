---------------------------- MODULE MCRecompute -----------------------------
(***************************************************************************)
(* An instance of Recompute.  The changes are numbers; naming them after   *)
(* the order of their days leaves out renamings only.                      *)
(***************************************************************************)
EXTENDS Recompute

NamedByDay == \A c, d \in Changes : c < d => day[c] <= day[d]

(* The third change is there for the follow-up that is absorbed by one of  *)
(* the same day: it comes when that one is waiting, nothing fails, and     *)
(* neither a backfill nor the daily job runs.                              *)
Quiet ==
    /\ faults = 0 /\ cron.pc = "off" /\ cron.wrote = {}
    /\ \A b \in Backfills : run[<<b, 0>>].pc = "off"

ThirdIsAbsorbed ==
    /\ 3 \in Made' => Quiet'
    /\ 3 \in Made' \ Made => Absorbed(3)

(* The daily job reads something new, and writes it once.                  *)
DailyJobOnce == cron'.pc = "read" => cron.wrote = {} /\ Made # {}

InstanceBounds == ThirdIsAbsorbed /\ DailyJobOnce

MCInit == Init /\ NamedByDay /\ day[3] = day[2]
MCSpec == MCInit /\ [][Next]_vars /\ Fairness
=============================================================================
