------------------------------ MODULE MCFanOut ------------------------------
(* A small instance of FanOut for TLC.                                     *)
EXTENDS FanOut

CONSTANTS
    First,   \* the planner that serves an idle portfolio in the only process
    Shared   \* the instruments two processes plan at the same time

(* In one process two planners are interchangeable as long as the lock     *)
(* keeps them apart, so a second one starts only beside the first.  What   *)
(* the portfolio holds is nothing, a part or everything; two processes are *)
(* checked on the part alone.                                              *)
MCStarts(p, held) ==
    /\ (oneProcess /\ Inside = {}) => p = First
    /\ held \in IF oneProcess THEN {{}, Shared, Instruments} ELSE {{}, Shared}

MCNext ==
    \/ \E p \in Planners :
          \/ \E held \in SUBSET Instruments, start \in Starts :
                MCStarts(p, held) /\ PlanStarts(p, held, start)
          \/ MCStarts(p, {}) /\ PlanNothing(p)
          \/ PollAborts(p) \/ Proceed(p)
    \/ \E j \in jobs : SubStep(j)
    \/ Restart
    \/ \E k \in Key : Age(k)

MCSpec == Init /\ [][MCNext]_vars /\ \A p \in Planners : WF_vars(Proceed(p))
=============================================================================
