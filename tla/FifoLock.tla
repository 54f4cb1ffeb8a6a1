------------------------------ MODULE FifoLock ------------------------------
(***************************************************************************)
(* What withPortfolioLock (services/scheduler/portfolio-lock.ts) promises  *)
(* its callers: for each portfolio the functions run one at a time, in the *)
(* order in which they asked, and each of them runs.                       *)
(*                                                                         *)
(* PortfolioLock is the promise chain that implements this lock; Recompute *)
(* and its workers use it as it stands here.                               *)
(***************************************************************************)
EXTENDS Naturals, Sequences

CONSTANTS
    Portfolios,
    Calls        \* calls of withPortfolioLock, each made once

VARIABLES
    queue,       \* for each portfolio: the calls that asked, in their order
    holds        \* the calls whose function runs

lockVars == <<queue, holds>>

Waits(c, p) == \E i \in 1 .. Len(queue[p]) : queue[p][i] = c
IsFirst(c, p) == queue[p] # <<>> /\ Head(queue[p]) = c

LockInit ==
    /\ queue = [p \in Portfolios |-> <<>>]
    /\ holds = {}

(* A call asks for the lock of a portfolio.                                *)
Enter(c, p) ==
    /\ \A q \in Portfolios : ~Waits(c, q)
    /\ queue' = [queue EXCEPT ![p] = Append(queue[p], c)]
    /\ UNCHANGED holds

(* The function of the first call starts.                                  *)
Acquire(c, p) ==
    /\ IsFirst(c, p) /\ c \notin holds
    /\ holds' = holds \cup {c}
    /\ UNCHANGED queue

(* It has settled, fulfilled or rejected.                                  *)
Release(c, p) ==
    /\ IsFirst(c, p) /\ c \in holds
    /\ holds' = holds \ {c}
    /\ queue' = [queue EXCEPT ![p] = Tail(queue[p])]

LockNext ==
    \E c \in Calls, p \in Portfolios :
        Enter(c, p) \/ Acquire(c, p) \/ Release(c, p)

LockSafety == LockInit /\ [][LockNext]_lockVars
=============================================================================
