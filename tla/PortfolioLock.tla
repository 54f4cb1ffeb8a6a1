---------------------------- MODULE PortfolioLock ---------------------------
(***************************************************************************)
(* withPortfolioLock (services/scheduler/portfolio-lock.ts): a map from a  *)
(* portfolio to the promise of the call that asked last.                   *)
(*                                                                         *)
(* A call remembers the promise it found, chains its function behind it    *)
(* and puts its own in the map, all in one turn of the event loop.  When   *)
(* its function has settled it clears the entry, in a later turn and only  *)
(* if no newer call has put its own there.  Between these turns anyone may *)
(* ask.                                                                    *)
(*                                                                         *)
(* asked is history: the calls that asked and have not ended, in order.    *)
(* The refinement maps it to the queue of FifoLock.                        *)
(***************************************************************************)
EXTENDS Naturals, Sequences

CONSTANTS
    Portfolios,
    Calls,       \* calls of withPortfolioLock, each made once
    NoCall       \* no entry in the map: nothing to wait for

ASSUME NoCallAssumption == NoCall \notin Calls

VARIABLES
    tails,       \* the map: for each portfolio the newest call, or none
    pc,          \* where each call is
    of,          \* the portfolio it names
    prev,        \* the call whose promise it found
    failed,      \* calls whose function rejected
    asked        \* history

chainVars == <<tails, pc, of, prev, failed, asked>>

-----------------------------------------------------------------------------
ChainTypeOK ==
    /\ tails \in [Portfolios -> Calls \cup {NoCall}]
    /\ pc \in [Calls -> {"idle", "waiting", "running", "settled", "left"}]
    /\ of \in [Calls -> Portfolios]
    /\ prev \in [Calls -> Calls \cup {NoCall}]
    /\ failed \subseteq Calls
    /\ asked \in [Portfolios -> Seq(Calls)]

ChainInit ==
    /\ tails = [p \in Portfolios |-> NoCall]
    /\ pc = [c \in Calls |-> "idle"]
    /\ of \in [Calls -> Portfolios]
    /\ prev = [c \in Calls |-> NoCall]
    /\ failed = {}
    /\ asked = [p \in Portfolios |-> <<>>]

(* prev = tails.get(id) ?? resolved; run = prev.then(fn, fn);              *)
(* tails.set(id, run.catch(...)).                                          *)
Ask(c) ==
    /\ pc[c] = "idle"
    /\ pc' = [pc EXCEPT ![c] = "waiting"]
    /\ prev' = [prev EXCEPT ![c] = tails[of[c]]]
    /\ tails' = [tails EXCEPT ![of[c]] = c]
    /\ asked' = [asked EXCEPT ![of[c]] = Append(asked[of[c]], c)]
    /\ UNCHANGED <<of, failed>>

(* The promises that have settled: then(fn, fn) runs behind a rejected one *)
(* too, and the chain holds run.catch(...).                                *)
SettledIfFulfilled ==                         \* bug: then(fn) on run itself
    {NoCall} \cup {c \in Calls \ failed : pc[c] \in {"settled", "left"}}
Settled == {NoCall} \cup {c \in Calls : pc[c] \in {"settled", "left"}}

Run(c) ==
    /\ pc[c] = "waiting" /\ prev[c] \in Settled
    /\ pc' = [pc EXCEPT ![c] = "running"]
    /\ UNCHANGED <<tails, of, prev, failed, asked>>

(* The function settles, fulfilled or rejected, and with it run and tail.  *)
Settle(c) ==
    /\ pc[c] = "running"
    /\ failed' \in {failed, failed \cup {c}}
    /\ pc' = [pc EXCEPT ![c] = "settled"]
    /\ asked' = [asked EXCEPT ![of[c]] = Tail(asked[of[c]])]
    /\ UNCHANGED <<tails, of, prev>>

(* The finally block: the entry goes only if it is still this call's.      *)
ClearedAnyway(c) == [tails EXCEPT ![of[c]] = NoCall]  \* bug: deletes whatever is there
Cleared(c) ==
    IF tails[of[c]] = c THEN [tails EXCEPT ![of[c]] = NoCall] ELSE tails

Leave(c) ==
    /\ pc[c] = "settled"
    /\ pc' = [pc EXCEPT ![c] = "left"]
    /\ tails' = Cleared(c)
    /\ UNCHANGED <<of, prev, failed, asked>>

ChainNext == \E c \in Calls : Ask(c) \/ Run(c) \/ Settle(c) \/ Leave(c)

(* The event loop runs what is ready, and the functions end.               *)
ChainFairness ==
    \A c \in Calls : WF_chainVars(Run(c)) /\ WF_chainVars(Settle(c))

ChainSpec == ChainInit /\ [][ChainNext]_chainVars /\ ChainFairness

-----------------------------------------------------------------------------
Running == {c \in Calls : pc[c] = "running"}

Lock == INSTANCE FifoLock WITH queue <- asked, holds <- Running

(* The chain is a first-in first-out lock: the newest promise is deleted   *)
(* only by its own call, so that a later caller never overtakes one that   *)
(* waits (portfolio-lock.ts:20-22).                                        *)
ImplementsLock == Lock!LockSafety

(* Every call that asked gets its turn, also behind a function that failed *)
(* (portfolio-lock.ts:14-15).                                              *)
EveryCallRuns ==
    \A c \in Calls : pc[c] = "waiting" ~> pc[c] = "running"

(* At most one function of a portfolio runs at a time, which is what keeps *)
(* recompute and backfill of a portfolio apart (portfolio-lock.ts:1-9).    *)
OneAtATime ==
    \A c, d \in Running : of[c] = of[d] => c = d
=============================================================================
