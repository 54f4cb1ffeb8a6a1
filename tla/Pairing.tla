------------------------------ MODULE Pairing -------------------------------
(***************************************************************************)
(* The pairings of one user with Trade Republic (PytrRunner: startPairing, *)
(* awaitApproval, cancelPairing and the handlers of the login process).    *)
(*                                                                         *)
(* A pairing is a child process, a timer and an entry in a map by user.    *)
(* The events of the child and of the timer look the entry up by user, not *)
(* by child, and a cancelled child reports its end later; so an event may  *)
(* reach the entry of another pairing.  dropped and crossed are history:   *)
(* they name what that does, and no action reads them.                     *)
(***************************************************************************)
EXTENDS Naturals

CONSTANTS
    Starts,      \* calls of startPairing, each made once
    Verifies,    \* calls of awaitApproval, each made once
    None

ASSUME NoneAssumption == None \notin Starts \cup Verifies

VARIABLES
    pending,     \* the map: the pairing of the user, named by its start
    entry,       \* the entries
    child,       \* the login processes
    said,        \* children whose first line was read
    coded,       \* children that hold a code to answer
    cookies,     \* children that have written their session
    reading,     \* ends <<child, entry>> whose session is being read
    start,       \* the promises of startPairing
    verify,      \* the promises of awaitApproval
    sentTo,      \* the child each code was written to
    dropped,     \* history: calls whose callback was let go without an answer
    crossed      \* history: pairings another one's event or call reached

pairingVars == <<pending, entry, child, said, coded, cookies, reading, start, verify,
                 sentTo, dropped, crossed>>
history == <<dropped, crossed>>

-----------------------------------------------------------------------------
NewEntry == [init |-> TRUE, approval |-> None, settled |-> "no", timer |-> TRUE,
             method |-> "push"]

PairingTypeOK ==
    /\ pending \in Starts \cup {None}
    /\ entry \in [Starts -> [init: BOOLEAN, approval: Verifies \cup {None},
                             settled: {"no", "session", "error"}, timer: BOOLEAN,
                             method: {"push", "authenticator"}]]
    /\ child \in [Starts -> {"none", "running", "approved", "failed", "gone"}]
    /\ said \subseteq Starts /\ coded \subseteq Starts /\ cookies \subseteq Starts
    /\ reading \subseteq (Starts \X Starts)
    /\ start \in [Starts -> {"new", "making", "waiting", "answered", "failed"}]
    /\ verify \in [Verifies -> {"new", "waiting", "session", "failed"}]
    /\ sentTo \in [Verifies -> Starts \cup {None}]
    /\ dropped \subseteq (Starts \cup Verifies) /\ crossed \subseteq Starts

PairingInit ==
    /\ pending = None
    /\ entry = [s \in Starts |-> [NewEntry EXCEPT !.init = FALSE, !.timer = FALSE]]
    /\ child = [s \in Starts |-> "none"]
    /\ said = {} /\ coded = {} /\ cookies = {} /\ reading = {}
    /\ start = [s \in Starts |-> "new"] /\ verify = [v \in Verifies |-> "new"]
    /\ sentTo = [v \in Verifies |-> None]
    /\ dropped = {} /\ crossed = {}

-----------------------------------------------------------------------------
(* SIGKILL ends a process that still runs; its exit is reported later.     *)
NotKilled(s) == child                   \* bug: the process is left to itself
Killed(s) == IF s # None /\ child[s] = "running" THEN [child EXCEPT ![s] = "failed"] ELSE child

(* The calls that wait for an entry.                                       *)
Waiting(s) ==
    IF s = None THEN {}
    ELSE {t \in {s} : entry[s].init}
         \cup {v \in Verifies : v = entry[s].approval /\ verify[v] = "waiting"}

(* Rejected with an error; a promise that is settled stays as it is.       *)
InitRejected(s) ==
    IF entry[s].init THEN [start EXCEPT ![s] = "failed"] ELSE start
ApprovalIs(s, answer) ==
    [v \in Verifies |-> IF v = entry[s].approval /\ verify[v] = "waiting"
                        THEN answer ELSE verify[v]]

(* cancelPairing; its callers go on from here.                             *)
Cancel ==
    /\ pending' = None
    /\ child' = Killed(pending)
    /\ entry' = IF pending = None THEN entry ELSE [entry EXCEPT ![pending].timer = FALSE]
    /\ cookies' = cookies \ {pending}
    /\ dropped' = dropped \cup Waiting(pending)

Disconnect ==
    /\ pending # None /\ Cancel
    /\ UNCHANGED <<said, coded, reading, start, verify, sentTo, crossed>>

(* startPairing up to its first await, and from there on.                  *)
Starting(s) ==
    /\ start[s] = "new"
    /\ start' = [start EXCEPT ![s] = "making"]
    /\ Cancel
    /\ UNCHANGED <<said, coded, reading, verify, sentTo, crossed>>

Spawns(s) ==
    /\ start[s] = "making"
    /\ start' = [start EXCEPT ![s] = "waiting"]
    /\ child' = [child EXCEPT ![s] = "running"]
    /\ entry' = [entry EXCEPT ![s] = NewEntry]
    /\ pending' = s
    /\ dropped' = dropped \cup Waiting(pending)
    /\ crossed' = crossed \cup ({pending} \ {None})
    /\ UNCHANGED <<said, coded, cookies, reading, verify, sentTo>>

SpawnThrows(s) ==
    /\ start[s] = "making"
    /\ start' = [start EXCEPT ![s] = "failed"]
    /\ UNCHANGED <<pending, entry, child, said, coded, cookies, reading, verify, sentTo, history>>

-----------------------------------------------------------------------------
(* onPairLine: the first line of child c, then the refusal of a code.      *)

FirstLine(c, method) ==
    /\ child[c] # "none" /\ c \notin said
    /\ said' = said \cup {c}
    /\ IF pending # None /\ entry[pending].init
       THEN /\ entry' = [entry EXCEPT ![pending].init = FALSE, ![pending].method = method]
            /\ start' = [start EXCEPT ![pending] = "answered"]
       ELSE UNCHANGED <<entry, start>>
    /\ crossed' = crossed \cup ({pending} \ {None, c})
    /\ UNCHANGED <<pending, child, coded, cookies, reading, verify, sentTo, dropped>>

CodeRefused(c) ==
    LET mine == pending # None /\ ~entry[pending].init
                /\ entry[pending].method = "authenticator" /\ entry[pending].approval # None
    IN
    /\ c \in coded /\ c \in said
    /\ coded' = coded \ {c}
    /\ IF mine
       THEN /\ verify' = ApprovalIs(pending, "failed")
            /\ entry' = [entry EXCEPT ![pending].approval = None]
       ELSE UNCHANGED <<verify, entry>>
    /\ crossed' = crossed \cup ({pending} \ {None, c})
    /\ UNCHANGED <<pending, child, said, cookies, reading, start, sentTo, dropped>>

(* failPairing, called by the timer of s or by an error event of child s;  *)
(* left: the entries, without a timer that has fired.  It clears the timer *)
(* of the pending entry.                                                   *)
FailKeepsStart(s) == start              \* bug: only the verify is rejected
FailRejects(s) == InitRejected(s)

Fail(s, left) ==
    /\ IF pending = None
       THEN entry' = left /\ UNCHANGED <<start, verify, pending, cookies>>
       ELSE /\ entry' = [left EXCEPT ![pending].timer = FALSE,
                                     ![pending].init = FALSE, ![pending].approval = None]
            /\ start' = FailRejects(pending)
            /\ verify' = ApprovalIs(pending, "failed")
            /\ pending' = None
            /\ cookies' = cookies \ {pending}
    /\ crossed' = crossed \cup ({pending} \ {None, s})
    /\ UNCHANGED <<said, coded, reading, sentTo, dropped>>

TimerFires(s) ==
    /\ entry[s].timer
    /\ Fail(s, [entry EXCEPT ![s].timer = FALSE])
    /\ child' = Killed(pending)

ChildErrors(s) ==
    /\ child[s] = "running" /\ s \notin said
    /\ Fail(s, entry)
    /\ child' = [Killed(pending) EXCEPT ![s] = "gone"]

-----------------------------------------------------------------------------
(* The child ends: approved, long after its first line was read, with its  *)
(* session written; or not.                                                *)
ChildEnds(c) ==
    /\ child[c] = "running"
    /\ \/ /\ c \in said
          /\ child' = [child EXCEPT ![c] = "approved"] /\ cookies' = cookies \cup {c}
       \/ child' = [child EXCEPT ![c] = "failed"] /\ UNCHANGED cookies
    /\ UNCHANGED <<pending, entry, said, coded, reading, start, verify, sentTo, history>>

(* The result goes to the verify that waits, and else to the next one.     *)
SettledAs(s, result) == IF entry[s].approval = None THEN result ELSE "no"
Reports(s, result) ==
    /\ entry' = [entry EXCEPT ![s].settled = SettledAs(s, result), ![s].timer = FALSE,
                              ![s].init = IF result = "error" THEN FALSE ELSE @]
    /\ start' = IF result = "error" THEN InitRejected(s) ELSE start
    /\ verify' = ApprovalIs(s, IF result = "error" THEN "failed" ELSE "session")
    /\ pending' = IF entry[s].approval = None THEN pending ELSE None
    /\ cookies' = cookies \ {s}

(* onPairExit                                                              *)
ExitReported(c) ==
    /\ child[c] \in {"approved", "failed"}
    /\ child' = [child EXCEPT ![c] = "gone"]
    /\ IF pending = None
       THEN UNCHANGED <<entry, start, verify, pending, cookies, reading>>
       ELSE IF child[c] = "approved"
       THEN /\ entry' = [entry EXCEPT ![pending].timer = FALSE]
            /\ reading' = reading \cup {<<c, pending>>}
            /\ UNCHANGED <<start, verify, pending, cookies>>
       ELSE Reports(pending, "error") /\ UNCHANGED reading
    /\ crossed' = crossed \cup ({pending} \ {None, c})
    /\ UNCHANGED <<said, coded, sentTo, dropped>>

(* The session of the entry, not of the child, has been read; the entry    *)
(* may no longer be the pending one.                                       *)
SessionRead(c, s) ==
    LET other == IF entry[s].approval = None THEN {} ELSE {pending} \ {None, s} IN
    /\ <<c, s>> \in reading
    /\ reading' = reading \ {<<c, s>>}
    /\ Reports(s, IF s \in cookies THEN "session" ELSE "error")
    /\ dropped' = dropped \cup UNION {Waiting(p) : p \in other}
    /\ crossed' = crossed \cup other
    /\ UNCHANGED <<child, said, coded, sentTo>>

-----------------------------------------------------------------------------
(* awaitApproval                                                           *)
Verify(v) ==
    /\ verify[v] = "new"
    /\ IF pending = None
       THEN /\ verify' = [verify EXCEPT ![v] = "failed"]
            /\ UNCHANGED <<pending, entry, coded, sentTo, dropped>>
       ELSE IF entry[pending].settled # "no"
       THEN /\ verify' = [verify EXCEPT ![v] =
                  IF entry[pending].settled = "session" THEN "session" ELSE "failed"]
            /\ pending' = None
            /\ UNCHANGED <<entry, coded, sentTo, dropped>>
       ELSE /\ verify' = [verify EXCEPT ![v] = "waiting"]
            /\ entry' = [entry EXCEPT ![pending].approval = v]
            /\ dropped' = dropped \cup (Waiting(pending) \cap Verifies)
            /\ IF entry[pending].method = "authenticator"
               THEN /\ coded' = coded \cup {pending}
                    /\ sentTo' = [sentTo EXCEPT ![v] = pending]
               ELSE UNCHANGED <<coded, sentTo>>
            /\ UNCHANGED pending
    /\ UNCHANGED <<child, said, cookies, reading, start, crossed>>

(* The write of the code fails; the callback of the entry goes, whoever's. *)
WriteFails(v) ==
    LET s == sentTo[v] IN
    /\ s # None /\ child[s] \in {"approved", "failed", "gone"}
    /\ sentTo' = [sentTo EXCEPT ![v] = None]
    /\ verify' = [verify EXCEPT ![v] = IF @ = "waiting" THEN "failed" ELSE @]
    /\ entry' = [entry EXCEPT ![s].approval = None]
    /\ dropped' = dropped \cup (Waiting(s) \cap (Verifies \ {v}))
    /\ UNCHANGED <<pending, child, said, coded, cookies, reading, start, crossed>>

PairingNext ==
    \/ Disconnect
    \/ \E s \in Starts :
          \/ Starting(s) \/ Spawns(s) \/ SpawnThrows(s)
          \/ FirstLine(s, "push") \/ FirstLine(s, "authenticator") \/ CodeRefused(s)
          \/ TimerFires(s) \/ ChildErrors(s) \/ ChildEnds(s) \/ ExitReported(s)
          \/ \E c \in Starts : SessionRead(c, s)
    \/ \E v \in Verifies : Verify(v) \/ WriteFails(v)

(* The event loop: a call goes on, timers fire, ends are reported and      *)
(* files are read.  Nothing is assumed of a child that runs.               *)
PairingFairness ==
    \A s \in Starts :
        /\ WF_pairingVars(Spawns(s)) /\ WF_pairingVars(TimerFires(s)) /\ WF_pairingVars(ExitReported(s))
        /\ \A c \in Starts : WF_pairingVars(SessionRead(c, s))

PairingSpec == PairingInit /\ [][PairingNext]_pairingVars /\ PairingFairness

-----------------------------------------------------------------------------
(* No login process is left running but that of the pending pairing, where *)
(* no other pairing interferes (core.ts:267-278).                          *)
NoChildLeft ==
    \A s \in Starts : child[s] = "running" => pending = s \/ s \in crossed

(* Every start and every verify is answered, but for those whose callback  *)
(* was let go: a cancelled pairing answers nobody, and a second verify     *)
(* replaces the first (core.ts:233-278).                                   *)
CallsAnswered ==
    /\ \A s \in Starts :
          (start[s] = "waiting") ~> (start[s] \in {"answered", "failed"} \/ s \in dropped)
    /\ \A v \in Verifies :
          (verify[v] = "waiting") ~> (verify[v] # "waiting" \/ v \in dropped)
=============================================================================
