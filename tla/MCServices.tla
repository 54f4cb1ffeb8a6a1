----------------------------- MODULE MCServices -----------------------------
(***************************************************************************)
(* Three protocols of calls that wait for one another, in one instance:    *)
(* the lock of a portfolio, the repayments of a loan, the pairing with the *)
(* broker.  They share no state, so a behaviour runs one of them, chosen   *)
(* at the start, and leaves the variables of the others as they are        *)
(* initially: the instance is the sum of the three, not their product.     *)
(***************************************************************************)
EXTENDS PortfolioLock, Loans, Pairing

CONSTANTS p1, s1, s2, v1, v2     \* members of the sets of the components

VARIABLE part                    \* the component that runs

servicesVars == <<part, chainVars, vars, pairingVars>>

-----------------------------------------------------------------------------
ServicesInit ==
    /\ part \in {"lock", "loan", "pairing"}
    /\ ChainInit /\ (part # "lock" => \A c \in Calls : of[c] = p1)
    /\ Init /\ (part # "loan" => \A id \in Manual : ~Exists(id))
    /\ PairingInit

(* Of two calls that differ in name only, the one named first comes first; *)
(* a second pairing and a second verify do not come together.              *)
InOrder ==
    /\ start'[s2] # "new" => start'[s1] # "new" /\ verify'[v2] = "new"
    /\ verify'[v2] # "new" => verify'[v1] # "new"

ServicesNext ==
    /\ UNCHANGED part
    /\ IF part = "lock" THEN ChainNext ELSE UNCHANGED chainVars
    /\ IF part = "loan" THEN Next ELSE UNCHANGED vars
    /\ IF part = "pairing" THEN PairingNext /\ InOrder ELSE UNCHANGED pairingVars

(* The fairness of the parts (ChainFairness, Fairness, PairingFairness).   *)
ServicesFairness ==
    /\ \A c \in Calls :
          WF_chainVars(part = "lock" /\ Run(c)) /\ WF_chainVars(part = "lock" /\ Settle(c))
    /\ WF_vars(part = "loan" /\ JobStarts)
    /\ \A q \in Procs : WF_vars(part = "loan" /\ GoesOn(q))
    /\ \A s \in Starts :
          /\ WF_pairingVars(part = "pairing" /\ Spawns(s))
          /\ WF_pairingVars(part = "pairing" /\ TimerFires(s))
          /\ WF_pairingVars(part = "pairing" /\ ExitReported(s))
          /\ \A c \in Starts : WF_pairingVars(part = "pairing" /\ SessionRead(c, s))

ServicesSpec == ServicesInit /\ [][ServicesNext]_servicesVars /\ ServicesFairness

-----------------------------------------------------------------------------
ServicesTypeOK == ChainTypeOK /\ TypeOK /\ PairingTypeOK
=============================================================================
