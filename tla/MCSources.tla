----------------------------- MODULE MCSources ------------------------------
(***************************************************************************)
(* Two parts that fetch from outside, in one instance: the Interactive     *)
(* Brokers sync and the chain of market-data providers.  A behaviour runs  *)
(* one of them, chosen at the start, and the other stays in its initial    *)
(* state.                                                                  *)
(***************************************************************************)
EXTENDS IbkrSync, Feeds, TLC

VARIABLE source                  \* the part that runs

(* The syncs under way differ in name only.                                *)
SourceSymmetry == Permutations(Syncs)

-----------------------------------------------------------------------------
SourcesInit ==
    /\ source \in {"ibkr", "market data"}
    /\ IbkrInit /\ (source # "ibkr" => ~collector.open)
    /\ FeedsInit

SourcesNext ==
    /\ UNCHANGED source
    /\ IF source = "ibkr" THEN IbkrNext ELSE UNCHANGED ibkrVars
    /\ IF source = "market data" THEN FeedsNext ELSE UNCHANGED feedVars

SourcesSpec == SourcesInit /\ [][SourcesNext]_<<source, ibkrVars, feedVars>>

-----------------------------------------------------------------------------
SourcesTypeOK ==
    /\ source = "ibkr" => IbkrTypeOK
    /\ source = "market data" => FeedsTypeOK
=============================================================================
