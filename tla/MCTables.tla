------------------------------ MODULE MCTables ------------------------------
(***************************************************************************)
(* Five parts of the system around the tables, in one instance: prices and *)
(* snapshots, derived figures, documents, imports, and the ledgers.  As in *)
(* MCServices a behaviour runs one of them, chosen at the start.           *)
(***************************************************************************)
EXTENDS Heal, DerivationCache, Receipts, Imports, Ledger, TLC

CONSTANTS
    csv, pdf, t1, t2, r1, r2, r3                           \* of Imports

VARIABLE part

(* A file and a document with one trade in common.                         *)
MCDrafts == (csv :> {t1, t2}) @@ (pdf :> {t1})

tablesVars == <<part, healVars, cacheVars, receiptVars, vars, ledgerVars>>

-----------------------------------------------------------------------------
TablesInit ==
    /\ part \in {"history", "figures", "documents", "imports", "books"}
    /\ HealInit /\ (part # "history" => feed = {})
    /\ CacheInit
    /\ ReceiptsInit /\ (part # "documents" => \A d \in Docs : name[d] = d)
    /\ LedgerInit
    /\ Init /\ (part # "imports" => \A r \in Requests : req[r].import = csv)

(* Of two requests that differ in name only, the one named first comes     *)
(* first; the last request is one that removes.                            *)
InOrder ==
    /\ req'[r2].pc # "new" => req'[r1].pc # "new"
    /\ req'[r3].pc # "new" => req'[r3].kind \in {"discard", "undo", "clear"}

TablesNext ==
    /\ UNCHANGED part
    /\ IF part = "history" THEN HealNext ELSE UNCHANGED healVars
    /\ IF part = "figures" THEN CacheNext ELSE UNCHANGED cacheVars
    /\ IF part = "documents" THEN ReceiptsNext ELSE UNCHANGED receiptVars
    /\ IF part = "imports" THEN Next /\ InOrder ELSE UNCHANGED vars
    /\ IF part = "books" THEN LedgerNext ELSE UNCHANGED ledgerVars

TablesSpec == TablesInit /\ [][TablesNext]_tablesVars

-----------------------------------------------------------------------------
TablesTypeOK ==
    /\ part = "history" => HealTypeOK
    /\ part = "figures" => CacheTypeOK
    /\ part = "documents" => ReceiptsTypeOK
    /\ part = "imports" => TypeOK
    /\ part = "books" => LedgerTypeOK
=============================================================================
