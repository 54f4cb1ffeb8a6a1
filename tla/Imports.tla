------------------------------ MODULE Imports -------------------------------
(***************************************************************************)
(* The imports of a user and the rows they write (the routes under         *)
(* /imports, classifyDraftDuplicates and writeResolvedDrafts), with        *)
(* several requests under way at once.                                     *)
(*                                                                         *)
(* A request reads its import first; later it writes, on what it had read. *)
(* The writing transaction locks the row of the portfolio, classifies the  *)
(* drafts against the rows of other imports, and writes.  The imports here *)
(* are files of different sources, so that their rows have different keys  *)
(* in the unique index; their drafts carry stable ids.                     *)
(*                                                                         *)
(* A trade is the same in all imports that hold it.  forced and done are   *)
(* history.                                                                *)
(***************************************************************************)
EXTENDS Naturals, FiniteSets

CONSTANTS
    Imports, Trades, Portfolios,
    Requests,       \* bound: requests, each made once
    Drafts,         \* the trades of each import
    Documented,     \* imports with a staged document
    NoImport, NoRequest

ASSUME ImportsAssumption ==
    Drafts \in [Imports -> SUBSET Trades] /\ NoRequest \notin Requests

VARIABLES
    status, staged,  \* screenshot_imports: its status and what is left to confirm
    rows,            \* transactions
    lock,            \* who has the row of a portfolio FOR UPDATE
    req,             \* the requests
    forced,          \* history: acknowledged duplicates of rows that count
    done             \* history: trades of an import that were written or absorbed

vars == <<status, staged, rows, lock, req, forced, done>>

-----------------------------------------------------------------------------
Kinds == {"confirm", "materialize", "discard", "undo", "clear"}
Steps == {"new", "read", "locked", "written", "removed", "over"}

Row == [portfolio: Portfolios, trade: Trades, key: Imports,
        import: Imports \cup {NoImport}, status: {"draft", "normal"}]

Request == [pc: Steps, kind: Kinds, import: Imports, portfolio: Portfolios,
            chosen: SUBSET Trades, acknowledged: BOOLEAN, staged: SUBSET Trades,
            write: SUBSET Trades, enrich: SUBSET Trades]

TypeOK ==
    /\ status \in [Imports -> {"draft", "confirmed", "discarded", "gone"}]
    /\ staged \in [Imports -> SUBSET Trades]
    /\ rows \subseteq Row
    /\ lock \in [Portfolios -> Requests \cup {NoRequest}]
    /\ req \in [Requests -> Request]
    /\ \A p \in Portfolios : lock[p] # NoRequest => req[lock[p]].pc = "locked"
    /\ forced \subseteq (Portfolios \X Trades)
    /\ done \in [Imports -> SUBSET Trades]

Init ==
    /\ status = [i \in Imports |-> "draft"] /\ staged = Drafts
    /\ rows = {} /\ lock = [p \in Portfolios |-> NoRequest]
    /\ req \in [Requests -> {[pc |-> "new", kind |-> "confirm", import |-> i,
                              portfolio |-> p, chosen |-> {}, acknowledged |-> FALSE,
                              staged |-> {}, write |-> {}, enrich |-> {}] :
                                 i \in Imports, p \in Portfolios}]
    /\ forced = {} /\ done = [i \in Imports |-> {}]

Goes(r, to) == req' = [req EXCEPT ![r].pc = to]
Ends(r) == Goes(r, "over")

-----------------------------------------------------------------------------
(* A request comes in and reads its import.                                *)

MayStart(kind, i) ==
    CASE kind \in {"confirm", "materialize", "discard"} -> status[i] \in {"draft", "discarded"}
      [] kind = "undo"  -> status[i] # "gone"
      [] kind = "clear" -> status[i] = "discarded"

Call(r, kind, i, p, chosen, acknowledged) ==
    /\ req[r].pc = "new" /\ MayStart(kind, i)
    /\ req[r].import = i /\ req[r].portfolio = p
    /\ kind = "confirm" => chosen # {} /\ chosen \subseteq Drafts[i]
    /\ kind = "materialize" => chosen = staged[i] /\ chosen # {}
    /\ kind \in {"discard", "undo", "clear"} => chosen = {} /\ ~acknowledged
    /\ req' = [req EXCEPT ![r].pc = "read", ![r].kind = kind, ![r].chosen = chosen,
                          ![r].acknowledged = acknowledged, ![r].staged = staged[i]]
    /\ UNCHANGED <<status, staged, rows, lock, forced, done>>

-----------------------------------------------------------------------------
(* Confirm and materialise: SELECT ... FOR UPDATE of the portfolio, then   *)
(* the classification of the chosen drafts.                                *)

RowsOf(r) == {x \in rows : x.portfolio = req[r].portfolio}

(* The unique index (portfolio, source, external id).                      *)
Exists(r, t) == \E x \in RowsOf(r) : x.trade = t /\ x.key = req[r].import

Pending(r, t)   == \E x \in RowsOf(r) : x.trade = t /\ x.status = "draft"
Committed(r, t) ==
    /\ \E x \in RowsOf(r) : x.trade = t /\ x.status = "normal"
    /\ ~\E x \in RowsOf(r) : x.trade = t /\ x.key = req[r].import /\ x.status = "normal"

Enrichments(r) ==
    {t \in req[r].chosen : req[r].import \in Documented /\ Committed(r, t) /\ ~Pending(r, t)}
PlainDuplicates(r) ==
    {t \in req[r].chosen : req[r].import \notin Documented /\ Committed(r, t) /\ ~Pending(r, t)}
PendingDuplicates(r) == {t \in req[r].chosen : Pending(r, t)}

(* decideDuplicates: the blanket acknowledgement clears plain duplicates   *)
(* only.                                                                   *)
Blocked(r) ==
    PendingDuplicates(r) # {} \/ (PlainDuplicates(r) # {} /\ ~req[r].acknowledged)

NoLock(p) == TRUE                       \* bug: classified outside the transaction
LockFree(p) == lock[p] = NoRequest

Classify(r) ==
    /\ req[r].pc = "read" /\ req[r].kind \in {"confirm", "materialize"}
    /\ LockFree(req[r].portfolio)
    /\ IF Blocked(r)
       THEN Ends(r) /\ UNCHANGED <<lock, forced>>                     \* 409
       ELSE /\ req' = [req EXCEPT ![r].pc = "locked", ![r].enrich = Enrichments(r),
                                  ![r].write = req[r].chosen \ Enrichments(r)]
            /\ lock' = [lock EXCEPT ![req[r].portfolio] = r]
            /\ forced' = forced \cup {<<req[r].portfolio, t>> : t \in PlainDuplicates(r)}
    /\ UNCHANGED <<status, staged, rows, done>>

NewRows(r, s) ==
    {[portfolio |-> req[r].portfolio, trade |-> t, key |-> req[r].import,
      import |-> req[r].import, status |-> s] : t \in {u \in req[r].write : ~Exists(r, u)}}

Unlock(r) == lock' = [lock EXCEPT ![req[r].portfolio] = NoRequest]

Writes(r, s) ==
    /\ rows' = rows \cup NewRows(r, s)
    /\ done' = [done EXCEPT ![req[r].import] = @ \cup req[r].write \cup req[r].enrich]
    /\ UNCHANGED forced

(* The import was cleared in between: the foreign key of a new row fails.  *)
ImportGone(r) ==
    /\ req[r].pc = "locked" /\ status[req[r].import] = "gone" /\ NewRows(r, "draft") # {}
    /\ Unlock(r) /\ Ends(r)
    /\ UNCHANGED <<status, staged, rows, forced, done>>

(* Pass-based confirm: what was staged when the request read it, less what *)
(* is confirmed, stays; without a rest the import is closed.               *)
Rest(r) == req[r].staged \ req[r].chosen

ConfirmWrites(r) ==
    LET i == req[r].import IN
    /\ req[r].pc = "locked" /\ req[r].kind = "confirm"
    /\ status[i] # "gone" \/ NewRows(r, "normal") = {}
    /\ Writes(r, "normal")
    /\ IF status[i] = "gone" THEN UNCHANGED <<status, staged>>
       ELSE IF Rest(r) # {}
       THEN staged' = [staged EXCEPT ![i] = Rest(r)] /\ UNCHANGED status
       ELSE status' = [status EXCEPT ![i] = "confirmed"] /\ UNCHANGED staged
    /\ Unlock(r) /\ Ends(r)

(* Materialise writes all drafts as pending rows; the import is closed in  *)
(* a statement of its own.                                                 *)
MaterializeWrites(r) ==
    LET i == req[r].import IN
    /\ req[r].pc = "locked" /\ req[r].kind = "materialize"
    /\ status[i] # "gone" \/ NewRows(r, "draft") = {}
    /\ Writes(r, "draft")
    /\ Unlock(r) /\ Goes(r, "written")
    /\ UNCHANGED <<status, staged>>

MaterializeCloses(r) ==
    LET i == req[r].import IN
    /\ req[r].pc = "written"
    /\ status' = [status EXCEPT ![i] = IF @ = "gone" THEN @ ELSE "confirmed"]
    /\ Ends(r)
    /\ UNCHANGED <<staged, rows, lock, forced, done>>

(* The user confirms a pending row (crud.ts, status).                      *)
ConfirmRow(x) ==
    /\ x \in rows /\ x.status = "draft"
    /\ rows' = (rows \ {x}) \cup {[x EXCEPT !.status = "normal"]}
    /\ UNCHANGED <<status, staged, lock, req, forced, done>>

-----------------------------------------------------------------------------
(* Discard, undo and clear.  Each statement is a step.                     *)

UndoRemovesRows(r) ==
    /\ req[r].pc = "read" /\ req[r].kind = "undo"
    /\ rows' = {x \in rows : x.import # req[r].import}
    /\ Goes(r, "removed")
    /\ UNCHANGED <<status, staged, lock, forced, done>>

Discards(r) ==
    LET i == req[r].import IN
    /\ \/ req[r].pc = "read" /\ req[r].kind = "discard"
       \/ req[r].pc = "removed"
    /\ status' = [status EXCEPT ![i] = IF @ = "gone" THEN @ ELSE "discarded"]
    /\ Ends(r)
    /\ UNCHANGED <<staged, rows, lock, forced, done>>

(* DELETE by id: the rows of the import stay, without it (on delete set    *)
(* null).                                                                  *)
Clears(r) ==
    LET i == req[r].import IN
    /\ req[r].pc = "read" /\ req[r].kind = "clear"
    /\ status' = [status EXCEPT ![i] = "gone"]
    /\ rows' = {IF x.import = i THEN [x EXCEPT !.import = NoImport] ELSE x : x \in rows}
    /\ Ends(r)
    /\ UNCHANGED <<staged, lock, forced, done>>

(* bulk-clear is one statement, with the status in its condition.          *)
BulkClear(i) ==
    /\ status[i] = "discarded"
    /\ status' = [status EXCEPT ![i] = "gone"]
    /\ rows' = {IF x.import = i THEN [x EXCEPT !.import = NoImport] ELSE x : x \in rows}
    /\ UNCHANGED <<staged, lock, req, forced, done>>

Next ==
    \/ \E r \in Requests :
          \/ \E kind \in Kinds, i \in Imports, p \in Portfolios, chosen \in SUBSET Trades,
                acknowledged \in BOOLEAN : Call(r, kind, i, p, chosen, acknowledged)
          \/ Classify(r) \/ ImportGone(r) \/ ConfirmWrites(r)
          \/ MaterializeWrites(r) \/ MaterializeCloses(r)
          \/ UndoRemovesRows(r) \/ Discards(r) \/ Clears(r)
    \/ \E x \in rows : ConfirmRow(x)
    \/ \E i \in Imports : BulkClear(i)

Spec == Init /\ [][Next]_vars

-----------------------------------------------------------------------------
(* Two imports of the same trade, confirmed at the same time from either   *)
(* entry point, do not both write it (confirm.ts, "KNOWN RACE (B11)"),     *)
(* unless the user acknowledged the duplicate.                             *)
NoDoubleTrade ==
    \A x, y \in rows :
        x # y /\ x.portfolio = y.portfolio /\ x.trade = y.trade =>
            <<x.portfolio, x.trade>> \in forced

(* A draft leaves an import only by being written or absorbed, and so an   *)
(* import that is closed has left none behind, whichever requests raced.   *)
NoDraftLost ==
    \A i \in Imports :
        /\ status[i] # "gone" => Drafts[i] \ staged[i] \subseteq done[i]
        /\ status[i] = "confirmed" => Drafts[i] \subseteq done[i]

(* Every draft is written once (confirm.ts:76-130, materialize.ts).        *)
EveryDraftOnce == NoDoubleTrade /\ NoDraftLost
=============================================================================
