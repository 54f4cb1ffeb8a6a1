---------------------------- MODULE TablesProofs ----------------------------
(* Theorems of Imports, for any imports, trades, portfolios and requests;  *)
(* of DerivationCache, for any reads, writes and times to live; of         *)
(* Receipts, for any documents, functions and failures; of Heal, for any   *)
(* days, listings and prices. Those of Ledger are in LedgerProofs.         *)
EXTENDS MCTables, LedgerProofs, WellFoundedInduction, TLAPS

(* The request that works under the lock of its portfolio, and no other,   *)
(* holds it.                                                               *)
LockHeld ==
    /\ \A r \in Requests : req[r].pc = "locked" => lock[req[r].portfolio] = r
    /\ \A p \in Portfolios : lock[p] # NoRequest => req[lock[p]].portfolio = p

(* What a request writes was held by nobody else when it was classified,   *)
(* and still is not, since rows are added under the lock only.             *)
SoleRows(r, t) ==
    \/ <<req[r].portfolio, t>> \in forced
    \/ \A x \in RowsOf(r) : x.trade = t => x.key = req[r].import
WritesAreNew ==
    \A r \in Requests : req[r].pc = "locked" => \A t \in req[r].write : SoleRows(r, t)

(* The unique index: one row of a trade for each import in a portfolio.    *)
Keyed ==
    \A x, y \in rows :
        x.portfolio = y.portfolio /\ x.trade = y.trade /\ x.key = y.key => x = y

RowsInv == TypeOK /\ LockHeld /\ WritesAreNew /\ Keyed /\ NoDoubleTrade

-----------------------------------------------------------------------------
(* What a request was asked for does not change, and one that does not     *)
(* work under the lock stays outside.                                      *)
Outside(r) ==
    \/ req'[r] = req[r]
    \/ /\ req[r].pc # "locked" /\ req'[r].pc # "locked"
       /\ req'[r].import = req[r].import /\ req'[r].portfolio = req[r].portfolio

(* Rows may go or change their import and status, and nothing else.        *)
Relabels(F) ==
    /\ rows' \subseteq {F[x] : x \in rows}
    /\ \A x \in rows :
          /\ F[x] \in Row
          /\ F[x].portfolio = x.portfolio /\ F[x].trade = x.trade /\ F[x].key = x.key

(* Steps that take no lock and add no row keep what is known of the rows.  *)
LEMMA QuietSteps ==
    ASSUME RowsInv, NEW F, Relabels(F), UNCHANGED <<lock, forced>>,
           req' \in [Requests -> Request], \A r \in Requests : Outside(r),
           status' \in [Imports -> {"draft", "confirmed", "discarded", "gone"}],
           staged' \in [Imports -> SUBSET Trades],
           done' \in [Imports -> SUBSET Trades]
    PROVE  RowsInv'
<1>1. TypeOK'
  <2>1. rows' \subseteq Row
    BY DEF Relabels
  <2>2. \A p \in Portfolios : lock'[p] # NoRequest => req'[lock'[p]].pc = "locked"
    BY DEF RowsInv, TypeOK, Outside
  <2> QED BY <2>1, <2>2 DEF RowsInv, TypeOK
<1>2. LockHeld'
  BY DEF RowsInv, TypeOK, LockHeld, Outside
<1>3. WritesAreNew'
  <2> SUFFICES ASSUME NEW r \in Requests, req'[r].pc = "locked",
                      NEW t \in req'[r].write
               PROVE  SoleRows(r, t)'
    BY DEF WritesAreNew
  <2>1. req'[r] = req[r]
    BY DEF Outside
  <2>2. SoleRows(r, t)
    BY <2>1 DEF RowsInv, WritesAreNew
  <2> QED BY <2>1, <2>2 DEF SoleRows, RowsOf, Relabels
<1>4. Keyed'
  BY DEF RowsInv, Keyed, Relabels
<1>5. NoDoubleTrade'
  BY DEF RowsInv, NoDoubleTrade, Relabels
<1> QED BY <1>1, <1>2, <1>3, <1>4, <1>5 DEF RowsInv

(* The identity relabels nothing.                                          *)
LEMMA SameRows ==
    ASSUME RowsInv, rows' \subseteq rows
    PROVE  Relabels([x \in rows |-> x])
BY DEF RowsInv, TypeOK, Relabels

(* A classified draft is new, unless its duplicate was acknowledged.       *)
LEMMA ClassifyKeeps ==
    ASSUME RowsInv, NEW r \in Requests, Classify(r)
    PROVE  RowsInv'
<1>0. /\ req \in [Requests -> Request] /\ req[r] \in Request
      /\ UNCHANGED <<status, staged, rows, done>>
  BY DEF RowsInv, TypeOK, Classify
<1>1. CASE Blocked(r)
  <2>1. req' = [req EXCEPT ![r].pc = "over"] /\ UNCHANGED <<lock, forced>>
    BY <1>1 DEF Classify, Ends, Goes
  <2>2. req' \in [Requests -> Request] /\ \A q \in Requests : Outside(q)
    BY <1>0, <2>1 DEF Request, Steps, Outside, Classify
  <2> QED BY <1>0, <2>1, <2>2, QuietSteps, SameRows DEF RowsInv, TypeOK
<1>2. CASE ~Blocked(r)
  <2> DEFINE p == req[r].portfolio
  <2>1. /\ lock[p] = NoRequest /\ p \in Portfolios
        /\ req' = [req EXCEPT ![r].pc = "locked", ![r].enrich = Enrichments(r),
                              ![r].write = req[r].chosen \ Enrichments(r)]
        /\ lock' = [lock EXCEPT ![p] = r]
        /\ forced' = forced \cup {<<p, t>> : t \in PlainDuplicates(r)}
    BY <1>0, <1>2 DEF Classify, LockFree, Request
  <2>2. TypeOK'
    <3>1. Enrichments(r) \in SUBSET Trades /\ req[r].chosen \in SUBSET Trades
      BY <1>0 DEF Enrichments, Request
    <3>2. req' \in [Requests -> Request]
      BY <1>0, <2>1, <3>1 DEF Request, Steps
    <3>3. forced' \subseteq (Portfolios \X Trades)
      BY <1>0, <2>1, <3>1 DEF RowsInv, TypeOK, PlainDuplicates
    <3>4. lock' \in [Portfolios -> Requests \cup {NoRequest}]
      BY <2>1 DEF RowsInv, TypeOK
    <3>5. \A q \in Portfolios : lock'[q] # NoRequest => req'[lock'[q]].pc = "locked"
      BY <1>0, <2>1 DEF RowsInv, TypeOK
    <3> QED BY <1>0, <3>2, <3>3, <3>4, <3>5 DEF RowsInv, TypeOK
  <2>3. \A q \in Requests : req'[q].portfolio = req[q].portfolio /\ req'[q].import = req[q].import
    BY <1>0, <2>1 DEF Request
  <2>4. LockHeld'
    BY <1>0, <2>1, <2>3, ImportsAssumption DEF RowsInv, TypeOK, LockHeld, Classify
  <2>5. WritesAreNew'
    <3> SUFFICES ASSUME NEW q \in Requests, req'[q].pc = "locked", NEW t \in req'[q].write
                 PROVE  SoleRows(q, t)'
      BY DEF WritesAreNew
    <3>1. CASE q # r
      <4>1. req'[q] = req[q]
        BY <1>0, <2>1, <3>1
      <4>2. SoleRows(q, t)
        BY <4>1 DEF RowsInv, WritesAreNew
      <4> QED BY <1>0, <2>1, <4>1, <4>2 DEF SoleRows, RowsOf
    <3>2. CASE q = r
      <4>1. t \in req[r].chosen /\ t \notin Enrichments(r)
        <5>1. req'[r].write = req[r].chosen \ Enrichments(r)
          BY <1>0, <2>1 DEF Request
        <5> QED BY <3>2, <5>1
      <4>2. CASE t \in PlainDuplicates(r)
        <5>1. <<p, t>> \in forced'
          BY <2>1, <4>2
        <5>2. req'[q].portfolio = p
          BY <2>3, <3>2
        <5> QED BY <5>1, <5>2 DEF SoleRows
      <4>3. CASE t \notin PlainDuplicates(r)
        <5>1. ~Pending(r, t)
          BY <1>2, <4>1 DEF Blocked, PendingDuplicates
        <5>2. ~Committed(r, t)
          BY <4>1, <4>3, <5>1 DEF Enrichments, PlainDuplicates
        <5>3. \A x \in RowsOf(r) : x.trade = t => x.status = "normal"
          BY <5>1 DEF Pending, RowsOf, RowsInv, TypeOK, Row
        <5>4. CASE \E y \in RowsOf(r) : y.trade = t /\ y.key = req[r].import
          BY <1>0, <2>1, <2>3, <3>2, <5>4 DEF SoleRows, RowsOf, RowsInv, NoDoubleTrade
        <5>5. CASE ~\E y \in RowsOf(r) : y.trade = t /\ y.key = req[r].import
          BY <1>0, <2>3, <3>2, <5>2, <5>3, <5>5 DEF SoleRows, RowsOf, Committed
        <5> QED BY <5>4, <5>5
      <4> QED BY <4>2, <4>3
    <3> QED BY <3>1, <3>2
  <2>6. Keyed' /\ NoDoubleTrade'
    BY <1>0, <2>1 DEF RowsInv, Keyed, NoDoubleTrade
  <2> QED BY <2>2, <2>4, <2>5, <2>6 DEF RowsInv
<1> QED BY <1>1, <1>2

(* A request leaves the lock: without a row, or with those it was to write.*)
LEMMA WritingKeeps ==
    ASSUME RowsInv, NEW r \in Requests, req[r].pc = "locked",
           NEW to \in {"written", "over"}, Goes(r, to), Unlock(r),
           NEW s \in {"draft", "normal"}, NEW new, new \subseteq NewRows(r, s),
           rows' = rows \cup new, UNCHANGED forced,
           status' \in [Imports -> {"draft", "confirmed", "discarded", "gone"}],
           staged' \in [Imports -> SUBSET Trades],
           done' \in [Imports -> SUBSET Trades]
    PROVE  RowsInv'
<1> DEFINE p == req[r].portfolio
<1>0. /\ req \in [Requests -> Request] /\ req[r] \in Request /\ p \in Portfolios
      /\ lock \in [Portfolios -> Requests \cup {NoRequest}]
      /\ req' = [req EXCEPT ![r].pc = to] /\ lock' = [lock EXCEPT ![p] = NoRequest]
  BY DEF RowsInv, TypeOK, Goes, Unlock, Request
<1>1. \A x \in new :
         /\ x \in Row /\ x.portfolio = p /\ x.key = req[r].import
         /\ x.trade \in req[r].write /\ ~Exists(r, x.trade)
  BY <1>0 DEF NewRows, Row, Request
<1>2. \A q \in Requests \ {r} : req'[q] = req[q]
  BY <1>0
<1>3. \A q \in Requests \ {r} : req[q].pc = "locked" => req[q].portfolio # p
  BY DEF RowsInv, LockHeld
<1>4. TypeOK'
  <2>1. req' \in [Requests -> Request]
    BY <1>0 DEF Request, Steps
  <2>2. \A q \in Portfolios : lock'[q] # NoRequest => req'[lock'[q]].pc = "locked"
    BY <1>0, <1>2 DEF RowsInv, TypeOK, LockHeld
  <2>3. lock' \in [Portfolios -> Requests \cup {NoRequest}] /\ rows' \subseteq Row
    BY <1>0, <1>1 DEF RowsInv, TypeOK
  <2> QED BY <2>1, <2>2, <2>3 DEF RowsInv, TypeOK
<1>5. \A q \in Requests : req'[q].portfolio = req[q].portfolio
  BY <1>0 DEF Request
<1>6. LockHeld'
  BY <1>0, <1>2, <1>3, <1>5, ImportsAssumption DEF RowsInv, TypeOK, LockHeld
<1>7. WritesAreNew'
  <2> SUFFICES ASSUME NEW q \in Requests, req'[q].pc = "locked", NEW t \in req'[q].write
               PROVE  SoleRows(q, t)'
    BY DEF WritesAreNew
  <2>1. q # r
    BY <1>0 DEF Request
  <2>2. req'[q] = req[q] /\ req[q].portfolio # p
    BY <1>2, <1>3, <2>1
  <2>3. SoleRows(q, t)
    BY <2>2 DEF RowsInv, WritesAreNew
  <2> QED BY <1>1, <2>2, <2>3 DEF SoleRows, RowsOf
<1>8. \A x \in new, y \in rows :
         x.portfolio = y.portfolio /\ x.trade = y.trade =>
            y.key # x.key /\ <<x.portfolio, x.trade>> \in forced
  <2> SUFFICES ASSUME NEW x \in new, NEW y \in rows,
                      x.portfolio = y.portfolio, x.trade = y.trade
               PROVE  y.key # x.key /\ <<x.portfolio, x.trade>> \in forced
    OBVIOUS
  <2>1. y.key # x.key /\ y \in RowsOf(r)
    BY <1>1 DEF Exists, RowsOf
  <2>2. SoleRows(r, x.trade)
    BY <1>1 DEF RowsInv, WritesAreNew
  <2> QED BY <1>1, <2>1, <2>2 DEF SoleRows
<1>9. \A x, y \in new : x.trade = y.trade => x = y
  BY DEF NewRows
<1>10. Keyed'
  BY <1>8, <1>9 DEF RowsInv, Keyed
<1>11. NoDoubleTrade'
  BY <1>8, <1>9 DEF RowsInv, NoDoubleTrade
<1> QED BY <1>4, <1>6, <1>7, <1>10, <1>11 DEF RowsInv

(* What a request chose is written or absorbed under the lock, and what it *)
(* found missing from the staged drafts was written or absorbed before.    *)
DraftsOf(r) ==
    LET i == req[r].import IN
    /\ req[r].pc # "new" /\ status[i] # "gone" =>
          Drafts[i] \ req[r].staged \subseteq done[i]
    /\ req[r].pc = "locked" =>
          /\ req[r].kind \in {"confirm", "materialize"}
          /\ req[r].chosen \subseteq req[r].write \cup req[r].enrich
    /\ req[r].kind = "materialize" /\ req[r].pc \in {"read", "locked"} =>
          req[r].chosen = req[r].staged
    /\ req[r].pc = "written" /\ status[i] # "gone" => Drafts[i] \subseteq done[i]
ChosenAreDone == \A r \in Requests : DraftsOf(r)

DraftsInv == TypeOK /\ ChosenAreDone /\ NoDraftLost

LEMMA InitHolds == ASSUME Init PROVE RowsInv /\ DraftsInv
<1>1. TypeOK
  <2>1. req \in [Requests -> Request]
    <3>1. \A i \in Imports, p \in Portfolios :
             [pc |-> "new", kind |-> "confirm", import |-> i, portfolio |-> p,
              chosen |-> {}, acknowledged |-> FALSE, staged |-> {}, write |-> {},
              enrich |-> {}] \in Request
      BY DEF Request, Steps, Kinds
    <3> QED BY <3>1 DEF Init
  <2> QED BY <2>1, ImportsAssumption DEF Init, TypeOK
<1>2. RowsInv
  BY <1>1, ImportsAssumption DEF Init, RowsInv, LockHeld, WritesAreNew, Keyed, NoDoubleTrade
<1>3. DraftsInv
  BY <1>1 DEF Init, DraftsInv, ChosenAreDone, DraftsOf, NoDraftLost
<1> QED BY <1>2, <1>3

(* Every step of Next on the rows.                                         *)
LEMMA RowsStep ==
    ASSUME RowsInv, [Next]_vars
    PROVE  RowsInv'
<1>0. /\ req \in [Requests -> Request]
      /\ status \in [Imports -> {"draft", "confirmed", "discarded", "gone"}]
      /\ staged \in [Imports -> SUBSET Trades]
      /\ done \in [Imports -> SUBSET Trades]
      /\ rows \subseteq Row
  BY DEF RowsInv, TypeOK
<1>1. CASE UNCHANGED vars
  BY <1>0, <1>1, QuietSteps, SameRows DEF vars, Outside
<1>2. ASSUME NEW r \in Requests, NEW kind \in Kinds, NEW i \in Imports,
             NEW p \in Portfolios, NEW chosen \in SUBSET Trades,
             NEW acknowledged \in BOOLEAN, Call(r, kind, i, p, chosen, acknowledged)
      PROVE  RowsInv'
  <2> DEFINE called == [req[r] EXCEPT !.pc = "read", !.kind = kind, !.chosen = chosen,
                          !.acknowledged = acknowledged, !.staged = staged[i]]
  <2>1. req' = [req EXCEPT ![r] = called]
    BY <1>2 DEF Call
  <2>2. called \in Request /\ called.pc = "read" /\ called.import = req[r].import
        /\ called.portfolio = req[r].portfolio
    <3>1. req[r] \in Request /\ staged[i] \in SUBSET Trades
      BY <1>0
    <3> QED BY <3>1 DEF Request, Steps
  <2>3. req' \in [Requests -> Request] /\ \A q \in Requests : Outside(q)
    <3> HIDE DEF called
    <3>1. req' \in [Requests -> Request]
      BY <1>0, <2>1, <2>2
    <3>2. Outside(r)
      BY <1>0, <1>2, <2>1, <2>2 DEF Call, Outside
    <3>3. \A q \in Requests \ {r} : Outside(q)
      BY <1>0, <2>1 DEF Outside
    <3> QED BY <3>1, <3>2, <3>3
  <2> QED BY <1>0, <1>2, <2>3, QuietSteps, SameRows DEF Call
<1>3. ASSUME NEW r \in Requests, ImportGone(r)
      PROVE  RowsInv'
  <2>1. {} \subseteq NewRows(r, "draft") /\ rows' = rows \cup {}
    BY <1>3 DEF ImportGone
  <2> QED BY <1>0, <1>3, <2>1, WritingKeeps DEF ImportGone, Ends
<1>4. ASSUME NEW r \in Requests, ConfirmWrites(r)
      PROVE  RowsInv'
  <2>1. req[r] \in Request
    BY <1>0
  <2>2. done' \in [Imports -> SUBSET Trades]
    BY <1>0, <1>4, <2>1 DEF ConfirmWrites, Writes, Request
  <2>3. /\ status' \in [Imports -> {"draft", "confirmed", "discarded", "gone"}]
        /\ staged' \in [Imports -> SUBSET Trades]
    BY <1>0, <1>4, <2>1 DEF ConfirmWrites, Rest, Request
  <2> QED BY <1>4, <2>2, <2>3, WritingKeeps DEF ConfirmWrites, Writes, Ends
<1>5. ASSUME NEW r \in Requests, MaterializeWrites(r)
      PROVE  RowsInv'
  <2>1. req[r] \in Request
    BY <1>0
  <2>2. done' \in [Imports -> SUBSET Trades]
    BY <1>0, <1>5, <2>1 DEF MaterializeWrites, Writes, Request
  <2> QED BY <1>0, <1>5, <2>2, WritingKeeps DEF MaterializeWrites, Writes
<1>6. ASSUME NEW r \in Requests, MaterializeCloses(r) \/ Discards(r)
      PROVE  RowsInv'
  <2>1. req' \in [Requests -> Request] /\ \A q \in Requests : Outside(q)
    BY <1>0, <1>6 DEF MaterializeCloses, Discards, Ends, Goes, Request, Steps, Outside
  <2> QED BY <1>0, <1>6, <2>1, QuietSteps, SameRows DEF MaterializeCloses, Discards
<1>7. ASSUME NEW r \in Requests, UndoRemovesRows(r)
      PROVE  RowsInv'
  <2>1. req' \in [Requests -> Request] /\ \A q \in Requests : Outside(q)
    BY <1>0, <1>7 DEF UndoRemovesRows, Goes, Request, Steps, Outside
  <2> QED BY <1>0, <1>7, <2>1, QuietSteps, SameRows DEF UndoRemovesRows
<1> DEFINE Orphaned(i) ==
      [x \in rows |-> IF x.import = i THEN [x EXCEPT !.import = NoImport] ELSE x]
<1>8. ASSUME NEW i \in Imports,
             rows' = {IF x.import = i THEN [x EXCEPT !.import = NoImport] ELSE x : x \in rows}
      PROVE  Relabels(Orphaned(i))
  BY <1>0, <1>8 DEF Relabels, Row
<1>9. ASSUME NEW r \in Requests, Clears(r)
      PROVE  RowsInv'
  <2>1. req' \in [Requests -> Request] /\ \A q \in Requests : Outside(q)
    BY <1>0, <1>9 DEF Clears, Ends, Goes, Request, Steps, Outside
  <2>2. req[r].import \in Imports
    BY <1>0 DEF Request
  <2>3. Relabels(Orphaned(req[r].import))
    BY <1>8, <1>9, <2>2 DEF Clears
  <2> QED BY <1>0, <1>9, <2>1, <2>3, QuietSteps DEF Clears
<1>10. ASSUME NEW i \in Imports, BulkClear(i)
       PROVE  RowsInv'
  <2>1. Relabels(Orphaned(i))
    BY <1>8, <1>10 DEF BulkClear
  <2> QED BY <1>0, <1>10, <2>1, QuietSteps DEF BulkClear, Outside
<1>11. ASSUME NEW x \in rows, ConfirmRow(x)
       PROVE  RowsInv'
  <2> DEFINE F == [y \in rows |-> IF y = x THEN [x EXCEPT !.status = "normal"] ELSE y]
  <2>1. Relabels(F)
    BY <1>0, <1>11 DEF ConfirmRow, Relabels, Row
  <2> QED BY <1>0, <1>11, <2>1, QuietSteps DEF ConfirmRow, Outside
<1> QED BY <1>1, <1>2, <1>3, <1>4, <1>5, <1>6, <1>7, <1>9, <1>10, <1>11, ClassifyKeeps
        DEF Next

-----------------------------------------------------------------------------
(* Requests that do not change keep what is known of their drafts, however *)
(* much more is done.                                                      *)
MoreIsDone ==
    \A i \in Imports :
        done[i] \subseteq done'[i] /\ (status[i] = "gone" => status'[i] = "gone")

(* An import is closed only when its drafts are done.                      *)
ClosesOnly(i) ==
    \A j \in Imports :
        status'[j] = "confirmed" =>
            status[j] = "confirmed" \/ (j = i /\ Drafts[j] \subseteq done[j])

LEMMA OthersKeepDrafts ==
    ASSUME TypeOK, ChosenAreDone, MoreIsDone, NEW q \in Requests, req'[q] = req[q]
    PROVE  DraftsOf(q)'
<1>1. DraftsOf(q) /\ req[q].import \in Imports
  BY DEF ChosenAreDone, DraftsOf, TypeOK, Request
<1> QED BY <1>1 DEF DraftsOf, MoreIsDone

(* Every step of Next on the drafts.                                       *)
LEMMA DraftsStep ==
    ASSUME DraftsInv, [Next]_vars
    PROVE  ChosenAreDone' /\ NoDraftLost'
<1>0. /\ req \in [Requests -> Request]
      /\ status \in [Imports -> {"draft", "confirmed", "discarded", "gone"}]
      /\ staged \in [Imports -> SUBSET Trades]
      /\ done \in [Imports -> SUBSET Trades]
      /\ \A q \in Requests : req[q].import \in Imports
      /\ Drafts \in [Imports -> SUBSET Trades]
      /\ TypeOK /\ ChosenAreDone /\ NoDraftLost
  BY ImportsAssumption DEF DraftsInv, TypeOK, Request
<1>1. CASE UNCHANGED vars
  BY <1>0, <1>1 DEF vars, ChosenAreDone, DraftsOf, NoDraftLost
<1>2. ASSUME NEW r \in Requests, NEW kind \in Kinds, NEW i \in Imports,
             NEW p \in Portfolios, NEW chosen \in SUBSET Trades,
             NEW acknowledged \in BOOLEAN, Call(r, kind, i, p, chosen, acknowledged)
      PROVE  ChosenAreDone' /\ NoDraftLost'
  <2>1. MoreIsDone /\ UNCHANGED <<status, staged, done>>
    BY <1>2 DEF Call, MoreIsDone
  <2>2. \A q \in Requests \ {r} : DraftsOf(q)'
    BY <1>0, <1>2, <2>1, OthersKeepDrafts DEF Call
  <2>3. DraftsOf(r)'
    <3>1. req'[r] = [req[r] EXCEPT !.pc = "read", !.kind = kind, !.chosen = chosen,
                        !.acknowledged = acknowledged, !.staged = staged[i]]
      BY <1>0, <1>2 DEF Call
    <3>2. /\ req'[r].pc = "read" /\ req'[r].kind = kind /\ req'[r].chosen = chosen
          /\ req'[r].staged = staged[i] /\ req'[r].import = i
      BY <1>0, <1>2, <3>1 DEF Call, Request
    <3>3. kind = "materialize" => chosen = staged[i]
      BY <1>2 DEF Call
    <3> QED BY <1>0, <2>1, <3>2, <3>3 DEF DraftsOf, NoDraftLost
  <2> QED BY <1>0, <2>1, <2>2, <2>3 DEF ChosenAreDone, NoDraftLost
<1>3. ASSUME NEW r \in Requests, Classify(r)
      PROVE  ChosenAreDone' /\ NoDraftLost'
  <2>1. MoreIsDone /\ UNCHANGED <<status, staged, done>>
    BY <1>3 DEF Classify, MoreIsDone
  <2>2. \A q \in Requests \ {r} : DraftsOf(q)'
    BY <1>0, <1>3, <2>1, OthersKeepDrafts DEF Classify, Ends, Goes
  <2>3. DraftsOf(r)'
    <3>1. CASE Blocked(r)
      <4>1. req'[r] = [req[r] EXCEPT !.pc = "over"]
        BY <1>0, <1>3, <3>1 DEF Classify, Ends, Goes
      <4> QED BY <1>0, <1>3, <2>1, <4>1 DEF DraftsOf, ChosenAreDone, Classify, Request
    <3>2. CASE ~Blocked(r)
      <4>1. req'[r] = [req[r] EXCEPT !.pc = "locked", !.enrich = Enrichments(r),
                                     !.write = req[r].chosen \ Enrichments(r)]
        BY <1>0, <1>3, <3>2 DEF Classify
      <4> QED BY <1>0, <1>3, <2>1, <4>1 DEF DraftsOf, ChosenAreDone, Classify, Request
    <3> QED BY <3>1, <3>2
  <2> QED BY <1>0, <2>1, <2>2, <2>3 DEF ChosenAreDone, NoDraftLost
<1>4. ASSUME NEW r \in Requests, NEW to \in {"over", "removed"}, Goes(r, to),
             req[r].pc # "new", MoreIsDone, UNCHANGED staged, ClosesOnly(req[r].import)
      PROVE  ChosenAreDone' /\ NoDraftLost'
  <2>1. req'[r] = [req[r] EXCEPT !.pc = to]
    BY <1>0, <1>4 DEF Goes
  <2>2. \A q \in Requests \ {r} : DraftsOf(q)'
    BY <1>0, <1>4, OthersKeepDrafts DEF Goes
  <2>3. DraftsOf(r)'
    BY <1>0, <1>4, <2>1 DEF DraftsOf, ChosenAreDone, Request, MoreIsDone
  <2>4. NoDraftLost'
    BY <1>0, <1>4 DEF NoDraftLost, MoreIsDone, ClosesOnly
  <2> QED BY <2>2, <2>3, <2>4 DEF ChosenAreDone
<1>5. ASSUME NEW r \in Requests, ImportGone(r) \/ UndoRemovesRows(r)
      PROVE  ChosenAreDone' /\ NoDraftLost'
  <2>1. /\ req[r].pc # "new" /\ UNCHANGED <<status, staged, done>>
        /\ Goes(r, "over") \/ Goes(r, "removed")
    BY <1>5 DEF ImportGone, UndoRemovesRows, Ends
  <2>2. MoreIsDone /\ ClosesOnly(req[r].import)
    BY <2>1 DEF MoreIsDone, ClosesOnly
  <2> QED BY <1>4, <2>1, <2>2
<1>6. ASSUME NEW r \in Requests, Discards(r) \/ Clears(r)
      PROVE  ChosenAreDone' /\ NoDraftLost'
  <2>1. req[r].pc # "new" /\ UNCHANGED <<staged, done>> /\ Goes(r, "over")
    BY <1>6 DEF Discards, Clears, Ends
  <2>2. \A i \in Imports : (status[i] = "gone" => status'[i] = "gone")
                          /\ (status'[i] = "confirmed" => status[i] = "confirmed")
    BY <1>0, <1>6 DEF Discards, Clears
  <2>3. MoreIsDone /\ ClosesOnly(req[r].import)
    BY <2>1, <2>2 DEF MoreIsDone, ClosesOnly
  <2> QED BY <1>4, <2>1, <2>3
<1>7. ASSUME NEW r \in Requests, MaterializeCloses(r)
      PROVE  ChosenAreDone' /\ NoDraftLost'
  <2>1. req[r].pc = "written" /\ UNCHANGED <<staged, done>> /\ Goes(r, "over")
    BY <1>7 DEF MaterializeCloses, Ends
  <2>2. \A i \in Imports : status[i] = "gone" => status'[i] = "gone"
    BY <1>0, <1>7 DEF MaterializeCloses
  <2>3. ClosesOnly(req[r].import)
    BY <1>0, <1>7, <2>1 DEF MaterializeCloses, ChosenAreDone, DraftsOf, ClosesOnly
  <2>4. MoreIsDone
    BY <2>1, <2>2 DEF MoreIsDone
  <2> QED BY <1>4, <2>1, <2>3, <2>4
<1>8. ASSUME NEW r \in Requests, ConfirmWrites(r) \/ MaterializeWrites(r)
      PROVE  /\ MoreIsDone /\ req[r].pc = "locked"
             /\ req[r].chosen \subseteq done'[req[r].import]
             /\ \A q \in Requests \ {r} : req'[q] = req[q]
  BY <1>0, <1>8 DEF ConfirmWrites, MaterializeWrites, Writes, Ends, Goes, MoreIsDone,
                    ChosenAreDone, DraftsOf
<1>9. ASSUME NEW r \in Requests, ConfirmWrites(r)
      PROVE  ChosenAreDone' /\ NoDraftLost'
  <2> DEFINE i == req[r].import
  <2>1. \A q \in Requests \ {r} : DraftsOf(q)'
    BY <1>0, <1>8, <1>9, OthersKeepDrafts
  <2>2. req'[r] = [req[r] EXCEPT !.pc = "over"]
    BY <1>0, <1>9 DEF ConfirmWrites, Ends, Goes
  <2>3. DraftsOf(r)'
    BY <1>0, <1>8, <1>9, <2>2 DEF DraftsOf, ChosenAreDone, Request, MoreIsDone, ConfirmWrites
  <2>4. status[i] # "gone" => Drafts[i] \ Rest(r) \subseteq done'[i]
    BY <1>0, <1>8, <1>9 DEF ChosenAreDone, DraftsOf, Rest, MoreIsDone
  <2>5. NoDraftLost'
    <3>1. CASE status[i] = "gone"
      BY <1>0, <1>8, <1>9, <3>1 DEF ConfirmWrites, NoDraftLost, MoreIsDone
    <3>2. CASE status[i] # "gone" /\ Rest(r) # {}
      BY <1>0, <1>8, <1>9, <2>4, <3>2 DEF ConfirmWrites, NoDraftLost, MoreIsDone
    <3>3. CASE status[i] # "gone" /\ Rest(r) = {}
      BY <1>0, <1>8, <1>9, <2>4, <3>3 DEF ConfirmWrites, NoDraftLost, MoreIsDone
    <3> QED BY <3>1, <3>2, <3>3
  <2> QED BY <2>1, <2>3, <2>5 DEF ChosenAreDone
<1>10. ASSUME NEW r \in Requests, MaterializeWrites(r)
       PROVE  ChosenAreDone' /\ NoDraftLost'
  <2> DEFINE i == req[r].import
  <2>1. \A q \in Requests \ {r} : DraftsOf(q)'
    BY <1>0, <1>8, <1>10, OthersKeepDrafts
  <2>2. req'[r] = [req[r] EXCEPT !.pc = "written"] /\ UNCHANGED <<status, staged>>
    BY <1>0, <1>10 DEF MaterializeWrites, Goes
  <2>3. status[i] # "gone" => Drafts[i] \subseteq done'[i]
    BY <1>0, <1>8, <1>10 DEF MaterializeWrites, ChosenAreDone, DraftsOf, MoreIsDone
  <2>4. DraftsOf(r)'
    BY <1>0, <1>8, <2>2, <2>3 DEF DraftsOf, ChosenAreDone, Request, MoreIsDone
  <2>5. NoDraftLost'
    BY <1>0, <1>8, <1>10, <2>2 DEF NoDraftLost, MoreIsDone
  <2> QED BY <2>1, <2>4, <2>5 DEF ChosenAreDone
<1>11. ASSUME UNCHANGED <<staged, req, done>>, MoreIsDone,
              \A i \in Imports : status'[i] = "confirmed" => status[i] = "confirmed"
       PROVE  ChosenAreDone' /\ NoDraftLost'
  BY <1>0, <1>11, OthersKeepDrafts DEF ChosenAreDone, NoDraftLost, MoreIsDone
<1>12. ASSUME NEW x \in rows, ConfirmRow(x)
       PROVE  ChosenAreDone' /\ NoDraftLost'
  BY <1>11, <1>12 DEF ConfirmRow, MoreIsDone
<1>13. ASSUME NEW i \in Imports, BulkClear(i)
       PROVE  ChosenAreDone' /\ NoDraftLost'
  BY <1>0, <1>11, <1>13 DEF BulkClear, MoreIsDone
<1> QED BY <1>1, <1>2, <1>3, <1>5, <1>6, <1>7, <1>9, <1>10, <1>12, <1>13 DEF Next

-----------------------------------------------------------------------------
(* Whichever requests race, no trade is written twice that the user did    *)
(* not acknowledge, and no draft leaves its import unwritten               *)
(* (confirm.ts:76-130, materialize.ts).                                    *)
THEOREM DraftsAreWrittenOnce == Spec => []EveryDraftOnce
<1>1. Init => RowsInv /\ DraftsInv
  BY InitHolds
<1>2. RowsInv /\ DraftsInv /\ [Next]_vars => (RowsInv /\ DraftsInv)'
  BY RowsStep, DraftsStep DEF DraftsInv, RowsInv
<1>3. RowsInv /\ DraftsInv => EveryDraftOnce
  BY DEF RowsInv, DraftsInv, EveryDraftOnce
<1> QED BY <1>1, <1>2, <1>3, PTL DEF Spec

-----------------------------------------------------------------------------
(* The derivation cache.  What a promise will hold: what it read, or, as   *)
(* long as it has not asked the database, what is committed by then.       *)
Promised(r) ==
    IF read[r].pc = "computes" /\ ~read[r].queried THEN CommittedWrites ELSE read[r].got

Started(r) == read[r].pc \in {"computes", "valued", "derives", "over"}

WritesInv ==
    /\ flushed \subseteq CommittedWrites
    /\ \A w \in CommittedWrites : made[w] <= clock

(* An entry was put in the map after the last flush, and no later than its *)
(* expiry says.                                                            *)
EntryInv ==
    LET r == valuations.of IN
    r # Nobody =>
        /\ Started(r) /\ flushed \subseteq Promised(r)
        /\ valuations.until <= clock + TTL
        /\ \A w \in CommittedWrites : made[w] + TTL < valuations.until => w \in Promised(r)

(* What a read has to include is in the promise it waits for, or in what   *)
(* it got.                                                                 *)
Waits(r) ==
    read[r].pc = "awaits" =>
        /\ read[r].on \in Reads /\ read[read[r].on].pc \notin {"new", "awaits"}
        /\ Started(read[r].on) => owes[r] \subseteq Promised(read[r].on)
ReadsInv ==
    \A r \in Reads :
        /\ read[r].pc = "new" => ~read[r].queried
        /\ Started(r) => owes[r] \subseteq Promised(r)
        /\ Waits(r)

CacheInv == CacheTypeOK /\ WritesInv /\ EntryInv /\ ReadsInv

LEMMA CacheInvInit == CacheInit => CacheInv
BY CacheAssumption
   DEF CacheInit, CacheInv, CacheTypeOK, WritesInv, EntryInv, ReadsInv, CommittedWrites,
       Started, Waits, NoEntry, NoLog, AllWrites, Ticks, Later

ReadState ==
    [pc: {"new", "computes", "awaits", "valued", "derives", "over", "failed"},
     on: Reads \cup {Nobody}, got: SUBSET AllWrites,
     queried: BOOLEAN, since: Ticks, log: SUBSET AllWrites]

LEMMA ReadIs == CacheTypeOK => read \in [Reads -> ReadState]
BY DEF CacheTypeOK, ReadState

(* A read goes on: what it got or will get stays, a read that awaited      *)
(* another gets what it owes, and the entry of one that fails is dropped.  *)
LEMMA ReadGoes ==
    ASSUME CacheInv, NEW r \in Reads, NEW x \in ReadState,
           read' = [read EXCEPT ![r] = x],
           UNCHANGED <<clock, made, flushed, owes>>,
           tradeLogs' \in [holds: SUBSET AllWrites, until: 0 .. Horizon + TTL],
           valuations' \in {valuations, NoEntry},
           read[r].pc \notin {"new", "failed"}, x.pc \notin {"new", "awaits"},
           x.pc = "failed" => valuations'.of # r,
           x.pc # "failed" /\ Started(r) => Promised(r)' = Promised(r),
           x.pc # "failed" /\ read[r].pc = "awaits" => owes[r] \subseteq x.got /\ x.pc # "computes"
    PROVE  CacheInv'
<1>1. read \in [Reads -> ReadState]
  BY ReadIs DEF CacheInv
<1>2. /\ read' \in [Reads -> ReadState] /\ read'[r] = x
      /\ \A q \in Reads : q # r => read'[q] = read[q]
  BY <1>1
<1>3. CacheTypeOK'
  <2>1. valuations' \in [of: Reads \cup {Nobody}, until: 0 .. Horizon + TTL]
    BY CacheAssumption DEF CacheInv, CacheTypeOK, NoEntry
  <2> QED BY <1>2, <2>1 DEF CacheInv, CacheTypeOK, ReadState, Ticks, Later
<1>4. WritesInv' /\ CommittedWrites' = CommittedWrites
  BY DEF CacheInv, WritesInv, CommittedWrites
<1>5. \A q \in Reads : q # r => Promised(q)' = Promised(q) /\ Started(q)' = Started(q)
  BY <1>2, <1>4 DEF Promised, Started
<1>6. x.pc # "failed" => Started(r)'
  BY <1>2 DEF Started, ReadState
<1>7. read[r].pc = "awaits" \/ Started(r)
  BY <1>1 DEF Started, ReadState
<1>8. EntryInv'
  <2> SUFFICES ASSUME valuations'.of # Nobody
               PROVE  EntryInv'
    BY DEF EntryInv
  <2>1. valuations' = valuations /\ valuations.of \in Reads
    BY DEF CacheInv, CacheTypeOK, NoEntry
  <2>2. Started(valuations.of) /\ flushed \subseteq Promised(valuations.of)
        /\ valuations.until <= clock + TTL
        /\ \A w \in CommittedWrites :
              made[w] + TTL < valuations.until => w \in Promised(valuations.of)
    BY <2>1 DEF CacheInv, EntryInv
  <2>3. Started(valuations.of)' /\ Promised(valuations.of)' = Promised(valuations.of)
    <3>1. CASE valuations.of = r
      BY <1>6, <2>1, <2>2, <3>1
    <3>2. CASE valuations.of # r
      BY <1>5, <2>1, <2>2, <3>2
    <3> QED BY <3>1, <3>2
  <2> QED BY <1>4, <2>1, <2>2, <2>3 DEF EntryInv
<1>9. \A q \in Reads : Waits(q)'
  <2> SUFFICES ASSUME NEW q \in Reads, read'[q].pc = "awaits"
               PROVE  /\ read'[q].on \in Reads /\ read'[read'[q].on].pc \notin {"new", "awaits"}
                      /\ Started(read[q].on)' => owes[q] \subseteq Promised(read[q].on)'
    BY DEF Waits
  <2>1. /\ q # r /\ read[q].pc = "awaits" /\ read'[q].on = read[q].on /\ read[q].on \in Reads
        /\ read[read[q].on].pc \notin {"new", "awaits"}
        /\ Started(read[q].on) => owes[q] \subseteq Promised(read[q].on)
    BY <1>2 DEF CacheInv, ReadsInv, Waits
  <2> DEFINE p == read[q].on
  <2>2. Started(read[q].on)' = Started(p)' /\ Promised(read[q].on)' = Promised(p)'
    OBVIOUS
  <2>4. CASE p = r
    BY <1>2, <1>7, <2>1, <2>4 DEF Started, Promised
  <2>5. CASE p # r
    BY <1>2, <1>5, <2>1, <2>5 DEF Started, Promised
  <2> QED BY <2>4, <2>5
<1>10. ReadsInv'
  <2> SUFFICES ASSUME NEW q \in Reads
               PROVE  /\ read'[q].pc = "new" => ~read'[q].queried
                      /\ Started(q)' => owes[q] \subseteq Promised(q)'
    BY <1>9 DEF ReadsInv
  <2>1. CASE q = r
    <3>1. CASE read[r].pc = "awaits"
      BY <1>2, <2>1, <3>1 DEF Started, Promised
    <3>2. CASE Started(r)
      BY <1>2, <2>1, <3>2 DEF CacheInv, ReadsInv, Started
    <3> QED BY <1>7, <3>1, <3>2
  <2>2. CASE q # r
    BY <1>2, <1>5, <2>2 DEF CacheInv, ReadsInv
  <2> QED BY <2>1, <2>2
<1> QED BY <1>3, <1>4, <1>8, <1>10 DEF CacheInv

(* A read that starts owes what is flushed and what is committed for a     *)
(* time to live; it awaits a promise that includes it, or makes one.       *)
LEMMA ReadStarts ==
    ASSUME CacheInv, NEW r \in Reads, NEW x \in ReadState,
           read[r].pc = "new", x.pc \in {"computes", "awaits"}, x.queried = read[r].queried,
           x.pc = "awaits" => x.on \in Reads /\ Started(x.on) /\ Owed \subseteq Promised(x.on),
           read' = [read EXCEPT ![r] = x], owes' = [owes EXCEPT ![r] = Owed],
           UNCHANGED <<clock, made, flushed, tradeLogs>>
    PROVE  /\ read' \in [Reads -> ReadState] /\ owes' \in [Reads -> SUBSET AllWrites]
           /\ CommittedWrites' = CommittedWrites /\ WritesInv' /\ ReadsInv'
           /\ \A q \in Reads : q # r => Promised(q)' = Promised(q) /\ Started(q)' = Started(q)
           /\ x.pc = "computes" => Started(r)' /\ Promised(r)' = CommittedWrites
<1>1. read \in [Reads -> ReadState] /\ owes \in [Reads -> SUBSET AllWrites]
  BY ReadIs DEF CacheInv, CacheTypeOK
<1>2. Owed \subseteq CommittedWrites /\ CommittedWrites \subseteq AllWrites
  BY DEF CacheInv, WritesInv, Owed, CommittedWrites
<1>3. /\ read' \in [Reads -> ReadState] /\ read'[r] = x
      /\ owes' \in [Reads -> SUBSET AllWrites] /\ owes'[r] = Owed
      /\ \A q \in Reads : q # r => read'[q] = read[q] /\ owes'[q] = owes[q]
  BY <1>1, <1>2
<1>4. WritesInv' /\ CommittedWrites' = CommittedWrites
  BY DEF CacheInv, WritesInv, CommittedWrites
<1>5. \A q \in Reads : q # r => Promised(q)' = Promised(q) /\ Started(q)' = Started(q)
  BY <1>3, <1>4 DEF Promised, Started
<1>6. ~read'[r].queried
  BY <1>3 DEF CacheInv, ReadsInv
<1>7. x.pc = "computes" => Started(r)' /\ Promised(r)' = CommittedWrites
  BY <1>3, <1>4, <1>6 DEF Started, Promised
<1>8. ~Started(r)
  BY DEF Started
<1>9. \A q \in Reads : Waits(q)'
  <2> SUFFICES ASSUME NEW q \in Reads, read'[q].pc = "awaits"
               PROVE  Waits(q)'
    BY DEF Waits
  <2> DEFINE p == read'[q].on
  <2>1. /\ p \in Reads /\ p # r /\ read[p].pc \notin {"new", "awaits"}
        /\ Started(p) => owes'[q] \subseteq Promised(p)
    <3>1. CASE q = r
      BY <1>3, <1>8, <3>1 DEF Started
    <3>2. CASE q # r
      BY <1>3, <3>2 DEF CacheInv, ReadsInv, Waits
    <3> QED BY <3>1, <3>2
  <2>2. ASSUME NEW y \in Reads, y = read'[q].on, y # r
        PROVE  Started(y)' = Started(y) /\ Promised(y)' = Promised(y) /\ read'[y] = read[y]
    BY <1>3, <1>5, <2>2
  <2>3. PICK y \in Reads : y = read'[q].on
    BY <2>1
  <2>4. Started(y)' => owes'[q] \subseteq Promised(y)'
    BY <2>1, <2>2, <2>3
  <2>5. read'[y].pc \notin {"new", "awaits"}
    BY <2>1, <2>2, <2>3
  <2> QED BY <2>3, <2>4, <2>5 DEF Waits, Started, Promised
<1>10. ReadsInv'
  <2> SUFFICES ASSUME NEW q \in Reads
               PROVE  /\ read'[q].pc = "new" => ~read'[q].queried
                      /\ Started(q)' => owes'[q] \subseteq Promised(q)'
    BY <1>9 DEF ReadsInv
  <2>1. CASE q = r
    BY <1>2, <1>3, <1>6, <1>7, <2>1 DEF Started
  <2>2. CASE q # r
    BY <1>3, <1>5, <2>2 DEF CacheInv, ReadsInv
  <2> QED BY <2>1, <2>2
<1> QED BY <1>3, <1>4, <1>5, <1>7, <1>10

LEMMA StartsStep ==
    ASSUME CacheInv, NEW r \in Reads, Hits(r) \/ Misses(r)
    PROVE  CacheInv'
<1>1. read \in [Reads -> ReadState]
  BY ReadIs DEF CacheInv
<1>2. clock \in Nat /\ TTL \in Nat /\ Horizon \in Nat /\ clock <= Horizon
  BY CacheAssumption DEF CacheInv, CacheTypeOK, Ticks
<1>3. \A w \in CommittedWrites : made[w] \in Nat /\ made[w] <= clock
  BY <1>2 DEF CacheInv, CacheTypeOK, WritesInv, CommittedWrites, Later
<1>4. CASE Hits(r)
  <2> DEFINE p == valuations.of
             x == [read[r] EXCEPT !.pc = "awaits", !.on = p]
  <2>1. p \in Reads /\ p # r /\ Started(p) /\ Owed \subseteq Promised(p)
    <3>1. p \in Reads /\ p # Nobody /\ valuations.until \in Nat /\ clock < valuations.until
      BY <1>2, <1>4 DEF Hits, CacheInv, CacheTypeOK, Fresh
    <3>2. Started(p) /\ flushed \subseteq Promised(p)
          /\ \A w \in CommittedWrites : made[w] + TTL < valuations.until => w \in Promised(p)
      BY <3>1 DEF CacheInv, EntryInv
    <3>3. \A w \in CommittedWrites : made[w] + TTL <= clock => w \in Promised(p)
      BY <1>2, <1>3, <3>1, <3>2
    <3> QED BY <1>4, <3>1, <3>2, <3>3 DEF Owed, Started, Hits
  <2>2. x \in ReadState /\ x.pc = "awaits" /\ x.on = p /\ x.queried = read[r].queried
    BY <1>1, <2>1 DEF ReadState
  <2>3. read' = [read EXCEPT ![r] = x]
    BY <1>1, <1>4 DEF Hits
  <2> HIDE DEF x
  <2>4. /\ read' \in [Reads -> ReadState] /\ owes' \in [Reads -> SUBSET AllWrites]
        /\ CommittedWrites' = CommittedWrites /\ WritesInv' /\ ReadsInv'
        /\ \A q \in Reads : q # r => Promised(q)' = Promised(q) /\ Started(q)' = Started(q)
    BY <1>4, <2>1, <2>2, <2>3, ReadStarts DEF Hits
  <2>6. CacheTypeOK'
    BY <1>4, <2>4 DEF CacheInv, CacheTypeOK, ReadState, Hits, Ticks, Later
  <2>7. EntryInv'
    BY <1>4, <2>1, <2>4 DEF Hits, CacheInv, EntryInv
  <2> QED BY <2>4, <2>6, <2>7 DEF CacheInv
<1>5. CASE Misses(r)
  <2> DEFINE x == [read[r] EXCEPT !.pc = "computes"]
  <2>2. x \in ReadState /\ x.pc = "computes" /\ x.queried = read[r].queried
    BY <1>1 DEF ReadState
  <2>3. read' = [read EXCEPT ![r] = x]
    BY <1>1, <1>5 DEF Misses
  <2> HIDE DEF x
  <2>4. /\ read' \in [Reads -> ReadState] /\ owes' \in [Reads -> SUBSET AllWrites]
        /\ CommittedWrites' = CommittedWrites /\ WritesInv' /\ ReadsInv'
        /\ Started(r)' /\ Promised(r)' = CommittedWrites
    BY <1>5, <2>2, <2>3, ReadStarts DEF Misses
  <2>5. valuations' \in [of: Reads \cup {Nobody}, until: 0 .. Horizon + TTL]
        /\ valuations'.of = r /\ valuations'.until = clock + TTL
    BY <1>2, <1>5 DEF Misses
  <2>6. CacheTypeOK'
    BY <1>5, <2>4, <2>5 DEF CacheInv, CacheTypeOK, ReadState, Misses, Ticks, Later
  <2>7. EntryInv'
    BY <1>2, <1>5, <2>4, <2>5 DEF Misses, CacheInv, WritesInv, EntryInv
  <2> QED BY <2>4, <2>6, <2>7 DEF CacheInv
<1> QED BY <1>4, <1>5

-----------------------------------------------------------------------------
(* Time, writes and the flush.                                             *)
LEMMA WriteStep ==
    ASSUME CacheInv, Tick \/ (\E w \in AllWrites : Commit(w) \/ Flush(w))
    PROVE  CacheInv'
<1> USE DEF Ticks, Later
<1>1. read' = read /\ owes' = owes /\ (valuations' = valuations \/ valuations' = NoEntry)
  BY DEF Tick, Commit, Flush, Cleared
<1>2. clock \in Nat /\ TTL \in Nat /\ Horizon \in Nat /\ clock <= Horizon
  BY CacheAssumption DEF CacheInv, CacheTypeOK
<1>3. \A w \in CommittedWrites : made[w] \in Nat /\ made[w] <= clock
  BY <1>2 DEF CacheInv, CacheTypeOK, WritesInv, CommittedWrites
<1>4. CacheTypeOK'
  BY <1>2 DEF CacheInv, CacheTypeOK, Tick, Commit, Flush, Cleared, NoEntry, NoLog
<1>5. /\ CommittedWrites \subseteq CommittedWrites'
      /\ \A w \in CommittedWrites : made'[w] = made[w]
      /\ \A w \in CommittedWrites' : w \notin CommittedWrites => made'[w] = clock
  BY <1>2 DEF CacheInv, CacheTypeOK, CommittedWrites, Tick, Commit, Flush
<1>6. \A w \in CommittedWrites' : made'[w] <= clock'
  BY <1>2, <1>3, <1>5 DEF CacheInv, CacheTypeOK, Tick, Commit, Flush
<1>7. WritesInv'
  BY <1>5, <1>6 DEF CacheInv, WritesInv, Tick, Commit, Flush
<1>8. \A q \in Reads : Started(q)' = Started(q) /\ Promised(q) \subseteq Promised(q)'
  BY <1>1, <1>5 DEF Started, Promised
<1>9. ReadsInv'
  <2>1. \A q \in Reads : Waits(q)'
    BY <1>1, <1>8 DEF CacheInv, ReadsInv, Waits
  <2> QED BY <1>1, <1>8, <2>1 DEF CacheInv, ReadsInv
<1>10. EntryInv'
  <2> SUFFICES ASSUME valuations'.of # Nobody
               PROVE  EntryInv'
    BY DEF EntryInv
  <2>1. valuations' = valuations /\ valuations.of \in Reads /\ flushed' = flushed
    BY <1>1 DEF CacheInv, CacheTypeOK, NoEntry, Tick, Commit, Flush, Cleared
  <2>2. /\ Started(valuations.of) /\ flushed \subseteq Promised(valuations.of)
        /\ valuations.until <= clock + TTL
        /\ \A w \in CommittedWrites :
              made[w] + TTL < valuations.until => w \in Promised(valuations.of)
    BY <2>1 DEF CacheInv, EntryInv
  <2>3. valuations.until \in Nat /\ clock' \in Nat /\ clock <= clock'
    BY <1>2 DEF CacheInv, CacheTypeOK, Tick, Commit, Flush
  <2>4. \A w \in CommittedWrites' :
           made'[w] + TTL < valuations.until => w \in Promised(valuations.of)
    BY <1>2, <1>5, <2>2, <2>3
  <2>5. Started(valuations.of)' /\ Promised(valuations.of) \subseteq Promised(valuations.of)'
    BY <1>1, <1>8, <2>1, <2>2
  <2> QED BY <1>2, <2>1, <2>2, <2>3, <2>4, <2>5 DEF EntryInv
<1> QED BY <1>4, <1>7, <1>9, <1>10 DEF CacheInv

(* The other steps of a read.                                              *)
LEMMA ReadStep ==
    ASSUME CacheInv, NEW r \in Reads,
           Queries(r) \/ Computes(r) \/ Fails(r) \/ Resumes(r)
              \/ LogHits(r) \/ LogMisses(r) \/ Derives(r)
    PROVE  CacheInv'
<1>1. read \in [Reads -> ReadState] /\ read[r] \in ReadState
  BY ReadIs DEF CacheInv
<1>2. /\ CommittedWrites \subseteq AllWrites /\ clock \in Ticks /\ Ticks \subseteq Nat
      /\ tradeLogs \in [holds: SUBSET AllWrites, until: 0 .. Horizon + TTL]
      /\ TTL \in Nat /\ Horizon \in Nat
  BY CacheAssumption DEF CacheInv, CacheTypeOK, CommittedWrites, Ticks
<1>3. Queries(r) \/ Computes(r) \/ Resumes(r) \/ LogHits(r) \/ LogMisses(r) =>
         tradeLogs' = tradeLogs /\ valuations' = valuations
  BY DEF Queries, Computes, Resumes, LogHits, LogMisses
<1>4. CASE Queries(r)
  <2> DEFINE x == [read[r] EXCEPT !.queried = TRUE, !.got = CommittedWrites]
  <2>1. /\ x \in ReadState /\ x.pc = "computes" /\ x.got = CommittedWrites /\ x.queried
        /\ read' = [read EXCEPT ![r] = x]
    BY <1>1, <1>2, <1>4 DEF ReadState, Queries
  <2> HIDE DEF x
  <2>2. Promised(r)' = Promised(r)
    BY <1>1, <1>4, <2>1 DEF Promised, Queries
  <2> QED BY <1>2, <1>3, <1>4, <2>1, <2>2, ReadGoes DEF Queries
<1>5. CASE Computes(r)
  <2> DEFINE x == [read[r] EXCEPT !.pc = "valued"]
  <2>1. /\ x \in ReadState /\ x.pc = "valued" /\ x.got = read[r].got
        /\ read' = [read EXCEPT ![r] = x]
    BY <1>1, <1>5 DEF ReadState, Computes
  <2> HIDE DEF x
  <2>2. Promised(r)' = Promised(r)
    BY <1>1, <1>5, <2>1 DEF Promised, Computes
  <2> QED BY <1>2, <1>3, <1>5, <2>1, <2>2, ReadGoes DEF Computes
<1>6. CASE Fails(r)
  <2> DEFINE x == [read[r] EXCEPT !.pc = "failed"]
  <2>1. x \in ReadState /\ x.pc = "failed" /\ read' = [read EXCEPT ![r] = x]
    BY <1>1, <1>6 DEF ReadState, Fails
  <2> HIDE DEF x
  <2>2. /\ valuations' \in {valuations, NoEntry} /\ valuations'.of # r
        /\ tradeLogs' = tradeLogs
    BY <1>6, CacheAssumption DEF Fails, DroppedOnFailure, NoEntry
  <2> QED BY <1>2, <1>6, <2>1, <2>2, ReadGoes DEF Fails
<1>7. CASE Resumes(r)
  <2>1. /\ read[r].on \in Reads /\ read[read[r].on] \in ReadState
        /\ read[read[r].on].pc \notin {"new", "awaits", "computes"}
        /\ read[r].pc = "awaits"
        /\ Started(read[r].on) => owes[r] \subseteq Promised(read[r].on)
    BY <1>1, <1>7 DEF CacheInv, ReadsInv, Waits, Resumes
  <2>2. CASE read[read[r].on].pc = "failed"
    <3> DEFINE x == [read[r] EXCEPT !.pc = "failed"]
    <3>1. x \in ReadState /\ x.pc = "failed" /\ read' = [read EXCEPT ![r] = x]
      BY <1>1, <1>7, <2>2 DEF ReadState, Resumes
    <3> HIDE DEF x
    <3>2. valuations.of # r
      BY <2>1, CacheAssumption DEF CacheInv, EntryInv, Started
    <3> QED BY <1>2, <1>3, <1>7, <2>1, <3>1, <3>2, ReadGoes DEF Resumes
  <2>3. CASE read[read[r].on].pc # "failed"
    <3> DEFINE x == [read[r] EXCEPT !.pc = "valued", !.got = read[read[r].on].got]
    <3>1. /\ x \in ReadState /\ x.pc = "valued" /\ x.got = read[read[r].on].got
          /\ read' = [read EXCEPT ![r] = x]
      BY <1>1, <1>7, <2>1, <2>3 DEF ReadState, Resumes
    <3> HIDE DEF x
    <3>2. Started(read[r].on) /\ ~Started(r)
      BY <2>1, <2>3 DEF Started, ReadState
    <3>3. owes[r] \subseteq x.got
      BY <2>1, <3>1, <3>2 DEF Promised
    <3> QED BY <1>2, <1>3, <1>7, <2>1, <3>1, <3>2, <3>3, ReadGoes DEF Resumes
  <2> QED BY <2>2, <2>3
<1>8. CASE LogHits(r)
  <2> DEFINE x == [read[r] EXCEPT !.pc = "over", !.log = tradeLogs.holds]
  <2>1. /\ x \in ReadState /\ x.pc = "over" /\ x.got = read[r].got
        /\ read' = [read EXCEPT ![r] = x]
    BY <1>1, <1>2, <1>8 DEF ReadState, LogHits
  <2> HIDE DEF x
  <2>2. Promised(r)' = Promised(r)
    BY <1>1, <1>8, <2>1 DEF Promised, LogHits
  <2> QED BY <1>2, <1>3, <1>8, <2>1, <2>2, ReadGoes DEF LogHits
<1>9. CASE LogMisses(r)
  <2> DEFINE x == [read[r] EXCEPT !.pc = "derives", !.since = clock]
  <2>1. /\ x \in ReadState /\ x.pc = "derives" /\ x.got = read[r].got
        /\ read' = [read EXCEPT ![r] = x]
    BY <1>1, <1>2, <1>9 DEF ReadState, LogMisses
  <2> HIDE DEF x
  <2>2. Promised(r)' = Promised(r)
    BY <1>1, <1>9, <2>1 DEF Promised, LogMisses
  <2> QED BY <1>2, <1>3, <1>9, <2>1, <2>2, ReadGoes DEF LogMisses
<1>10. CASE Derives(r)
  <2> DEFINE x == [read[r] EXCEPT !.pc = "over", !.log = read[r].got]
  <2>1. /\ x \in ReadState /\ x.pc = "over" /\ x.got = read[r].got
        /\ read' = [read EXCEPT ![r] = x]
    BY <1>1, <1>10 DEF ReadState, Derives
  <2> HIDE DEF x
  <2>2. Promised(r)' = Promised(r)
    BY <1>1, <1>10, <2>1 DEF Promised, Derives
  <2>3. tradeLogs' \in [holds: SUBSET AllWrites, until: 0 .. Horizon + TTL]
    BY <1>1, <1>2, <1>10 DEF ReadState, Derives, Ticks
  <2> QED BY <1>10, <2>1, <2>2, <2>3, ReadGoes DEF Derives
<1> QED BY <1>4, <1>5, <1>6, <1>7, <1>8, <1>9, <1>10

LEMMA CacheInvStep ==
    ASSUME CacheInv, [CacheNext]_cacheVars
    PROVE  CacheInv'
<1>1. CASE UNCHANGED cacheVars
  <2>1. \A q \in Reads : Waits(q) => Waits(q)'
    BY <1>1 DEF Waits, Started, Promised, CommittedWrites, cacheVars
  <2> QED BY <1>1, <2>1 DEF cacheVars, CacheInv, CacheTypeOK, WritesInv, EntryInv, ReadsInv,
               Started, Promised, CommittedWrites
<1>2. CASE CacheNext
  BY <1>2, WriteStep, StartsStep, ReadStep DEF CacheNext
<1> QED BY <1>1, <1>2

LEMMA CacheInvHolds == CacheSpec => []CacheInv
BY CacheInvInit, CacheInvStep, PTL DEF CacheSpec

(* The types of the two caches and their reads.                            *)
THEOREM CacheTypeCorrect == CacheSpec => []CacheTypeOK
BY CacheInvHolds, PTL DEF CacheInv

(* Whatever is computed, awaited, flushed, expired and dropped meanwhile,  *)
(* a valuation includes every write whose response was out when its read   *)
(* began, and every write a time to live old (app.ts:293-302,              *)
(* valuation.ts:291-297).                                                  *)
THEOREM ValuationsStayFresh == CacheSpec => []ValuationsAreFresh
<1>1. CacheInv => ValuationsAreFresh
  BY DEF CacheInv, ReadsInv, Started, Promised, ValuationsAreFresh, ValuedReads
<1> QED BY <1>1, CacheInvHolds, PTL

-----------------------------------------------------------------------------
(* The documents.  A task x that stores document d, moves it, or has       *)
(* deleted its object and not yet its row.                                 *)
Stores(x, d) == x.pc \in {"put", "lost"} /\ x.doc = d
Moves(x, d) == x.pc = "copied" /\ x.doc = d
HasDeleted(x, d) ==
    x.pc = "listed" /\ x.kind \in {"discard", "remove", "collect"} /\ d \in x.list \ x.left

(* ... or has stored it, or given up.                                      *)
StoredIt(x, d) ==
    x.pc \in {"put", "lost", "over"} /\ x.kind \in {"store", "fetch"} /\ x.doc = d
Stored(d) == \E t \in Tasks : StoredIt(task[t], d)

TaskOK(x) ==
    /\ x.pc = "new" => x.doc = NoDoc
    /\ x.pc \in {"put", "lost"} => x.doc \in Docs /\ x.kind \in {"store", "fetch"}
    /\ x.pc = "copied" => x.doc \in x.list /\ x.seen[x.doc].key = "first"
    /\ x.left \subseteq x.list /\ x.list \subseteq Staged
    /\ \A d \in x.list :
          /\ x.seen[d].status # "none"
          /\ x.kind = "discard" => x.seen[d].status = "staged"
    /\ \A d \in Staged :
          /\ x.kind = "discard" /\ x.seen[d].status = "staged" => d \in x.list
          /\ x.kind = "remove" /\ x.seen[d].status # "none" => d \in x.list

(* A document is stored once: until then no row was there to be seen.      *)
StoredOnce(d) ==
    /\ row[d] # NoRow => Stored(d)
    /\ \A t \in Tasks : task[t].seen[d] # NoRow => Stored(d)
    /\ \A t \in Tasks : Stores(task[t], d) =>
          /\ row[d] = NoRow
          /\ \A u \in Tasks : task[u].seen[d] = NoRow /\ (task[u].doc = d => u = t)
          /\ task[t].pc = "put" /\ ~Shared(d) => <<d, "first">> \in objects

(* A key is written once, after the copy and the deletion of the source.   *)
KeyOK(d) ==
    /\ \A t \in Tasks :
          task[t].seen[d].key = "structured" /\ HasRow(d) => row[d].key = "structured"
    /\ \A t \in Tasks : Moves(task[t], d) =>
          /\ HasRow(d) /\ row[d].key = "first" => <<d, "structured">> \in objects
          /\ d \notin task[t].left => <<d, "first">> \notin objects

(* Objects and rows differ only as long as a task is at work on them.      *)
FirstOK(d) ==
    <<d, "first">> \in objects =>
        (HasRow(d) /\ row[d].key = "first") \/ \E t \in Tasks : Stores(task[t], d)
StructuredOK(d) ==
    <<d, "structured">> \in objects =>
        (HasRow(d) /\ row[d].key = "structured") \/ \E t \in Tasks : Moves(task[t], d)
RowOK(d) ==
    HasRow(d) /\ ~Shared(d) =>
        \/ <<d, row[d].key>> \in objects
        \/ \E t \in Tasks : HasDeleted(task[t], d)
        \/ row[d].key = "first"
           /\ \E t \in Tasks : Moves(task[t], d) /\ d \notin task[t].left
DeletedOK(d) ==
    \A t \in Tasks : HasDeleted(task[t], d) /\ <<d, task[t].seen[d].key>> \in objects =>
        task[t].seen[d].key = "structured" /\ \E u \in Tasks : Moves(task[u], d)
Matches(d) == FirstOK(d) /\ StructuredOK(d) /\ RowOK(d) /\ DeletedOK(d)

ReceiptsInv ==
    /\ ReceiptsTypeOK
    /\ \A t \in Tasks : TaskOK(task[t])
    /\ \A d \in Docs : StoredOnce(d) /\ KeyOK(d)
    /\ \A d \in Docs \ spoilt : Matches(d)

RowState == [status: {"none", "staged", "retained"}, key: Keys]
TaskState ==
    [pc: {"new", "put", "listed", "copied", "moved", "deleted", "lost", "over"},
     kind: TaskKinds, doc: Docs \cup {NoDoc}, list: SUBSET Docs, left: SUBSET Docs,
     seen: [Docs -> RowState]]

LEMMA ReceiptsTypes ==
    ReceiptsTypeOK =>
        /\ task \in [Tasks -> TaskState] /\ row \in [Docs -> RowState]
        /\ objects \subseteq Docs \X Keys
BY DEF ReceiptsTypeOK, TaskState, RowState

(* What stands under a key is the object of its document, or one put by a  *)
(* document of the same name.                                              *)
LEMMA UnderIs ==
    ASSUME NEW d \in Docs
    PROVE  /\ \A k \in Keys : <<d, k>> \in Under(d, k)
           /\ \A e \in Docs, k \in Keys : \A l :
                 <<e, l>> \in Under(d, k) => l = k /\ (e = d \/ (k = "first" /\ Shared(e)))
BY DEF Under, Keys, Shared

(* Taking away what stands under a key.                                    *)
LEMMA TakenAway ==
    ASSUME NEW d \in Docs, NEW k \in Keys, NEW left, left = objects \ Under(d, k)
    PROVE  /\ left \subseteq objects /\ <<d, k>> \notin left
           /\ \A e \in Docs : \A l :
                 <<e, l>> \in objects /\ <<e, l>> \notin left =>
                     l = k /\ (e = d \/ (k = "first" /\ Shared(e)))
BY UnderIs

LEMMA SharedKept == ASSUME name' = name PROVE \A d \in Docs : Shared(d)' <=> Shared(d)
BY DEF Shared

LEMMA ReceiptsInvInit == ReceiptsInit => ReceiptsInv
<1> SUFFICES ASSUME ReceiptsInit
             PROVE  ReceiptsInv
  OBVIOUS
<1>1. NoRow \in RowState /\ NoRow.status = "none" /\ NoRow.key = "first"
  BY DEF NoRow, RowState, Keys
<1>2. ReceiptsTypeOK
  BY <1>1, ReceiptsAssumption DEF ReceiptsInit, ReceiptsTypeOK, RowState, TaskKinds
<1>3. \A t \in Tasks :
         /\ task[t].pc = "new" /\ task[t].doc = NoDoc /\ task[t].kind = "store"
         /\ task[t].left = {} /\ task[t].list = {}
         /\ \A d \in Docs : task[t].seen[d] = NoRow
  BY DEF ReceiptsInit
<1>4. \A d \in Docs : row[d] = NoRow /\ objects = {}
  BY DEF ReceiptsInit
<1>5. \A t \in Tasks : TaskOK(task[t])
  BY <1>3 DEF TaskOK
<1>6. \A d \in Docs : StoredOnce(d) /\ KeyOK(d) /\ Matches(d)
  BY <1>1, <1>3, <1>4, SharedKept DEF StoredOnce, KeyOK, Matches, FirstOK, StructuredOK, RowOK, DeletedOK, Stores, Moves,
         HasDeleted, HasRow
<1> QED BY <1>2, <1>5, <1>6 DEF ReceiptsInv

(* A step of one task.                                                     *)
TaskMoves(t, x) ==
    /\ x \in TaskState /\ TaskOK(x)
    /\ task' \in [Tasks -> TaskState] /\ task'[t] = x
    /\ \A u \in Tasks : u # t => task'[u] = task[u]

LEMMA TaskUpdate ==
    ASSUME ReceiptsTypeOK, NEW t \in Tasks, NEW x \in TaskState, TaskOK(x),
           task' = [task EXCEPT ![t] = x]
    PROVE  TaskMoves(t, x)
BY ReceiptsTypes DEF TaskMoves

LEMMA TypesKept ==
    ASSUME ReceiptsInv, name' = name, NEW t \in Tasks, NEW x, TaskMoves(t, x),
           row' \in [Docs -> RowState], objects' \subseteq Docs \X Keys,
           failures' = failures \/ Fault, spoilt' \subseteq Docs
    PROVE  ReceiptsTypeOK' /\ \A u \in Tasks : TaskOK(task'[u])
<1>1. ReceiptsTypeOK'
  BY ReceiptsAssumption DEF ReceiptsInv, ReceiptsTypeOK, TaskMoves, TaskState, RowState, Fault
<1>2. \A u \in Tasks : TaskOK(task'[u])
  BY DEF ReceiptsInv, TaskMoves
<1> QED BY <1>1, <1>2

LEMMA StoredKept ==
    ASSUME NEW t \in Tasks, NEW x, TaskMoves(t, x),
           \A e \in Docs : StoredIt(task[t], e) => StoredIt(x, e)
    PROVE  \A e \in Docs : Stored(e) => Stored(e)'
BY DEF Stored, TaskMoves

LEMMA PutsStep ==
    ASSUME ReceiptsInv, name' = name, NEW t \in Tasks, NEW d \in Docs, Puts(t, d)
    PROVE  ReceiptsInv'
<1> DEFINE x == [task[t] EXCEPT !.kind = IF d \in Staged THEN "store" ELSE "fetch",
                                !.pc = "put", !.doc = d]
<1>1. /\ ReceiptsTypeOK /\ task \in [Tasks -> TaskState] /\ TaskOK(task[t])
      /\ row \in [Docs -> RowState]
  BY ReceiptsTypes DEF ReceiptsInv
<1>2. /\ x \in TaskState /\ x.pc = "put" /\ x.doc = d /\ x.kind \in {"store", "fetch"}
      /\ x.list = task[t].list /\ x.left = task[t].left /\ x.seen = task[t].seen
      /\ task' = [task EXCEPT ![t] = x]
  BY <1>1 DEF TaskState, TaskKinds, Puts
<1> HIDE DEF x
<1>3. TaskOK(x)
  BY <1>1, <1>2 DEF TaskOK
<1>4. TaskMoves(t, x)
  BY <1>1, <1>2, <1>3, TaskUpdate
<1>5. /\ row' = row /\ spoilt' = spoilt /\ failures' = failures
      /\ task[t].pc = "new" /\ \A u \in Tasks : task[u].doc # d
      /\ <<d, "first">> \in objects' /\ objects' \subseteq objects \cup {<<d, "first">>}
      /\ \A e \in Docs : \A l :
            <<e, l>> \in objects /\ <<e, l>> \notin objects' => l = "first" /\ Shared(e)
  <2>1. /\ row' = row /\ spoilt' = spoilt /\ failures' = failures
        /\ task[t].pc = "new" /\ \A u \in Tasks : task[u].doc # d
        /\ objects' = (objects \ Under(d, "first")) \cup {<<d, "first">>}
    BY DEF Puts, Named
  <2>2. \A e \in Docs : \A l : <<e, l>> \in Under(d, "first") =>
            l = "first" /\ (e = d \/ Shared(e))
    BY UnderIs DEF Keys
  <2> QED BY <2>1, <2>2
<1>6. ReceiptsTypeOK' /\ \A u \in Tasks : TaskOK(task'[u])
  <2>1. objects' \subseteq Docs \X Keys
    BY <1>1, <1>5, ReceiptsTypes DEF Keys
  <2>2. row' \in [Docs -> RowState] /\ spoilt' \subseteq Docs
    BY <1>1, <1>5 DEF ReceiptsTypeOK
  <2> QED BY <1>4, <1>5, <2>1, <2>2, TypesKept
<1>7. \A e \in Docs : Stored(e) => Stored(e)'
  BY <1>4, <1>5, StoredKept DEF StoredIt
<1>8. ~Stored(d) /\ Stored(d)'
  BY <1>2, <1>4, <1>5 DEF Stored, StoredIt, TaskMoves
<1>9. row[d] = NoRow /\ \A u \in Tasks : task[u].seen[d] = NoRow
  BY <1>8, SharedKept DEF ReceiptsInv, StoredOnce
<1>10. \A e \in Docs : StoredOnce(e)'
  BY <1>2, <1>4, <1>5, <1>7, <1>8, <1>9, SharedKept DEF ReceiptsInv, StoredOnce, Stores, TaskMoves
<1>11. \A e \in Docs : KeyOK(e)'
  BY <1>2, <1>4, <1>5, <1>9 DEF ReceiptsInv, KeyOK, Moves, TaskMoves, HasRow
<1>12. \A e \in Docs \ spoilt' : Matches(e)'
  <2> SUFFICES ASSUME NEW e \in Docs \ spoilt'
               PROVE  FirstOK(e)' /\ StructuredOK(e)' /\ RowOK(e)' /\ DeletedOK(e)'
    BY DEF Matches
  <2>1. FirstOK(e) /\ StructuredOK(e) /\ RowOK(e) /\ DeletedOK(e)
    BY <1>5 DEF ReceiptsInv, Matches
  <2>2. FirstOK(e)'
    BY <1>2, <1>4, <1>5, <2>1 DEF FirstOK, Stores, TaskMoves, HasRow
  <2>3. StructuredOK(e)'
    BY <1>2, <1>4, <1>5, <2>1 DEF StructuredOK, Moves, TaskMoves, HasRow
  <2>4. RowOK(e)'
    BY <1>2, <1>4, <1>5, <2>1, SharedKept DEF RowOK, Moves, HasDeleted, TaskMoves, HasRow
  <2>5. DeletedOK(e)'
    BY <1>2, <1>4, <1>5, <1>9, <2>1
       DEF DeletedOK, Moves, HasDeleted, TaskMoves, ReceiptsInv, TaskOK, NoRow
  <2> QED BY <2>2, <2>3, <2>4, <2>5
<1> QED BY <1>6, <1>10, <1>11, <1>12 DEF ReceiptsInv

(* A step that leaves rows and objects alone, of a task that is not about  *)
(* to write to a document, unless the document is spoilt.                  *)
LEMMA LeavesDocuments ==
    ASSUME ReceiptsInv, name' = name, NEW t \in Tasks, NEW x, TaskMoves(t, x),
           row' = row, objects' = objects, failures' = failures \/ Fault,
           spoilt \subseteq spoilt', spoilt' \subseteq Docs,
           x.doc = task[t].doc, x.seen = task[t].seen \/ x.seen = row,
           x.pc \notin {"put", "lost", "copied"},
           \A e \in Docs : StoredIt(task[t], e) => StoredIt(x, e),
           \A e \in Docs \ spoilt' :
              /\ ~Stores(task[t], e) /\ ~Moves(task[t], e)
              /\ ~HasDeleted(task[t], e) /\ ~HasDeleted(x, e)
    PROVE  ReceiptsInv'
<1>1. ReceiptsTypeOK' /\ \A u \in Tasks : TaskOK(task'[u])
  BY TypesKept, ReceiptsTypes DEF ReceiptsInv
<1>2. \A e \in Docs : Stored(e) => Stored(e)'
  BY StoredKept
<1>3. \A e \in Docs : StoredOnce(e)'
  BY <1>2, SharedKept DEF ReceiptsInv, StoredOnce, Stores, TaskMoves
<1>4. \A e \in Docs : KeyOK(e)'
  BY DEF ReceiptsInv, KeyOK, Moves, TaskMoves, HasRow
<1>5. ASSUME NEW e \in Docs \ spoilt'
      PROVE  Matches(e)'
  <2>1. FirstOK(e) /\ StructuredOK(e) /\ RowOK(e) /\ DeletedOK(e)
    BY DEF ReceiptsInv, Matches
  <2>2. FirstOK(e)'
    BY <1>5, <2>1 DEF FirstOK, Stores, TaskMoves, HasRow
  <2>3. StructuredOK(e)'
    BY <1>5, <2>1 DEF StructuredOK, Moves, TaskMoves, HasRow
  <2>4. RowOK(e)'
    BY <1>5, <2>1, SharedKept DEF RowOK, Moves, TaskMoves, HasRow
  <2>5. DeletedOK(e)'
    BY <1>5, <2>1 DEF DeletedOK, Moves, TaskMoves
  <2> QED BY <2>2, <2>3, <2>4, <2>5 DEF Matches
<1> QED BY <1>1, <1>3, <1>4, <1>5 DEF ReceiptsInv

LEMMA InsertFailsStep ==
    ASSUME ReceiptsInv, name' = name, NEW t \in Tasks, InsertFails(t)
    PROVE  ReceiptsInv'
<1> DEFINE x == [task[t] EXCEPT !.pc = "over"]
<1>1. /\ ReceiptsTypeOK /\ task \in [Tasks -> TaskState] /\ TaskOK(task[t])
      /\ row \in [Docs -> RowState]
  BY ReceiptsTypes DEF ReceiptsInv
<1>2. /\ x \in TaskState /\ x.pc = "over" /\ x.doc = task[t].doc /\ x.kind = task[t].kind
      /\ x.list = task[t].list /\ x.seen = task[t].seen
      /\ x.left = task[t].left
      /\ task' = [task EXCEPT ![t] = x]
  BY <1>1 DEF TaskState, TaskKinds, Docs, InsertFails, Over, TaskGoes
<1> HIDE DEF x
<1>3. TaskMoves(t, x)
  <2>1. TaskOK(x)
    BY <1>1, <1>2 DEF TaskOK, InsertFails
  <2> QED BY <1>1, <1>2, <2>1, TaskUpdate
<1>4. /\ row' = row /\ objects' = objects /\ Fault
      /\ spoilt' = spoilt \cup {task[t].doc}
      /\ task[t].pc = "put" /\ task[t].doc \in Docs
  BY <1>1 DEF InsertFails, TaskOK
<1>5. \A e \in Docs : StoredIt(task[t], e) => StoredIt(x, e)
  BY <1>1, <1>2, <1>4 DEF StoredIt, TaskOK
<1>6. \A e \in Docs \ spoilt' :
         /\ ~Stores(task[t], e) /\ ~Moves(task[t], e)
         /\ ~HasDeleted(task[t], e) /\ ~HasDeleted(x, e)
  BY <1>2, <1>4 DEF Stores, Moves, HasDeleted
<1> QED BY <1>1, <1>2, <1>3, <1>4, <1>5, <1>6, LeavesDocuments DEF ReceiptsTypeOK

LEMMA ListsStep ==
    ASSUME ReceiptsInv, name' = name, NEW t \in Tasks, NEW kind \in TaskKinds, NEW ds \in SUBSET Staged,
           Lists(t, kind, ds)
    PROVE  ReceiptsInv'
<1> DEFINE x == [task[t] EXCEPT !.pc = "listed", !.kind = kind, !.list = ds,
                                !.left = ds, !.seen = row]
<1>1. /\ ReceiptsTypeOK /\ task \in [Tasks -> TaskState] /\ TaskOK(task[t])
      /\ row \in [Docs -> RowState]
  BY ReceiptsTypes DEF ReceiptsInv
<1>2. /\ x \in TaskState /\ x.pc = "listed" /\ x.doc = task[t].doc /\ x.kind = kind
      /\ x.list = ds /\ x.left = ds /\ x.seen = row
      /\ task' = [task EXCEPT ![t] = x]
  BY <1>1 DEF TaskState, TaskKinds, Docs, Lists, Over, TaskGoes
<1> HIDE DEF x
<1>3. TaskMoves(t, x)
  <2>1. TaskOK(x)
    BY <1>1, <1>2 DEF TaskOK, Lists, StagedRows, ImportRows, HasRow
  <2> QED BY <1>1, <1>2, <2>1, TaskUpdate
<1>4. /\ row' = row /\ objects' = objects /\ spoilt' = spoilt /\ failures' = failures
      /\ task[t].pc = "new"
  BY DEF Lists
<1>5. \A e \in Docs : StoredIt(task[t], e) => StoredIt(x, e)
  BY <1>1, <1>2, <1>4 DEF StoredIt, TaskOK
<1>6. \A e \in Docs \ spoilt' :
         /\ ~Stores(task[t], e) /\ ~Moves(task[t], e)
         /\ ~HasDeleted(task[t], e) /\ ~HasDeleted(x, e)
  BY <1>2, <1>4 DEF Stores, Moves, HasDeleted
<1> QED BY <1>1, <1>2, <1>3, <1>4, <1>5, <1>6, LeavesDocuments DEF ReceiptsTypeOK

LEMMA CopyFailsStep ==
    ASSUME ReceiptsInv, name' = name, NEW t \in Tasks, NEW d \in Docs, CopyFails(t, d)
    PROVE  ReceiptsInv'
<1> DEFINE x == [task[t] EXCEPT !.left = @ \ {d}]
<1>1. /\ ReceiptsTypeOK /\ task \in [Tasks -> TaskState] /\ TaskOK(task[t])
      /\ row \in [Docs -> RowState]
  BY ReceiptsTypes DEF ReceiptsInv
<1>2. /\ x \in TaskState /\ x.pc = "moved" /\ x.doc = task[t].doc /\ x.kind = task[t].kind
      /\ x.list = task[t].list /\ x.seen = task[t].seen
      /\ x.left = task[t].left \ {d}
      /\ task' = [task EXCEPT ![t] = x]
  BY <1>1 DEF TaskState, TaskKinds, Docs, CopyFails, Over, TaskGoes
<1> HIDE DEF x
<1>3. TaskMoves(t, x)
  <2>1. TaskOK(x)
    BY <1>1, <1>2 DEF TaskOK, CopyFails
  <2> QED BY <1>1, <1>2, <2>1, TaskUpdate
<1>4. /\ row' = row /\ objects' = objects /\ spoilt' = spoilt
      /\ failures' = failures \/ Fault
      /\ task[t].pc = "moved"
  BY DEF CopyFails
<1>5. \A e \in Docs : StoredIt(task[t], e) => StoredIt(x, e)
  BY <1>1, <1>2, <1>4 DEF StoredIt, TaskOK
<1>6. \A e \in Docs \ spoilt' :
         /\ ~Stores(task[t], e) /\ ~Moves(task[t], e)
         /\ ~HasDeleted(task[t], e) /\ ~HasDeleted(x, e)
  BY <1>2, <1>4 DEF Stores, Moves, HasDeleted
<1> QED BY <1>1, <1>2, <1>3, <1>4, <1>5, <1>6, LeavesDocuments DEF ReceiptsTypeOK

LEMMA MoveFailsStep ==
    ASSUME ReceiptsInv, name' = name, NEW t \in Tasks, MoveFails(t)
    PROVE  ReceiptsInv'
<1> DEFINE x == [task[t] EXCEPT !.pc = "moved", !.left = @ \ {task[t].doc}]
<1>1. /\ ReceiptsTypeOK /\ task \in [Tasks -> TaskState] /\ TaskOK(task[t])
      /\ row \in [Docs -> RowState]
  BY ReceiptsTypes DEF ReceiptsInv
<1>2. /\ x \in TaskState /\ x.pc = "moved" /\ x.doc = task[t].doc /\ x.kind = task[t].kind
      /\ x.list = task[t].list /\ x.seen = task[t].seen
      /\ x.left = task[t].left \ {task[t].doc}
      /\ task' = [task EXCEPT ![t] = x]
  BY <1>1 DEF TaskState, TaskKinds, Docs, MoveFails, Over, TaskGoes
<1> HIDE DEF x
<1>3. TaskMoves(t, x)
  <2>1. TaskOK(x)
    BY <1>1, <1>2 DEF TaskOK, MoveFails
  <2> QED BY <1>1, <1>2, <2>1, TaskUpdate
<1>4. /\ row' = row /\ objects' = objects /\ Fault
      /\ spoilt' = spoilt \cup {task[t].doc}
      /\ task[t].pc = "copied" /\ task[t].doc \in Docs
  BY <1>1 DEF MoveFails, TaskOK, Docs
<1>5. \A e \in Docs : StoredIt(task[t], e) => StoredIt(x, e)
  BY <1>1, <1>2, <1>4 DEF StoredIt, TaskOK
<1>6. \A e \in Docs \ spoilt' :
         /\ ~Stores(task[t], e) /\ ~Moves(task[t], e)
         /\ ~HasDeleted(task[t], e) /\ ~HasDeleted(x, e)
  BY <1>2, <1>4 DEF Stores, Moves, HasDeleted
<1> QED BY <1>1, <1>2, <1>3, <1>4, <1>5, <1>6, LeavesDocuments DEF ReceiptsTypeOK

LEMMA MovedStep ==
    ASSUME ReceiptsInv, name' = name, NEW t \in Tasks, Moved(t)
    PROVE  ReceiptsInv'
<1> DEFINE x == [task[t] EXCEPT !.pc = "over"]
<1>1. /\ ReceiptsTypeOK /\ task \in [Tasks -> TaskState] /\ TaskOK(task[t])
      /\ row \in [Docs -> RowState]
  BY ReceiptsTypes DEF ReceiptsInv
<1>2. /\ x \in TaskState /\ x.pc = "over" /\ x.doc = task[t].doc /\ x.kind = task[t].kind
      /\ x.list = task[t].list /\ x.seen = task[t].seen
      /\ x.left = task[t].left
      /\ task' = [task EXCEPT ![t] = x]
  BY <1>1 DEF TaskState, TaskKinds, Docs, Moved, Over, TaskGoes
<1> HIDE DEF x
<1>3. TaskMoves(t, x)
  <2>1. TaskOK(x)
    BY <1>1, <1>2 DEF TaskOK, Moved
  <2> QED BY <1>1, <1>2, <2>1, TaskUpdate
<1>4. /\ row' = row /\ objects' = objects /\ spoilt' = spoilt /\ failures' = failures
      /\ task[t].pc = "moved"
  BY DEF Moved
<1>5. \A e \in Docs : StoredIt(task[t], e) => StoredIt(x, e)
  BY <1>1, <1>2, <1>4 DEF StoredIt, TaskOK
<1>6. \A e \in Docs \ spoilt' :
         /\ ~Stores(task[t], e) /\ ~Moves(task[t], e)
         /\ ~HasDeleted(task[t], e) /\ ~HasDeleted(x, e)
  BY <1>2, <1>4 DEF Stores, Moves, HasDeleted
<1> QED BY <1>1, <1>2, <1>3, <1>4, <1>5, <1>6, LeavesDocuments DEF ReceiptsTypeOK

LEMMA RowsFailStep ==
    ASSUME ReceiptsInv, name' = name, NEW t \in Tasks, RowsFail(t)
    PROVE  ReceiptsInv'
<1> DEFINE x == [task[t] EXCEPT !.pc = "over"]
<1>1. /\ ReceiptsTypeOK /\ task \in [Tasks -> TaskState] /\ TaskOK(task[t])
      /\ row \in [Docs -> RowState]
  BY ReceiptsTypes DEF ReceiptsInv
<1>2. /\ x \in TaskState /\ x.pc = "over" /\ x.doc = task[t].doc /\ x.kind = task[t].kind
      /\ x.list = task[t].list /\ x.seen = task[t].seen
      /\ x.left = task[t].left
      /\ task' = [task EXCEPT ![t] = x]
  BY <1>1 DEF TaskState, TaskKinds, Docs, RowsFail, Over, TaskGoes
<1> HIDE DEF x
<1>3. TaskMoves(t, x)
  <2>1. TaskOK(x)
    BY <1>1, <1>2 DEF TaskOK, RowsFail
  <2> QED BY <1>1, <1>2, <2>1, TaskUpdate
<1>4. /\ row' = row /\ objects' = objects /\ Fault
      /\ spoilt' = spoilt \cup task[t].list
      /\ task[t].pc = "listed" /\ task[t].list \subseteq Docs
  BY <1>1 DEF RowsFail, TaskOK, Docs
<1>5. \A e \in Docs : StoredIt(task[t], e) => StoredIt(x, e)
  BY <1>1, <1>2, <1>4 DEF StoredIt, TaskOK
<1>6. \A e \in Docs \ spoilt' :
         /\ ~Stores(task[t], e) /\ ~Moves(task[t], e)
         /\ ~HasDeleted(task[t], e) /\ ~HasDeleted(x, e)
  BY <1>2, <1>4 DEF Stores, Moves, HasDeleted
<1> QED BY <1>1, <1>2, <1>3, <1>4, <1>5, <1>6, LeavesDocuments DEF ReceiptsTypeOK

(* The insert meets the row of another report, or adds one.                *)
LEMMA InsertLost ==
    ASSUME ReceiptsInv, name' = name, NEW t \in Tasks, Inserts(t),
           task[t].doc \in Reports, SomeReport
    PROVE  ReceiptsInv'
<1> DEFINE d == task[t].doc
           x == [task[t] EXCEPT !.pc = "lost"]
<1>1. /\ ReceiptsTypeOK /\ task \in [Tasks -> TaskState] /\ TaskOK(task[t])
      /\ row \in [Docs -> RowState]
  BY ReceiptsTypes DEF ReceiptsInv
<1>2. /\ x \in TaskState /\ x.pc = "lost" /\ x.doc = task[t].doc /\ x.kind = task[t].kind
      /\ x.list = task[t].list /\ x.seen = task[t].seen
      /\ x.left = task[t].left
      /\ task' = [task EXCEPT ![t] = x]
  <2>1. task' = [task EXCEPT ![t].pc = "lost"]
    BY DEF Inserts, TaskGoes
  <2> QED BY <1>1, <2>1 DEF TaskState
<1> HIDE DEF x
<1>3. TaskMoves(t, x)
  <2>1. TaskOK(x)
    BY <1>1, <1>2 DEF TaskOK, Inserts
  <2> QED BY <1>1, <1>2, <2>1, TaskUpdate
<1>4. /\ objects' = objects /\ row' = row
      /\ spoilt' = spoilt /\ failures' = failures
      /\ task[t].pc = "put" /\ d \in Docs
  BY <1>1 DEF Inserts, TaskOK

<1>5. /\ row[d] = NoRow /\ (~Shared(d) => <<d, "first">> \in objects) /\ ~HasRow(d)
      /\ \A u \in Tasks : task[u].seen[d] = NoRow /\ task[u].seen[d].key = "first"
      /\ \A u \in Tasks : (task[u].doc = d => u = t) /\ (task'[u].doc = d => u = t)
  <2>1. /\ row[d] = NoRow /\ (~Shared(d) => <<d, "first">> \in objects)
        /\ \A u \in Tasks : task[u].seen[d] = NoRow /\ (task[u].doc = d => u = t)
    BY <1>4, SharedKept DEF ReceiptsInv, StoredOnce, Stores
  <2>2. ~HasRow(d) /\ \A u \in Tasks : task[u].seen[d].key = "first"
    BY <2>1 DEF HasRow, NoRow
  <2>3. \A u \in Tasks : task'[u].doc = d => u = t
    BY <1>2, <1>3, <2>1 DEF TaskMoves
  <2> QED BY <2>1, <2>2, <2>3
<1>6. ReceiptsTypeOK' /\ \A u \in Tasks : TaskOK(task'[u])
  BY <1>1, <1>3, <1>4, TypesKept, ReceiptsTypes DEF Keys, ReceiptsTypeOK, RowState
<1>7. \A e \in Docs : Stored(e) => Stored(e)'
  BY <1>1, <1>2, <1>3, <1>4, StoredKept DEF StoredIt, TaskOK
<1>8. \A e \in Docs : StoredOnce(e)'
  BY <1>2, <1>3, <1>4, <1>7, <1>5, SharedKept DEF ReceiptsInv, StoredOnce, Stores, TaskMoves
<1>9. \A e \in Docs : KeyOK(e)'
  BY <1>2, <1>3, <1>4, <1>5 DEF ReceiptsInv, KeyOK, Moves, TaskMoves, HasRow
<1>10. ASSUME NEW e \in Docs \ spoilt'
       PROVE  Matches(e)'
  <2>1. /\ FirstOK(e) /\ StructuredOK(e) /\ RowOK(e) /\ DeletedOK(e)
        /\ KeyOK(e) /\ StoredOnce(e)
    BY <1>4, <1>10 DEF ReceiptsInv, Matches
  <2>2. FirstOK(e)'
    BY <1>2, <1>3, <1>4, <1>10, <2>1, <1>5 DEF FirstOK, Stores, TaskMoves, HasRow
  <2>3. StructuredOK(e)'
    BY <1>2, <1>3, <1>4, <1>10, <2>1, <1>5 DEF StructuredOK, Moves, TaskMoves, HasRow
  <2>4. RowOK(e)'
    BY <1>2, <1>3, <1>4, <1>10, <2>1, <1>5, SharedKept DEF RowOK, Moves, HasDeleted, TaskMoves, HasRow
  <2>5. DeletedOK(e)'
    BY <1>2, <1>3, <1>4, <1>10, <2>1, <1>5 DEF DeletedOK, Moves, HasDeleted, TaskMoves
  <2> QED BY <2>2, <2>3, <2>4, <2>5 DEF Matches
<1> QED BY <1>6, <1>8, <1>9, <1>10 DEF ReceiptsInv

LEMMA InsertMade ==
    ASSUME ReceiptsInv, name' = name, NEW t \in Tasks, Inserts(t),
           ~(task[t].doc \in Reports /\ SomeReport)
    PROVE  ReceiptsInv'
<1> DEFINE d == task[t].doc
           x == [task[t] EXCEPT !.pc = "over"]
<1>1. /\ ReceiptsTypeOK /\ task \in [Tasks -> TaskState] /\ TaskOK(task[t])
      /\ row \in [Docs -> RowState]
  BY ReceiptsTypes DEF ReceiptsInv
<1>2. /\ x \in TaskState /\ x.pc = "over" /\ x.doc = task[t].doc /\ x.kind = task[t].kind
      /\ x.list = task[t].list /\ x.seen = task[t].seen
      /\ x.left = task[t].left
      /\ task' = [task EXCEPT ![t] = x]
  <2>1. task' = [task EXCEPT ![t].pc = "over"]
    BY DEF Inserts, Over, TaskGoes
  <2> QED BY <1>1, <2>1 DEF TaskState
<1> HIDE DEF x
<1>3. TaskMoves(t, x)
  <2>1. TaskOK(x)
    BY <1>1, <1>2 DEF TaskOK, Inserts
  <2> QED BY <1>1, <1>2, <2>1, TaskUpdate
<1>4. /\ objects' = objects /\ spoilt' = spoilt /\ failures' = failures
      /\ task[t].pc = "put" /\ d \in Docs
      /\ row' \in [Docs -> RowState] /\ row'[d].status # "none" /\ row'[d].key = "first"
      /\ \A e \in Docs : e # d => row'[e] = row[e]
  BY <1>1 DEF Inserts, TaskOK, RowState, Keys

<1>5. /\ row[d] = NoRow /\ (~Shared(d) => <<d, "first">> \in objects) /\ ~HasRow(d)
      /\ \A u \in Tasks : task[u].seen[d] = NoRow /\ task[u].seen[d].key = "first"
      /\ \A u \in Tasks : (task[u].doc = d => u = t) /\ (task'[u].doc = d => u = t)
  <2>1. /\ row[d] = NoRow /\ (~Shared(d) => <<d, "first">> \in objects)
        /\ \A u \in Tasks : task[u].seen[d] = NoRow /\ (task[u].doc = d => u = t)
    BY <1>4, SharedKept DEF ReceiptsInv, StoredOnce, Stores
  <2>2. ~HasRow(d) /\ \A u \in Tasks : task[u].seen[d].key = "first"
    BY <2>1 DEF HasRow, NoRow
  <2>3. \A u \in Tasks : task'[u].doc = d => u = t
    BY <1>2, <1>3, <2>1 DEF TaskMoves
  <2> QED BY <2>1, <2>2, <2>3
<1>11. Stored(d)'
  BY <1>1, <1>2, <1>3, <1>4 DEF Stored, StoredIt, TaskMoves, TaskOK
<1>6. ReceiptsTypeOK' /\ \A u \in Tasks : TaskOK(task'[u])
  BY <1>1, <1>3, <1>4, TypesKept, ReceiptsTypes DEF Keys, ReceiptsTypeOK, RowState
<1>7. \A e \in Docs : Stored(e) => Stored(e)'
  BY <1>1, <1>2, <1>3, <1>4, StoredKept DEF StoredIt, TaskOK
<1>8. \A e \in Docs : StoredOnce(e)'
  BY <1>2, <1>3, <1>4, <1>7, <1>5, <1>11, SharedKept DEF ReceiptsInv, StoredOnce, Stores, TaskMoves
<1>9. \A e \in Docs : KeyOK(e)'
  BY <1>2, <1>3, <1>4, <1>5 DEF ReceiptsInv, KeyOK, Moves, TaskMoves, HasRow
<1>10. ASSUME NEW e \in Docs \ spoilt'
       PROVE  Matches(e)'
  <2>1. /\ FirstOK(e) /\ StructuredOK(e) /\ RowOK(e) /\ DeletedOK(e)
        /\ KeyOK(e) /\ StoredOnce(e)
    BY <1>4, <1>10 DEF ReceiptsInv, Matches
  <2>2. FirstOK(e)'
    BY <1>2, <1>3, <1>4, <1>10, <2>1, <1>5 DEF FirstOK, Stores, TaskMoves, HasRow
  <2>3. StructuredOK(e)'
    BY <1>2, <1>3, <1>4, <1>10, <2>1, <1>5 DEF StructuredOK, Moves, TaskMoves, HasRow
  <2>4. RowOK(e)'
    BY <1>2, <1>3, <1>4, <1>10, <2>1, <1>5, SharedKept DEF RowOK, Moves, HasDeleted, TaskMoves, HasRow
  <2>5. DeletedOK(e)'
    BY <1>2, <1>3, <1>4, <1>10, <2>1, <1>5 DEF DeletedOK, Moves, HasDeleted, TaskMoves
  <2> QED BY <2>2, <2>3, <2>4, <2>5 DEF Matches
<1> QED BY <1>6, <1>8, <1>9, <1>10 DEF ReceiptsInv

LEMMA LosesRaceStep ==
    ASSUME ReceiptsInv, name' = name, NEW t \in Tasks, LosesRace(t)
    PROVE  ReceiptsInv'
<1> DEFINE d == task[t].doc
           x == [task[t] EXCEPT !.pc = "over"]
<1>1. /\ ReceiptsTypeOK /\ task \in [Tasks -> TaskState] /\ TaskOK(task[t])
      /\ row \in [Docs -> RowState]
  BY ReceiptsTypes DEF ReceiptsInv
<1>2. /\ x \in TaskState /\ x.pc = "over" /\ x.doc = task[t].doc /\ x.kind = task[t].kind
      /\ x.list = task[t].list /\ x.seen = task[t].seen
      /\ x.left = task[t].left
      /\ task' = [task EXCEPT ![t] = x]
  BY <1>1 DEF TaskState, TaskKinds, Docs, LosesRace, Over, TaskGoes
<1> HIDE DEF x
<1>3. TaskMoves(t, x)
  <2>1. TaskOK(x)
    BY <1>1, <1>2 DEF TaskOK, LosesRace
  <2> QED BY <1>1, <1>2, <2>1, TaskUpdate
<1>4. /\ row' = row /\ task[t].pc = "lost" /\ d \in Docs
      /\ objects' \subseteq objects
      /\ \/ <<d, "first">> \notin objects' /\ spoilt' = spoilt /\ failures' = failures
         \/ spoilt' = spoilt \cup {d} /\ Fault
      /\ \A e \in Docs : \A l :
            <<e, l>> \in objects /\ <<e, l>> \notin objects' =>
                l = "first" /\ (e = d \/ Shared(e))
  <2>1. /\ row' = row /\ task[t].pc = "lost" /\ d \in Docs
        /\ \/ /\ objects' = objects \ Under(d, "first")
              /\ spoilt' = spoilt /\ failures' = failures
           \/ objects' = objects /\ spoilt' = spoilt \cup {d} /\ Fault
    BY <1>1 DEF LosesRace, CleanedUp, TaskOK
  <2>4. "first" \in Keys
    BY DEF Keys
  <2>2. CASE objects' = objects \ Under(d, "first") /\ spoilt' = spoilt /\ failures' = failures
    BY <2>1, <2>2, <2>4, TakenAway
  <2>3. CASE objects' = objects /\ spoilt' = spoilt \cup {d} /\ Fault
    BY <2>1, <2>3
  <2> QED BY <2>1, <2>2, <2>3

<1>5. row[d] = NoRow /\ ~HasRow(d) /\ \A u \in Tasks : task[u].doc = d => u = t
  <2>1. row[d] = NoRow /\ \A u \in Tasks : task[u].doc = d => u = t
    BY <1>4, SharedKept DEF ReceiptsInv, StoredOnce, Stores
  <2> QED BY <2>1 DEF HasRow, NoRow
<1>6. ReceiptsTypeOK' /\ \A u \in Tasks : TaskOK(task'[u])
  BY <1>1, <1>3, <1>4, TypesKept, ReceiptsTypes DEF Keys, ReceiptsTypeOK, RowState
<1>7. \A e \in Docs : Stored(e) => Stored(e)'
  BY <1>1, <1>2, <1>3, <1>4, StoredKept DEF StoredIt, TaskOK
<1>8. \A e \in Docs : StoredOnce(e)'
  BY <1>2, <1>3, <1>4, <1>7, <1>5, SharedKept DEF ReceiptsInv, StoredOnce, Stores, TaskMoves
<1>9. \A e \in Docs : KeyOK(e)'
  BY <1>2, <1>3, <1>4, <1>5 DEF ReceiptsInv, KeyOK, Moves, TaskMoves, HasRow
<1>10. ASSUME NEW e \in Docs \ spoilt'
       PROVE  Matches(e)'
  <2>1. /\ FirstOK(e) /\ StructuredOK(e) /\ RowOK(e) /\ DeletedOK(e)
        /\ KeyOK(e) /\ StoredOnce(e)
    BY <1>4, <1>10 DEF ReceiptsInv, Matches
  <2>2. FirstOK(e)'
    BY <1>2, <1>3, <1>4, <1>10, <2>1, <1>5 DEF FirstOK, Stores, TaskMoves, HasRow
  <2>3. StructuredOK(e)'
    BY <1>2, <1>3, <1>4, <1>10, <2>1, <1>5 DEF StructuredOK, Moves, TaskMoves, HasRow
  <2>4. RowOK(e)'
    BY <1>2, <1>3, <1>4, <1>10, <2>1, <1>5, SharedKept DEF RowOK, Moves, HasDeleted, TaskMoves, HasRow
  <2>5. DeletedOK(e)'
    BY <1>2, <1>3, <1>4, <1>10, <2>1, <1>5 DEF DeletedOK, Moves, HasDeleted, TaskMoves
  <2> QED BY <2>2, <2>3, <2>4, <2>5 DEF Matches
<1> QED BY <1>6, <1>8, <1>9, <1>10 DEF ReceiptsInv

LEMMA RetainsStep ==
    ASSUME ReceiptsInv, name' = name, NEW t \in Tasks, Retains(t)
    PROVE  ReceiptsInv'
<1> DEFINE d == task[t].doc
           x == [task[t] EXCEPT !.pc = "moved"]
<1>1. /\ ReceiptsTypeOK /\ task \in [Tasks -> TaskState] /\ TaskOK(task[t])
      /\ row \in [Docs -> RowState]
  BY ReceiptsTypes DEF ReceiptsInv
<1>2. /\ x \in TaskState /\ x.pc = "moved" /\ x.doc = task[t].doc /\ x.kind = task[t].kind
      /\ x.list = task[t].list /\ x.seen = task[t].seen
      /\ x.left = task[t].left
      /\ task' = [task EXCEPT ![t] = x]
  BY <1>1 DEF TaskState, TaskKinds, Docs, Retains, Over, TaskGoes
<1> HIDE DEF x
<1>3. TaskMoves(t, x)
  <2>1. TaskOK(x)
    BY <1>1, <1>2 DEF TaskOK, Retains
  <2> QED BY <1>1, <1>2, <2>1, TaskUpdate
<1>4. /\ objects' = objects /\ spoilt' = spoilt /\ failures' = failures
      /\ task[t].pc = "listed" /\ task[t].kind \in {"retain", "link"}
      /\ row' = [e \in Docs |-> IF e \in Marked(t) /\ HasRow(e)
                               THEN [row[e] EXCEPT !.status = "retained"] ELSE row[e]]
      /\ row' \in [Docs -> RowState]
  BY <1>1 DEF Retains, RowState

<1>6. ReceiptsTypeOK' /\ \A u \in Tasks : TaskOK(task'[u])
  BY <1>1, <1>3, <1>4, TypesKept, ReceiptsTypes DEF Keys, ReceiptsTypeOK, RowState
<1>7. \A e \in Docs : Stored(e) => Stored(e)'
  BY <1>1, <1>2, <1>3, <1>4, StoredKept DEF StoredIt, TaskOK
<1>8. ASSUME NEW e \in Docs
      PROVE  /\ row'[e].key = row[e].key
             /\ row'[e].status = "none" <=> row[e].status = "none"
             /\ row[e] = NoRow => row'[e] = NoRow
  BY <1>1, <1>4 DEF RowState, HasRow, NoRow
<1>9. ASSUME NEW e \in Docs
      PROVE  StoredOnce(e)' /\ KeyOK(e)' /\ (e \notin spoilt' => Matches(e)')
  <2>1. StoredOnce(e) /\ KeyOK(e)
    BY DEF ReceiptsInv
  <2>2. e \notin spoilt' => FirstOK(e) /\ StructuredOK(e) /\ RowOK(e) /\ DeletedOK(e)
    BY <1>4 DEF ReceiptsInv, Matches
  <2>3. StoredOnce(e)'
    BY <1>2, <1>3, <1>4, <1>7, <1>8, <2>1, SharedKept DEF StoredOnce, Stores, TaskMoves
  <2>4. KeyOK(e)'
    BY <1>2, <1>3, <1>4, <1>8, <2>1 DEF KeyOK, Moves, TaskMoves, HasRow
  <2>5. e \notin spoilt' => FirstOK(e)'
    BY <1>2, <1>3, <1>4, <1>8, <2>1, <2>2 DEF FirstOK, Stores, TaskMoves, HasRow
  <2>6. e \notin spoilt' => StructuredOK(e)'
    BY <1>2, <1>3, <1>4, <1>8, <2>1, <2>2 DEF StructuredOK, Moves, TaskMoves, HasRow
  <2>7. e \notin spoilt' => RowOK(e)'
    BY <1>2, <1>3, <1>4, <1>8, <2>1, <2>2, SharedKept DEF RowOK, Moves, HasDeleted, TaskMoves, HasRow
  <2>8. e \notin spoilt' => DeletedOK(e)'
    BY <1>2, <1>3, <1>4, <1>8, <2>1, <2>2 DEF DeletedOK, Moves, HasDeleted, TaskMoves
  <2> QED BY <2>3, <2>4, <2>5, <2>6, <2>7, <2>8 DEF Matches
<1> QED BY <1>6, <1>9 DEF ReceiptsInv

LEMMA CopiesStep ==
    ASSUME ReceiptsInv, name' = name, NEW t \in Tasks, NEW d \in Docs, Copies(t, d)
    PROVE  ReceiptsInv'
<1> DEFINE x == [task[t] EXCEPT !.pc = "copied", !.doc = d]
<1>1. /\ ReceiptsTypeOK /\ task \in [Tasks -> TaskState] /\ TaskOK(task[t])
      /\ row \in [Docs -> RowState]
  BY ReceiptsTypes DEF ReceiptsInv
<1>2. /\ x \in TaskState /\ x.pc = "copied" /\ x.doc = d /\ x.kind = task[t].kind
      /\ x.list = task[t].list /\ x.seen = task[t].seen
      /\ x.left = task[t].left
      /\ task' = [task EXCEPT ![t] = x]
  BY <1>1 DEF TaskState, TaskKinds, Docs, Copies, Over, TaskGoes
<1> HIDE DEF x
<1>3. TaskMoves(t, x)
  <2>1. TaskOK(x)
    BY <1>1, <1>2 DEF TaskOK, Copies, TaskState, RowState, Keys
  <2> QED BY <1>1, <1>2, <2>1, TaskUpdate
<1>4. /\ row' = row /\ spoilt' = spoilt /\ failures' = failures
      /\ objects' = objects \cup {<<d, "structured">>}
      /\ task[t].pc = "moved" /\ d \in task[t].left
      /\ task[t].seen[d].key = "first" /\ task[t].seen[d].status # "none"
  BY <1>1 DEF Copies, TaskOK, TaskState, RowState, Keys

<1>5. \A u \in Tasks : ~Stores(task[u], d)
  <2>1. task[t].seen[d] # NoRow
    BY <1>4 DEF NoRow
  <2>2. StoredOnce(d)
    BY DEF ReceiptsInv
  <2> QED BY <2>1, <2>2, SharedKept DEF StoredOnce
<1>6. ReceiptsTypeOK' /\ \A u \in Tasks : TaskOK(task'[u])
  <2>1. objects' \subseteq Docs \X Keys
    BY <1>1, <1>4, ReceiptsTypes DEF Keys
  <2>2. row' \in [Docs -> RowState] /\ spoilt' \subseteq Docs
    BY <1>1, <1>4 DEF ReceiptsTypeOK
  <2> QED BY <1>3, <1>4, <2>1, <2>2, TypesKept
<1>7. \A e \in Docs : Stored(e) => Stored(e)'
  BY <1>1, <1>2, <1>3, <1>4, StoredKept DEF StoredIt, TaskOK
<1>8. \A e \in Docs : StoredOnce(e)'
  BY <1>2, <1>3, <1>4, <1>5, <1>7, SharedKept DEF ReceiptsInv, StoredOnce, Stores, TaskMoves
<1>9. \A e \in Docs : KeyOK(e)'
  BY <1>2, <1>3, <1>4 DEF ReceiptsInv, KeyOK, Moves, TaskMoves, HasRow
<1>10. ASSUME NEW e \in Docs \ spoilt'
       PROVE  Matches(e)'
  <2>1. /\ FirstOK(e) /\ StructuredOK(e) /\ RowOK(e) /\ DeletedOK(e)
        /\ KeyOK(e) /\ StoredOnce(e)
    BY <1>4, <1>10 DEF ReceiptsInv, Matches
  <2>2. FirstOK(e)'
    BY <1>2, <1>3, <1>4, <1>10, <2>1 DEF FirstOK, Stores, TaskMoves, HasRow
  <2>3. StructuredOK(e)'
    BY <1>2, <1>3, <1>4, <1>10, <2>1 DEF StructuredOK, Moves, TaskMoves, HasRow
  <2>4. RowOK(e)'
    BY <1>2, <1>3, <1>4, <1>10, <2>1, SharedKept DEF RowOK, Moves, HasDeleted, TaskMoves, HasRow
  <2>5. DeletedOK(e)'
    BY <1>2, <1>3, <1>4, <1>10, <2>1 DEF DeletedOK, Moves, HasDeleted, TaskMoves
  <2> QED BY <2>2, <2>3, <2>4, <2>5 DEF Matches
<1> QED BY <1>6, <1>8, <1>9, <1>10 DEF ReceiptsInv

LEMMA DeletesSourceStep ==
    ASSUME ReceiptsInv, name' = name, NEW t \in Tasks, DeletesSource(t)
    PROVE  ReceiptsInv'
<1> DEFINE d == task[t].doc
           x == [task[t] EXCEPT !.left = @ \ {d}]
<1>1. /\ ReceiptsTypeOK /\ task \in [Tasks -> TaskState] /\ TaskOK(task[t])
      /\ row \in [Docs -> RowState]
  BY ReceiptsTypes DEF ReceiptsInv
<1>2. /\ x \in TaskState /\ x.pc = "copied" /\ x.doc = task[t].doc /\ x.kind = task[t].kind
      /\ x.list = task[t].list /\ x.seen = task[t].seen
      /\ x.left = task[t].left \ {d}
      /\ task' = [task EXCEPT ![t] = x]
  BY <1>1 DEF TaskState, TaskKinds, Docs, DeletesSource, Over, TaskGoes
<1> HIDE DEF x
<1>3. TaskMoves(t, x)
  <2>1. TaskOK(x)
    BY <1>1, <1>2 DEF TaskOK, DeletesSource
  <2> QED BY <1>1, <1>2, <2>1, TaskUpdate
<1>4. /\ row' = row /\ spoilt' = spoilt /\ failures' = failures
      /\ objects' \subseteq objects /\ <<d, "first">> \notin objects'
      /\ \A e \in Docs : \A l :
            <<e, l>> \in objects /\ <<e, l>> \notin objects' =>
                l = "first" /\ (e = d \/ Shared(e))
      /\ task[t].pc = "copied" /\ d \in task[t].left /\ d \in Docs
  <2>1. /\ row' = row /\ spoilt' = spoilt /\ failures' = failures
        /\ objects' = objects \ Under(d, "first")
        /\ task[t].pc = "copied" /\ d \in task[t].left /\ d \in Docs
    BY <1>1 DEF DeletesSource, SourceDeleted, Old, TaskOK, Docs
  <2>2. "first" \in Keys
    BY DEF Keys
  <2> QED BY <2>1, <2>2, TakenAway

<1>5. \A u \in Tasks : ~Stores(task[u], d)
  BY <1>4, SharedKept DEF ReceiptsInv, StoredOnce, Stores
<1>6. ReceiptsTypeOK' /\ \A u \in Tasks : TaskOK(task'[u])
  BY <1>1, <1>3, <1>4, TypesKept, ReceiptsTypes DEF Keys, ReceiptsTypeOK, RowState
<1>7. \A e \in Docs : Stored(e) => Stored(e)'
  BY <1>1, <1>2, <1>3, <1>4, StoredKept DEF StoredIt, TaskOK
<1>8. \A e \in Docs : StoredOnce(e)'
  BY <1>2, <1>3, <1>4, <1>5, <1>7, SharedKept DEF ReceiptsInv, StoredOnce, Stores, TaskMoves
<1>9. \A e \in Docs : KeyOK(e)'
  BY <1>2, <1>3, <1>4 DEF ReceiptsInv, KeyOK, Moves, TaskMoves, HasRow
<1>10. ASSUME NEW e \in Docs \ spoilt'
       PROVE  Matches(e)'
  <2>1. /\ FirstOK(e) /\ StructuredOK(e) /\ RowOK(e) /\ DeletedOK(e)
        /\ KeyOK(e) /\ StoredOnce(e)
    BY <1>4, <1>10 DEF ReceiptsInv, Matches
  <2>2. FirstOK(e)'
    BY <1>2, <1>3, <1>4, <1>5, <1>10, <2>1 DEF FirstOK, Stores, TaskMoves, HasRow
  <2>3. StructuredOK(e)'
    BY <1>2, <1>3, <1>4, <1>10, <2>1 DEF StructuredOK, Moves, TaskMoves, HasRow
  <2>4. RowOK(e)'
    BY <1>2, <1>3, <1>4, <1>10, <2>1, SharedKept DEF RowOK, Moves, HasDeleted, TaskMoves, HasRow
  <2>5. DeletedOK(e)'
    BY <1>2, <1>3, <1>4, <1>10, <2>1 DEF DeletedOK, Moves, HasDeleted, TaskMoves
  <2> QED BY <2>2, <2>3, <2>4, <2>5 DEF Matches
<1> QED BY <1>6, <1>8, <1>9, <1>10 DEF ReceiptsInv

LEMMA RekeysStep ==
    ASSUME ReceiptsInv, name' = name, NEW t \in Tasks, Rekeys(t)
    PROVE  ReceiptsInv'
<1> DEFINE d == task[t].doc
           x == [task[t] EXCEPT !.pc = "moved"]
<1>1. /\ ReceiptsTypeOK /\ task \in [Tasks -> TaskState] /\ TaskOK(task[t])
      /\ row \in [Docs -> RowState]
  BY ReceiptsTypes DEF ReceiptsInv
<1>2. /\ x \in TaskState /\ x.pc = "moved" /\ x.doc = task[t].doc /\ x.kind = task[t].kind
      /\ x.list = task[t].list /\ x.seen = task[t].seen
      /\ x.left = task[t].left
      /\ task' = [task EXCEPT ![t] = x]
  BY <1>1 DEF TaskState, TaskKinds, Docs, Rekeys, Over, TaskGoes
<1> HIDE DEF x
<1>3. TaskMoves(t, x)
  <2>1. TaskOK(x)
    BY <1>1, <1>2 DEF TaskOK, Rekeys
  <2> QED BY <1>1, <1>2, <2>1, TaskUpdate
<1>4. /\ objects' = objects /\ failures' = failures
      /\ task[t].pc = "copied" /\ d \notin task[t].left /\ d \in Docs
      /\ spoilt' = IF Stale(t, d) THEN spoilt \cup {d} ELSE spoilt
      /\ row' = IF HasRow(d) THEN [row EXCEPT ![d].key = "structured"] ELSE row
      /\ row' \in [Docs -> RowState]
  BY <1>1 DEF Rekeys, KeyWritten, TaskOK, Docs, RowState, Keys

<1>5. /\ d \notin spoilt' => HasRow(d) /\ row[d].key = "first"
      /\ <<d, "first">> \notin objects
      /\ HasRow(d) /\ row[d].key = "first" => <<d, "structured">> \in objects
      /\ \A u \in Tasks : ~Stores(task[u], d)
  <2>1. d \notin spoilt' => HasRow(d) /\ row[d].key = "first"
    BY <1>1, <1>4 DEF Stale, TaskOK
  <2>2. /\ <<d, "first">> \notin objects
        /\ HasRow(d) /\ row[d].key = "first" => <<d, "structured">> \in objects
    BY <1>4 DEF ReceiptsInv, KeyOK, Moves
  <2>3. \A u \in Tasks : ~Stores(task[u], d)
    BY <1>4, SharedKept DEF ReceiptsInv, StoredOnce, Stores
  <2> QED BY <2>1, <2>2, <2>3
<1>6. ReceiptsTypeOK' /\ \A u \in Tasks : TaskOK(task'[u])
  BY <1>1, <1>3, <1>4, TypesKept, ReceiptsTypes DEF Keys, ReceiptsTypeOK, RowState
<1>7. \A e \in Docs : Stored(e) => Stored(e)'
  BY <1>1, <1>2, <1>3, <1>4, StoredKept DEF StoredIt, TaskOK
<1>8. ASSUME NEW e \in Docs
      PROVE  /\ e # d => row'[e] = row[e]
             /\ HasRow(d) => row'[d].key = "structured" /\ row'[d].status = row[d].status
             /\ ~HasRow(d) => row'[d] = row[d]
             /\ row[e] = NoRow => row'[e] = NoRow
  <2>1. /\ e # d => row'[e] = row[e]
        /\ HasRow(d) => row'[d].key = "structured" /\ row'[d].status = row[d].status
        /\ ~HasRow(d) => row'[d] = row[d]
    BY <1>1, <1>4 DEF RowState
  <2>2. row[d] = NoRow => ~HasRow(d)
    BY DEF HasRow, NoRow
  <2> QED BY <2>1, <2>2
<1>9. ASSUME NEW e \in Docs
      PROVE  StoredOnce(e)' /\ KeyOK(e)' /\ (e \notin spoilt' => Matches(e)')
  <2>1. StoredOnce(e) /\ KeyOK(e)
    BY DEF ReceiptsInv
  <2>2. e \notin spoilt' => FirstOK(e) /\ StructuredOK(e) /\ RowOK(e) /\ DeletedOK(e)
    BY <1>4 DEF ReceiptsInv, Matches
  <2>3. StoredOnce(e)'
    BY <1>2, <1>3, <1>4, <1>7, <1>8, <2>1, <1>5, SharedKept DEF StoredOnce, Stores, TaskMoves
  <2>4. KeyOK(e)'
    BY <1>2, <1>3, <1>4, <1>8, <2>1, <1>5 DEF KeyOK, Moves, TaskMoves, HasRow
  <2>5. e \notin spoilt' => FirstOK(e)'
    BY <1>2, <1>3, <1>4, <1>8, <2>1, <2>2, <1>5 DEF FirstOK, Stores, TaskMoves, HasRow
  <2>6. e \notin spoilt' => StructuredOK(e)'
    BY <1>2, <1>3, <1>4, <1>8, <2>1, <2>2, <1>5 DEF StructuredOK, Moves, TaskMoves, HasRow
  <2>7. e \notin spoilt' => RowOK(e)'
    <3>1. CASE e = d
      BY <1>4, <1>5, <1>8, <3>1, SharedKept DEF RowOK, HasRow
    <3>2. CASE e # d
      <4>1. \A u \in Tasks : /\ Moves(task[u], e) => Moves(task'[u], e)
                             /\ HasDeleted(task[u], e) => HasDeleted(task'[u], e)
                             /\ e \in task[u].left <=> e \in task'[u].left
        BY <1>2, <1>3, <1>4, <3>2 DEF Moves, HasDeleted, TaskMoves
      <4>2. row'[e] = row[e] /\ objects' = objects
        BY <1>4, <1>8, <3>2
      <4>3. RowOK(e) => RowOK(e)'
        BY <4>1, <4>2, SharedKept DEF RowOK, HasRow, Moves, HasDeleted
      <4> QED BY <2>2, <4>3
    <3> QED BY <3>1, <3>2
  <2>8. e \notin spoilt' => DeletedOK(e)'
    <3>1. \A u \in Tasks : /\ HasDeleted(task'[u], e) => HasDeleted(task[u], e)
                           /\ task'[u].seen[e] = task[u].seen[e]
                           /\ Moves(task[u], e) => Moves(task'[u], e) \/ e = d
      BY <1>2, <1>3, <1>4 DEF Moves, HasDeleted, TaskMoves
    <3> HIDE DEF d
    <3>2. CASE e = d
      <4>1. e \notin spoilt' => \A u \in Tasks : task[u].seen[e].key = "first"
        BY <1>1, <1>5, <2>1, <3>2 DEF KeyOK, TaskState, RowState, Keys
      <4> QED BY <1>4, <1>5, <3>1, <3>2, <4>1 DEF DeletedOK, HasDeleted
    <3>3. CASE e # d
      <4>1. DeletedOK(e) => DeletedOK(e)'
        BY <1>4, <3>1, <3>3 DEF DeletedOK, HasDeleted, Moves
      <4> QED BY <2>2, <4>1
    <3> QED BY <3>2, <3>3
  <2> QED BY <2>3, <2>4, <2>5, <2>6, <2>7, <2>8 DEF Matches
<1> QED BY <1>6, <1>9 DEF ReceiptsInv

LEMMA DeletesObjectStep ==
    ASSUME ReceiptsInv, name' = name, NEW t \in Tasks, NEW d \in Docs, DeletesObject(t, d)
    PROVE  ReceiptsInv'
<1> DEFINE x == [task[t] EXCEPT !.left = @ \ {d}]
           k == task[t].seen[d].key
<1>1. /\ ReceiptsTypeOK /\ task \in [Tasks -> TaskState] /\ TaskOK(task[t])
      /\ row \in [Docs -> RowState]
  BY ReceiptsTypes DEF ReceiptsInv
<1>2. /\ x \in TaskState /\ x.pc = "listed" /\ x.doc = task[t].doc /\ x.kind = task[t].kind
      /\ x.list = task[t].list /\ x.seen = task[t].seen
      /\ x.left = task[t].left \ {d}
      /\ task' = [task EXCEPT ![t] = x]
  BY <1>1 DEF TaskState, DeletesObject
<1> HIDE DEF x
<1>3. TaskMoves(t, x)
  <2>1. TaskOK(x)
    BY <1>1, <1>2 DEF TaskOK, DeletesObject
  <2> QED BY <1>1, <1>2, <2>1, TaskUpdate
<1>4. /\ row' = row /\ task[t].pc = "listed" /\ d \in task[t].left
      /\ d \in task[t].list /\ task[t].kind \in {"discard", "remove", "collect"}
      /\ k \in Keys /\ task[t].seen[d].status # "none"
      /\ objects' \subseteq objects
      /\ \A e \in Docs : \A l :
            <<e, l>> \in objects /\ <<e, l>> \notin objects' =>
                l = k /\ (e = d \/ (k = "first" /\ Shared(e)))
      /\ \/ <<d, k>> \notin objects' /\ failures' = failures
            /\ spoilt' = IF row[d] # task[t].seen[d] THEN spoilt \cup {d} ELSE spoilt
         \/ spoilt' = spoilt \cup {d} /\ Fault
  <2>1. /\ row' = row /\ task[t].pc = "listed" /\ d \in task[t].left
        /\ d \in task[t].list /\ task[t].kind \in {"discard", "remove", "collect"}
        /\ k \in Keys /\ task[t].seen[d].status # "none"
        /\ \/ objects' = objects \ Under(d, k) /\ failures' = failures
              /\ spoilt' = IF row[d] # task[t].seen[d] THEN spoilt \cup {d} ELSE spoilt
           \/ objects' = objects /\ spoilt' = spoilt \cup {d} /\ Fault
    BY <1>1 DEF DeletesObject, Old, Changed, TaskOK, TaskState, RowState
  <2>2. CASE objects' = objects \ Under(d, k)
    BY <2>1, <2>2, TakenAway
  <2>3. CASE objects' = objects /\ spoilt' = spoilt \cup {d} /\ Fault
    BY <2>1, <2>3
  <2> QED BY <2>1, <2>2, <2>3
<1>5. \A u \in Tasks : ~Stores(task[u], d)
  <2>1. task[t].seen[d] # NoRow
    BY <1>4 DEF NoRow
  <2>2. StoredOnce(d)
    BY DEF ReceiptsInv
  <2> QED BY <2>1, <2>2, SharedKept DEF StoredOnce
<1>6. ReceiptsTypeOK' /\ \A u \in Tasks : TaskOK(task'[u])
  BY <1>1, <1>3, <1>4, TypesKept, ReceiptsTypes DEF ReceiptsTypeOK
<1>7. \A e \in Docs : Stored(e) => Stored(e)'
  BY <1>1, <1>2, <1>3, <1>4, StoredKept DEF StoredIt
<1>8. \A u \in Tasks, e \in Docs :
         /\ Stores(task'[u], e) <=> Stores(task[u], e)
         /\ Moves(task'[u], e) <=> Moves(task[u], e)
         /\ HasDeleted(task[u], e) => HasDeleted(task'[u], e)
         /\ HasDeleted(task'[u], e) => HasDeleted(task[u], e) \/ (u = t /\ e = d)
         /\ task'[u].seen = task[u].seen /\ task'[u].doc = task[u].doc
         /\ task'[u].pc = task[u].pc
         /\ Moves(task[u], e) => (e \in task'[u].left <=> e \in task[u].left)
  BY <1>2, <1>3, <1>4 DEF TaskMoves, Stores, Moves, HasDeleted
<1>9. ASSUME NEW e \in Docs
      PROVE  StoredOnce(e)' /\ KeyOK(e)' /\ (e \notin spoilt' => Matches(e)')
  <2>1. StoredOnce(e) /\ KeyOK(e)
    BY DEF ReceiptsInv
  <2>2. e \notin spoilt' => FirstOK(e) /\ StructuredOK(e) /\ RowOK(e) /\ DeletedOK(e)
    BY <1>4 DEF ReceiptsInv, Matches
  <2>3. StoredOnce(e)'
    BY <1>4, <1>5, <1>7, <1>8, <2>1, SharedKept DEF StoredOnce, Stores
  <2>4. KeyOK(e)'
    <3>1. CASE e # d
      BY <1>4, <1>8, <2>1, <3>1 DEF KeyOK, Moves, HasRow
    <3>2. CASE e = d
      <4>1. ASSUME <<d, "structured">> \notin objects', <<d, "structured">> \in objects
            PROVE  ~(HasRow(d) /\ row[d].key = "first")
        BY <1>4, <2>1, <3>2, <4>1 DEF KeyOK, HasRow
      <4> QED BY <1>4, <1>8, <2>1, <3>2, <4>1 DEF KeyOK, Moves, HasRow
    <3> QED BY <3>1, <3>2
  <2>5. e \notin spoilt' => FirstOK(e)'
    BY <1>4, <1>8, <2>2 DEF FirstOK, HasRow, Stores
  <2>6. e \notin spoilt' => StructuredOK(e)'
    BY <1>4, <1>8, <2>2 DEF StructuredOK, HasRow, Moves
  <2>7. e \notin spoilt' => RowOK(e)'
    <3>1. e # d => (RowOK(e) => RowOK(e)')
      BY <1>4, <1>8, SharedKept DEF RowOK, HasRow, Moves, HasDeleted
    <3>2. HasDeleted(task'[t], d)
      BY <1>2, <1>3, <1>4 DEF HasDeleted, TaskMoves
    <3>3. RowOK(d)'
      BY <3>2, SharedKept DEF RowOK, HasDeleted
    <3> QED BY <2>2, <3>1, <3>3
  <2>8. e \notin spoilt' => DeletedOK(e)'
    <3>1. e # d => (DeletedOK(e) => DeletedOK(e)')
      BY <1>4, <1>8 DEF DeletedOK, HasDeleted, Moves
    <3>2. CASE e = d /\ e \notin spoilt'
      <4>1. <<d, k>> \notin objects' /\ objects' \subseteq objects /\ row[d] = task[t].seen[d]
        BY <1>4, <3>2
      <4>2. DeletedOK(d)
        BY <2>2, <3>2
      <4>3. ASSUME NEW u \in Tasks, HasDeleted(task'[u], d),
                   <<d, task'[u].seen[d].key>> \in objects'
            PROVE  task'[u].seen[d].key = "structured" /\ \E v \in Tasks : Moves(task'[v], d)
        BY <1>8, <4>1, <4>2, <4>3 DEF DeletedOK
      <4> QED BY <3>2, <4>3 DEF DeletedOK, HasDeleted, Moves
    <3> QED BY <2>2, <3>1, <3>2
  <2> QED BY <2>3, <2>4, <2>5, <2>6, <2>7, <2>8 DEF Matches
<1> QED BY <1>6, <1>9 DEF ReceiptsInv

(* Whose row goes, with a document that is not spoilt: the documents the   *)
(* task has read, and deleted the objects of, and no other.                *)
LEMMA DeletesRowsStep ==
    ASSUME ReceiptsInv, name' = name, NEW t \in Tasks, DeletesRows(t)
    PROVE  ReceiptsInv'
<1> DEFINE x == [task[t] EXCEPT !.pc = "over"]
<1>1. /\ ReceiptsTypeOK /\ task \in [Tasks -> TaskState] /\ TaskOK(task[t])
      /\ row \in [Docs -> RowState]
  BY ReceiptsTypes DEF ReceiptsInv
<1>2. /\ x \in TaskState /\ x.pc = "over" /\ x.doc = task[t].doc /\ x.kind = task[t].kind
      /\ x.list = task[t].list /\ x.seen = task[t].seen /\ x.left = task[t].left
      /\ task' = [task EXCEPT ![t] = x]
  BY <1>1 DEF TaskState, DeletesRows, Over, TaskGoes
<1> HIDE DEF x
<1>3. TaskMoves(t, x)
  <2>1. TaskOK(x)
    BY <1>1, <1>2 DEF TaskOK, DeletesRows
  <2> QED BY <1>1, <1>2, <2>1, TaskUpdate
<1>4. /\ objects' = objects /\ failures' = failures
      /\ task[t].pc = "listed" /\ task[t].kind \in {"discard", "remove", "collect"}
      /\ task[t].left = {}
      /\ spoilt' = spoilt \cup {e \in Doomed(t) \cup task[t].list : row[e] # task[t].seen[e]}
      /\ row' = [e \in Docs |-> IF e \in Doomed(t) THEN NoRow ELSE row[e]]
  BY DEF DeletesRows, RowsGone, Changed
<1>5. Doomed(t) \cup task[t].list \subseteq Staged /\ Staged \subseteq Docs
  BY <1>1 DEF Doomed, StagedRows, ImportRows, TaskOK, Docs
<1>6. ReceiptsTypeOK' /\ \A u \in Tasks : TaskOK(task'[u])
  <2>1. NoRow \in RowState
    BY DEF NoRow, RowState, Keys
  <2>2. row' \in [Docs -> RowState]
    BY <1>1, <1>4, <2>1
  <2>3. spoilt' \subseteq Docs /\ objects' \subseteq Docs \X Keys
    BY <1>1, <1>4, <1>5, ReceiptsTypes DEF ReceiptsTypeOK
  <2> QED BY <1>3, <1>4, <2>2, <2>3, TypesKept
<1>7. \A e \in Docs : Stored(e) => Stored(e)'
  BY <1>1, <1>2, <1>3, <1>4, StoredKept DEF StoredIt
<1>8. \A u \in Tasks, e \in Docs :
         /\ Stores(task'[u], e) <=> Stores(task[u], e)
         /\ Moves(task'[u], e) <=> Moves(task[u], e)
         /\ HasDeleted(task'[u], e) => HasDeleted(task[u], e)
         /\ HasDeleted(task[u], e) => HasDeleted(task'[u], e) \/ u = t
         /\ task'[u].seen = task[u].seen /\ task'[u].doc = task[u].doc
         /\ Stores(task[u], e) => task'[u].pc = task[u].pc
         /\ task'[u].left = task[u].left
  BY <1>2, <1>3, <1>4 DEF TaskMoves, Stores, Moves, HasDeleted
<1>9. \A e \in Docs : row'[e] = row[e] \/ row'[e] = NoRow
  BY <1>4
<1>10. NoRow.status = "none"
  BY DEF NoRow
<1>11. ASSUME NEW e \in Docs \ spoilt'
       PROVE  IF e \in Doomed(t)
              THEN row'[e] = NoRow /\ row[e] = task[t].seen[e] /\ HasDeleted(task[t], e)
              ELSE row'[e] = row[e] /\ ~HasDeleted(task[t], e)
  <2>1. e \in Doomed(t) \cup task[t].list => row[e] = task[t].seen[e]
    BY <1>4, <1>11
  <2>2. e \in Doomed(t) => e \in task[t].list
    BY <1>1, <1>4, <1>5, <2>1 DEF Doomed, StagedRows, ImportRows, HasRow, TaskOK
  <2>3. e \in task[t].list => e \in Doomed(t)
    BY <1>1, <1>4, <1>5, <2>1 DEF Doomed, StagedRows, ImportRows, HasRow, TaskOK
  <2> QED BY <1>4, <1>11, <2>1, <2>2, <2>3 DEF HasDeleted
<1>12. ASSUME NEW e \in Docs
       PROVE  StoredOnce(e)' /\ KeyOK(e)'
  <2>1. StoredOnce(e) /\ KeyOK(e)
    BY DEF ReceiptsInv
  <2>2. StoredOnce(e)'
    BY <1>4, <1>7, <1>8, <1>9, <2>1, SharedKept DEF StoredOnce, Stores
  <2>3. KeyOK(e)'
    BY <1>4, <1>8, <1>9, <1>10, <2>1 DEF KeyOK, Moves, HasRow
  <2> QED BY <2>2, <2>3
<1>13. ASSUME NEW e \in Docs \ spoilt'
       PROVE  Matches(e)'
  <2>1. FirstOK(e) /\ StructuredOK(e) /\ RowOK(e) /\ DeletedOK(e)
    BY <1>4, <1>13 DEF ReceiptsInv, Matches
  <2>2. DeletedOK(e)'
    BY <1>4, <1>8, <2>1 DEF DeletedOK, HasDeleted, Moves
  <2>3. CASE e \notin Doomed(t)
    <3>1. row'[e] = row[e] /\ ~HasDeleted(task[t], e)
      BY <1>11, <1>13, <2>3
    <3>2. FirstOK(e)'
      BY <1>4, <1>8, <2>1, <3>1 DEF FirstOK, HasRow, Stores
    <3>3. StructuredOK(e)'
      BY <1>4, <1>8, <2>1, <3>1 DEF StructuredOK, HasRow, Moves
    <3>4. RowOK(e)'
      BY <1>4, <1>8, <2>1, <3>1, SharedKept DEF RowOK, HasRow, Moves, HasDeleted
    <3> QED BY <2>2, <3>2, <3>3, <3>4 DEF Matches
  <2>4. CASE e \in Doomed(t)
    <3>1. row'[e] = NoRow /\ row[e] = task[t].seen[e] /\ HasDeleted(task[t], e)
      BY <1>11, <1>13, <2>4
    <3>2. <<e, row[e].key>> \in objects =>
             row[e].key = "structured" /\ \E u \in Tasks : Moves(task[u], e)
      BY <2>1, <3>1 DEF DeletedOK
    <3>3. FirstOK(e)'
      BY <1>4, <1>8, <2>1, <3>2 DEF FirstOK, Stores
    <3>4. StructuredOK(e)'
      BY <1>4, <1>8, <2>1, <3>2 DEF StructuredOK, Moves
    <3>5. RowOK(e)'
      BY <1>10, <3>1, SharedKept DEF RowOK, HasRow
    <3> QED BY <2>2, <3>3, <3>4, <3>5 DEF Matches
  <2> QED BY <2>3, <2>4
<1> QED BY <1>6, <1>12, <1>13 DEF ReceiptsInv

LEMMA ReceiptsInvStep ==
    ASSUME ReceiptsInv, [ReceiptsNext]_receiptVars
    PROVE  ReceiptsInv'
<1>1. CASE UNCHANGED receiptVars
  <2>1. /\ objects' = objects /\ row' = row /\ task' = task /\ failures' = failures
        /\ spoilt' = spoilt /\ name' = name
    BY <1>1 DEF receiptVars
  <2>2. ReceiptsTypeOK'
    BY <2>1 DEF ReceiptsInv, ReceiptsTypeOK
  <2>3. \A t \in Tasks : TaskOK(task'[t])
    BY <2>1 DEF ReceiptsInv
  <2>4. \A d \in Docs : StoredOnce(d)'
    BY <2>1, SharedKept DEF ReceiptsInv, StoredOnce, Stored, StoredIt, Stores
  <2>5. \A d \in Docs : KeyOK(d)'
    BY <2>1 DEF ReceiptsInv, KeyOK, Moves, HasRow
  <2>6. \A d \in Docs \ spoilt' : FirstOK(d)'
    BY <2>1 DEF ReceiptsInv, Matches, FirstOK, Stores, HasRow
  <2>7. \A d \in Docs \ spoilt' : StructuredOK(d)'
    BY <2>1 DEF ReceiptsInv, Matches, StructuredOK, Moves, HasRow
  <2>8. \A d \in Docs \ spoilt' : RowOK(d)' /\ DeletedOK(d)'
    BY <2>1, SharedKept DEF ReceiptsInv, Matches, RowOK, DeletedOK, HasDeleted, Moves, HasRow
  <2> QED BY <2>2, <2>3, <2>4, <2>5, <2>6, <2>7, <2>8 DEF ReceiptsInv, Matches
<1>2. ASSUME NEW t \in Tasks, NEW d \in Docs,
             name' = name, Puts(t, d) \/ Copies(t, d) \/ CopyFails(t, d) \/ DeletesObject(t, d)
      PROVE  ReceiptsInv'
  BY <1>2, PutsStep, CopiesStep, CopyFailsStep, DeletesObjectStep
<1>3. ASSUME NEW t \in Tasks, NEW kind \in TaskKinds, NEW ds \in SUBSET Staged,
             name' = name, Lists(t, kind, ds)
      PROVE  ReceiptsInv'
  BY <1>3, ListsStep
<1>4. ASSUME NEW t \in Tasks, name' = name, Inserts(t)
      PROVE  ReceiptsInv'
  BY <1>4, InsertLost, InsertMade
<1>5. ASSUME NEW t \in Tasks, name' = name,
             \/ InsertFails(t) \/ LosesRace(t) \/ Retains(t)
             \/ DeletesSource(t) \/ Rekeys(t) \/ MoveFails(t) \/ Moved(t)
             \/ DeletesRows(t) \/ RowsFail(t)
      PROVE  ReceiptsInv'
  BY <1>5, InsertFailsStep, LosesRaceStep, RetainsStep, DeletesSourceStep, RekeysStep,
       MoveFailsStep, MovedStep, DeletesRowsStep, RowsFailStep
<1> QED BY <1>1, <1>2, <1>3, <1>4, <1>5 DEF ReceiptsNext, receiptVars

LEMMA ReceiptsInvHolds == ReceiptsSpec => []ReceiptsInv
BY ReceiptsInvInit, ReceiptsInvStep, PTL DEF ReceiptsSpec

(* The types of the store, the rows and the functions at work on them.     *)
THEOREM ReceiptsTypeCorrect == ReceiptsSpec => []ReceiptsTypeOK
BY ReceiptsInvHolds, PTL DEF ReceiptsInv

(* Whatever functions meet over the documents of an import and whichever   *)
(* calls fail: when no function works on a document any more, and none was *)
(* left half done or overtaken on it, its row names an object, if the file *)
(* name is the document's own; and the object last put for it, if any is   *)
(* left, is the one its row names.  Identical uploads that race do have    *)
(* their name, hence their key, in common (keys.ts:21): of such a row the  *)
(* theorem does not say that its object is there, and it may not be        *)
(* (inbox.ts:158-160, lifecycle.ts:102-125).                               *)
THEOREM RowsAndObjectsMatch == ReceiptsSpec => []RowsMatchObjects
<1>1. ASSUME ReceiptsInv, NEW d \in Docs \ spoilt, AtRest(d)
      PROVE  /\ HasRow(d) /\ ~Shared(d) => Stands(d, row[d].key)
             /\ \A k \in Keys : <<d, k>> \in objects => HasRow(d) /\ row[d].key = k
  <2>1. \A t \in Tasks : ~Stores(task[t], d) /\ ~Moves(task[t], d) /\ ~HasDeleted(task[t], d)
    BY <1>1 DEF AtRest, Stores, Moves, HasDeleted
  <2>2. FirstOK(d) /\ StructuredOK(d) /\ RowOK(d)
    BY <1>1 DEF ReceiptsInv, Matches
  <2>3. <<d, row[d].key>> \in Under(d, row[d].key)
    BY <1>1, ReceiptsTypes, UnderIs DEF ReceiptsInv, RowState
  <2>4. HasRow(d) /\ ~Shared(d) => Stands(d, row[d].key)
    BY <2>1, <2>2, <2>3 DEF RowOK, Stands
  <2>5. \A k \in Keys : <<d, k>> \in objects => HasRow(d) /\ row[d].key = k
    BY <2>1, <2>2 DEF FirstOK, StructuredOK, Keys
  <2> QED BY <2>4, <2>5
<1>2. ReceiptsInv => RowsMatchObjects
  BY <1>1 DEF RowsMatchObjects
<1> QED BY <1>2, ReceiptsInvHolds, PTL

-----------------------------------------------------------------------------
(* Prices and snapshots.                                                   *)

(* A set of numbers has a least one, because < is well-founded on Nat; and *)
(* a bounded one has a greatest.                                           *)
LEMMA NatMin ==
    ASSUME NEW S \in SUBSET Nat, S # {}
    PROVE  \E x \in S : \A y \in S : x <= y
<1> DEFINE R == OpToRel(<, Nat)
<1>1. PICK x \in S : \A y \in S : ~ (<<y, x>> \in R)
  <2> HIDE DEF R
  <2>1. IsWellFoundedOn(R, Nat)
    BY NatLessThanWellFounded DEF R
  <2> QED BY <2>1, WFMin
<1>2. \A y \in S : y < x => <<y, x>> \in R
  BY DEF OpToRel
<1> HIDE DEF R
<1>3. \A y \in S : ~ (y < x)
  BY <1>1, <1>2
<1> QED BY <1>3

LEMMA MinIs ==
    ASSUME NEW S \in SUBSET Nat, S # {}
    PROVE  Min(S) \in S /\ \A y \in S : Min(S) <= y
BY NatMin DEF Min

LEMMA MaxIs ==
    ASSUME NEW n \in Nat, NEW S \in SUBSET (0 .. n), S # {}
    PROVE  Max(S) \in S /\ \A y \in S : y <= Max(S)
<1> DEFINE Below == {n - y : y \in S}
<1>1. Below \in SUBSET Nat /\ Below # {}
  <2>1. \A y \in S : n - y \in Nat
    OBVIOUS
  <2> QED BY <2>1
<1>2. PICK m \in Below : \A k \in Below : m <= k
  BY <1>1, NatMin
<1>3. PICK x \in S : m = n - x
  OBVIOUS
<1>4. \A y \in S : n - x <= n - y
  BY <1>2, <1>3
<1>5. x \in S /\ \A y \in S : x >= y
  BY <1>4
<1>6. Max(S) \in S /\ \A y \in S : Max(S) >= y
  BY <1>5 DEF Max
<1> QED BY <1>6

-----------------------------------------------------------------------------
(* The window of the job under way begins here.                            *)
JobStart == LaterDay(job.from, first)
Underway == job.pc # "none"
InWindow == job.pc \in {"started", "fetched", "stored"}

JobType ==
    [pc: JobState, from: Days \cup {Inception}, tailOnly: BOOLEAN, retryDead: BOOLEAN,
     try: 0 .. RetryLimit, start: Days, now: Days, got: SUBSET Days]

JobInv ==
    /\ first <= today /\ \A p \in prices : p <= today
    /\ ~Underway => job = NoJob
    /\ InWindow => job.start = JobStart /\ job.start <= job.now /\ job.now <= today
    /\ InWindow => \A p \in job.got : job.start <= p /\ p <= today

(* A snapshot is right, or a job under way will write it again; the days   *)
(* that a job does not write because they came after it have none.         *)
SnapOK(d) ==
    \/ snap[d] \in {Missing, Worth(d)}
    \/ snap[d] = AtCost /\ \A p \in prices : ~(since[d] <= p /\ p <= d)
SnapsInv ==
    /\ ~failed => \A d \in first .. today : SnapOK(d) \/ (Underway /\ JobStart <= d)
    /\ \A d \in Days : today < d => snap[d] = Missing
    /\ InWindow => \A d \in Days : job.now < d => snap[d] = Missing

(* What a sweep passes over, seen from a day without its price: the last   *)
(* price before it and the first after it are close enough.                *)
LastBefore(p, x) == p < x /\ \A q \in prices : q < x => q <= p
FirstAfter(q, x) == x < q /\ \A r \in prices : x < r => q <= r
HoleOK(x) ==
    /\ prices # {}
    /\ \A p \in prices : LastBefore(p, x) =>
          /\ (\A q \in prices : q <= x) => today - p <= Carry
          /\ p >= today - Lookback => \A q \in prices : FirstAfter(q, x) => q - p <= Carry

(* Such a day lies in the window of a job that has not fetched it yet, or  *)
(* was passed over.                                                        *)
Absent == {x \in feed : first <= x /\ x <= today /\ x \notin prices}
HolesInv ==
    /\ calm => \A x \in Absent : HoleOK(x) \/ (Underway /\ JobStart <= x)
    /\ calm /\ job.pc = "fetched" =>
          \A x \in feed : job.start <= x /\ x <= today => x \in job.got
    /\ calm /\ job.pc = "stored" =>
          \A x \in feed : job.start <= x /\ x <= today => x \in prices

HealInv == HealTypeOK /\ JobInv /\ SnapsInv /\ HolesInv

LEMMA HealTypes ==
    HealTypeOK => /\ job \in JobType /\ today \in Nat /\ first \in Nat
                  /\ today \in Days /\ first \in Days /\ prices \subseteq Days
                  /\ Days \subseteq Nat /\ Days \subseteq 1 .. LastDay
                  /\ LastDay \in Nat /\ Carry \in Nat /\ Lookback \in Nat /\ Threshold \in Nat
                  /\ RetryLimit \in Nat /\ JobStart \in Days
<1> SUFFICES ASSUME HealTypeOK
             PROVE  /\ job \in JobType /\ today \in Nat /\ first \in Nat
                    /\ today \in Days /\ first \in Days /\ prices \subseteq Days
                    /\ Days \subseteq Nat /\ Days \subseteq 1 .. LastDay
                    /\ LastDay \in Nat /\ Carry \in Nat /\ Lookback \in Nat /\ Threshold \in Nat
                    /\ RetryLimit \in Nat /\ JobStart \in Days
  OBVIOUS
<1>1. job \in JobType /\ today \in Days /\ first \in Days /\ prices \subseteq Days
  BY DEF HealTypeOK, JobType
<1>2. /\ LastDay \in Nat /\ Carry \in Nat /\ Lookback \in Nat /\ Threshold \in Nat
      /\ RetryLimit \in Nat
  BY ConstantsAssumption
<1>3. Days \subseteq Nat /\ Days \subseteq 1 .. LastDay
  BY DEF Days
<1>4. job.from \in Days \cup {Inception}
  BY <1>1 DEF JobType
<1>5. JobStart \in Days
  BY <1>1, <1>3, <1>4 DEF JobStart, LaterDay, Inception
<1> QED BY <1>1, <1>2, <1>3, <1>5

LEMMA NoJobType == NoJob \in JobType /\ NoJob.pc = "none" /\ NoJob.got = {}
BY ConstantsAssumption DEF NoJob, JobType, JobState, Days, Inception

LEMMA HealInvInit == HealInit => HealInv
<1> SUFFICES ASSUME HealInit
             PROVE  HealInv
  OBVIOUS
<1>1. HealTypeOK
  <2>1. 1 \in Days
    BY ConstantsAssumption DEF Days
  <2>2. /\ today \in Days /\ first \in Days /\ feed \subseteq Days /\ prices \subseteq Days
        /\ edits \in 0 .. MaxEdits /\ faults \in 0 .. MaxFaults
    BY <2>1, ConstantsAssumption DEF HealInit
  <2>3. miss \in [count: Nat, last: Days \cup {Never}]
    BY DEF HealInit
  <2>4. /\ snap \in [Days -> Days \cup {Missing, AtCost, Unpriced}]
        /\ since \in [Days -> Days]
    BY <2>1 DEF HealInit
  <2>5. job \in JobType
    BY NoJobType DEF HealInit
  <2>6. swept \in 0 .. MaxSweeps /\ calm \in BOOLEAN /\ failed \in BOOLEAN
    <3>1. swept = 0 /\ calm = FALSE /\ failed = FALSE
      BY DEF HealInit
    <3>2. 0 \in 0 .. MaxSweeps
      BY ConstantsAssumption
    <3> QED BY <3>1, <3>2
  <2> QED BY <2>2, <2>3, <2>4, <2>5, <2>6 DEF HealTypeOK, JobType
<1>2. JobInv
  BY NoJobType DEF HealInit, JobInv, Underway, InWindow
<1>3. SnapsInv
  BY NoJobType, ConstantsAssumption
     DEF HealInit, SnapsInv, SnapOK, Underway, InWindow, Days, Missing
<1>4. HolesInv
  BY NoJobType DEF HealInit, HolesInv
<1> QED BY <1>1, <1>2, <1>3, <1>4 DEF HealInv

(* The job a sweep sends begins at a day that has come.                    *)
LEMMA MidGapDays ==
    ASSUME HealTypeOK, JobInv, NEW rd \in BOOLEAN
    PROVE  MidGapStarts(rd) \subseteq 1 .. today
<1> SUFFICES ASSUME NEW x \in HoleEnds(SeenByGapQuery)
             PROVE  LaterDay(HoleStart(SeenByGapQuery, x), first) \in 1 .. today
  BY DEF MidGapStarts
<1> DEFINE S == {p \in SeenByGapQuery : p < x}
<1>1. x \in prices /\ x \in Nat /\ x <= today /\ S # {} /\ S \in SUBSET (0 .. LastDay)
  BY HealTypes DEF HoleEnds, SeenByGapQuery, JobInv
<1>2. Max(S) \in S
  BY <1>1, HealTypes, MaxIs
<1>3. Max(S) \in Nat /\ Max(S) < x
  BY <1>1, <1>2
<1> QED BY <1>1, <1>3, HealTypes DEF LaterDay, HoleStart, JobInv

LEMMA SweepFrom ==
    ASSUME HealTypeOK, JobInv, NEW full \in BOOLEAN, NEW rd \in BOOLEAN,
           full \/ TrailingStale(rd) \/ MidGapStarts(rd) # {}
    PROVE  /\ HealFrom(full, rd) \in Days \cup {Inception}
           /\ ~SkipsDeadFeed(rd) /\ prices # {} /\ HealFrom(full, rd) # Inception =>
                 HealFrom(full, rd) <= Max(prices) + 1
           /\ HealFrom(full, rd) # Inception => \A s \in MidGapStarts(rd) : HealFrom(full, rd) <= s
           /\ HealFrom(full, rd) # Inception => prices # {}
<1> DEFINE trailing == IF SkipsDeadFeed(rd) \/ prices = {} THEN {} ELSE {TrailingFrom}
           starts   == trailing \cup MidGapStarts(rd)
<1>1. HealFrom(full, rd) = IF full \/ starts = {} THEN Inception ELSE Min(starts)
  BY DEF HealFrom
<1>2. MidGapStarts(rd) \subseteq 1 .. today
  BY MidGapDays
<1>3. ASSUME prices # {}
      PROVE  Max(prices) \in prices /\ \A p \in prices : p <= Max(prices)
  <2>1. prices \in SUBSET (0 .. LastDay)
    BY HealTypes
  <2> QED BY <1>3, <2>1, HealTypes, MaxIs
<1>4. prices = {} => MidGapStarts(rd) = {}
  BY DEF MidGapStarts, HoleEnds, SeenByGapQuery
<1>5. starts \in SUBSET Nat /\ \A s \in starts : s >= 1
  <2>1. trailing \subseteq Nat /\ \A s \in trailing : s >= 1
    BY <1>3, HealTypes DEF TrailingFrom
  <2> QED BY <1>2, <2>1
<1>6. CASE full \/ starts = {}
  BY <1>1, <1>6
<1>7. CASE ~full /\ starts # {}
  <2> DEFINE m == Min(starts)
  <2>1. HealFrom(full, rd) = m
    BY <1>1, <1>7
  <2>2. m \in starts /\ \A y \in starts : m <= y
    BY <1>5, <1>7, MinIs
  <2> HIDE DEF m
  <2>3. m \in Nat /\ m >= 1
    BY <1>5, <2>2
  <2>4. prices # {}
    BY <1>4, <1>7
  <2>5. ~SkipsDeadFeed(rd) => TrailingFrom \in starts
    BY <2>4
  <2>6. TrailingFrom \in Nat /\ TrailingFrom = Max(prices) + 1
    BY <1>3, <2>4, HealTypes DEF TrailingFrom
  <2>7. \A s \in MidGapStarts(rd) : s \in starts /\ s \in Nat /\ s <= today
    BY <1>2, HealTypes
  <2> HIDE DEF starts
  <2>8. m <= today
    <3>1. CASE TrailingStale(rd)
      <4>1. ~SkipsDeadFeed(rd) /\ today - Max(prices) > Carry
        BY <2>4, <3>1 DEF TrailingStale
      <4>2. TrailingFrom <= today
        BY <1>3, <2>4, <2>6, <4>1, HealTypes
      <4>3. m <= TrailingFrom
        BY <2>2, <2>5, <4>1
      <4> QED BY <2>3, <2>6, <4>2, <4>3, HealTypes
    <3>2. CASE MidGapStarts(rd) # {}
      <4>1. PICK s \in MidGapStarts(rd) : TRUE
        BY <3>2
      <4>2. m <= s
        BY <2>2, <2>7, <4>1
      <4> QED BY <2>3, <2>7, <4>1, <4>2, HealTypes
    <3> QED BY <1>7, <3>1, <3>2
  <2>9. m \in Days
    BY <2>3, <2>8, HealTypes DEF Days
  <2> QED BY <2>1, <2>2, <2>4, <2>5, <2>6, <2>7, <2>9
<1> QED BY <1>6, <1>7

(* A gap between two of the last prices is seen by the sweep.              *)
LEMMA GapIsSeen ==
    ASSUME HealTypeOK, JobInv, NEW rd \in BOOLEAN, ~SkipsDeadFeed(rd), NEW x \in Absent,
           NEW p \in prices, LastBefore(p, x), NEW q \in prices, FirstAfter(q, x),
           p >= today - Lookback, q - p > Carry
    PROVE  \E s \in MidGapStarts(rd) : s <= x
<1> DEFINE S == {r \in SeenByGapQuery : r < q}
<1>1. /\ \A r \in prices : r \in Nat /\ r \in 0 .. LastDay
      /\ x \in Nat /\ first <= x /\ x \notin prices /\ first \in Nat /\ today \in Nat
      /\ Lookback \in Nat /\ Carry \in Nat /\ LastDay \in Nat
  BY HealTypes DEF Absent, HealTypeOK
<1>2. p < x /\ x < q
  BY DEF LastBefore, FirstAfter
<1>3. \A r \in prices : ~(p < r /\ r < q)
  BY <1>1, <1>2 DEF LastBefore, FirstAfter
<1>4. p \in SeenByGapQuery /\ q \in SeenByGapQuery /\ SeenByGapQuery \subseteq prices
  BY <1>1, <1>2 DEF SeenByGapQuery
<1>5. q \in HoleEnds(SeenByGapQuery)
  BY <1>1, <1>2, <1>3, <1>4 DEF HoleEnds
<1>6. Max(S) = p
  <2>1. p \in S /\ S \in SUBSET (0 .. LastDay)
    BY <1>1, <1>2, <1>4
  <2>2. Max(S) \in S /\ p <= Max(S)
    BY <1>1, <2>1, MaxIs
  <2> QED BY <1>1, <1>3, <1>4, <2>2
<1>7. q - 1 >= first
  BY <1>1, <1>2
<1>8. LaterDay(HoleStart(SeenByGapQuery, q), first) \in MidGapStarts(rd)
  BY <1>5, <1>7 DEF MidGapStarts
<1>9. LaterDay(HoleStart(SeenByGapQuery, q), first) <= x
  BY <1>1, <1>2, <1>6 DEF LaterDay, HoleStart
<1> QED BY <1>8, <1>9

(* What a sweep that asks the feed passes over is no hole.                 *)
LEMMA SweepLeavesNoHole ==
    ASSUME HealTypeOK, JobInv, NEW full \in BOOLEAN, NEW rd \in BOOLEAN, ~SkipsDeadFeed(rd),
           NEW x \in Absent,
           full \/ TrailingStale(rd) \/ MidGapStarts(rd) # {} =>
               x < LaterDay(HealFrom(full, rd), first)
    PROVE  HoleOK(x)
<1> DEFINE heal == full \/ TrailingStale(rd) \/ MidGapStarts(rd) # {}
           from == HealFrom(full, rd)
<1>1. /\ \A r \in prices : r \in Nat /\ r \in 0 .. LastDay
      /\ x \in Nat /\ first <= x /\ x \notin prices /\ first \in Nat /\ today \in Nat
      /\ Lookback \in Nat /\ Carry \in Nat /\ LastDay \in Nat
  BY HealTypes DEF Absent, HealTypeOK
<1>2. heal => /\ x < from /\ prices # {} /\ from <= Max(prices) + 1
              /\ \A s \in MidGapStarts(rd) : from <= s
  <2>1. heal => x < LaterDay(from, first)
    OBVIOUS
  <2>2. heal => from \in Nat
    BY SweepFrom, HealTypes DEF Inception
  <2>3. heal => x < from /\ from # Inception
    BY <1>1, <2>1, <2>2 DEF LaterDay, Inception
  <2> HIDE DEF from
  <2> QED BY <2>3, SweepFrom DEF from
<1>3. ~heal => ~TrailingStale(rd) /\ MidGapStarts(rd) = {}
  OBVIOUS
<1>4. prices # {}
  BY <1>2, <1>3 DEF TrailingStale
<1>5. Max(prices) \in prices /\ \A r \in prices : r <= Max(prices)
  <2>1. prices \in SUBSET (0 .. LastDay)
    BY <1>1
  <2> QED BY <1>1, <1>4, <2>1, MaxIs
<1>6. heal => from \in Nat
  BY SweepFrom, HealTypes DEF Inception
<1> HIDE DEF heal, from
<1>7. ASSUME NEW p \in prices, LastBefore(p, x), \A q \in prices : q <= x
      PROVE  today - p <= Carry
  <2>1. Max(prices) < x
    BY <1>1, <1>5, <1>7
  <2>2. ~heal
    BY <1>1, <1>2, <1>5, <1>6, <2>1
  <2>3. today - Max(prices) <= Carry
    BY <1>1, <1>3, <1>5, <2>2, <1>4 DEF TrailingStale
  <2>4. Max(prices) <= p
    BY <1>5, <1>7, <2>1 DEF LastBefore
  <2> QED BY <1>1, <1>5, <2>3, <2>4
<1>8. ASSUME NEW p \in prices, LastBefore(p, x), p >= today - Lookback,
             NEW q \in prices, FirstAfter(q, x)
      PROVE  q - p <= Carry
  <2> SUFFICES ASSUME q - p > Carry
               PROVE  FALSE
    BY <1>1
  <2>1. PICK s \in MidGapStarts(rd) : s <= x
    BY <1>8, GapIsSeen
  <2>2. heal
    BY <1>3, <2>1
  <2>3. s \in Nat
    BY <2>1, MidGapDays
  <2> QED BY <1>1, <1>2, <1>6, <2>1, <2>2, <2>3
<1> QED BY <1>4, <1>7, <1>8 DEF HoleOK

(* What the forward fill writes, with the prices from day s on.            *)
LEMMA FilledIs ==
    ASSUME HealTypeOK, NEW s \in Days, first <= s, NEW d \in Days, NEW W,
           W = {p \in prices : p >= s}
    PROVE  /\ Filled(W, d) \in Days \cup {AtCost, Unpriced}
           /\ \/ Filled(W, d) = Worth(d)
              \/ Filled(W, d) = AtCost /\ \A p \in prices : ~(s <= p /\ p <= d)
<1> DEFINE known == {p \in W : p <= d}
<1>1. /\ \A p \in prices : p \in Nat /\ p \in Days /\ p \in 0 .. LastDay
      /\ s \in Nat /\ d \in Nat /\ first \in Nat /\ Carry \in Nat /\ LastDay \in Nat
  BY HealTypes
<1>2. CASE known = {}
  <2>1. Filled(W, d) = AtCost
    BY <1>2 DEF Filled
  <2>2. \A p \in prices : ~(s <= p /\ p <= d)
    BY <1>1, <1>2
  <2> QED BY <2>1, <2>2
<1>3. CASE known # {}
  <2> DEFINE m == Max(known)
  <2>1. m \in known /\ \A p \in known : p <= m
    <3>1. known \in SUBSET (0 .. LastDay)
      BY <1>1
    <3> QED BY <1>1, <1>3, <3>1, MaxIs
  <2>2. Filled(W, d) = IF d - m <= Carry THEN m ELSE Unpriced
    BY <1>3 DEF Filled
  <2> HIDE DEF m
  <2>3. m \in prices /\ m \in Nat /\ m \in Days /\ s <= m /\ m <= d /\ first <= m
    BY <1>1, <2>1
  <2>4. \A p \in prices : p <= d => p <= m
    BY <1>1, <2>1, <2>3
  <2>5. CASE d - m <= Carry
    <3>1. m \in CarriedTo(d) /\ \A p \in CarriedTo(d) : p <= m
      BY <1>1, <2>3, <2>4, <2>5 DEF CarriedTo
    <3>2. CarriedTo(d) \in SUBSET (0 .. LastDay)
      BY <1>1 DEF CarriedTo
    <3>3. Max(CarriedTo(d)) \in CarriedTo(d) /\ m <= Max(CarriedTo(d))
      BY <1>1, <3>1, <3>2, MaxIs
    <3>4. Max(CarriedTo(d)) = m
      <4>1. Max(CarriedTo(d)) \in Nat /\ Max(CarriedTo(d)) <= m
        BY <3>1, <3>2, <3>3
      <4> QED BY <2>3, <3>3, <4>1
    <3>5. Worth(d) = m
      BY <2>3, <3>1, <3>4 DEF Worth
    <3> QED BY <2>2, <2>3, <2>5, <3>5
  <2>6. CASE ~(d - m <= Carry)
    <3>1. \A p \in prices : p <= d => ~(d - p <= Carry)
      BY <1>1, <2>3, <2>4, <2>6
    <3>2. CarriedTo(d) = {}
      BY <3>1 DEF CarriedTo
    <3>3. Worth(d) = Unpriced
      BY <2>3, <3>2 DEF Worth
    <3> QED BY <2>2, <2>6, <3>3
  <2> QED BY <2>5, <2>6
<1> QED BY <1>2, <1>3

(* A step that sends, moves on or ends the job, and leaves the prices and  *)
(* the snapshots alone.                                                    *)
LEMMA JobGoes ==
    ASSUME HealInv, UNCHANGED <<today, feed, first, prices, snap, since>>,
           job' \in JobType, miss' \in [count: Nat, last: Days \cup {Never}],
           swept' \in 0 .. MaxSweeps, calm' \in BOOLEAN, failed' \in BOOLEAN,
           edits' = edits, faults' \in 0 .. MaxFaults,
           ~Underway' => job' = NoJob,
           InWindow' => /\ job'.start = JobStart' /\ job'.start <= job'.now /\ job'.now <= today
                        /\ \A p \in job'.got : job'.start <= p /\ p <= today
                        /\ \A d \in Days : job'.now < d => snap[d] = Missing,
           ~failed' => /\ ~failed
                       /\ \A d \in first .. today :
                             Underway /\ JobStart <= d => Underway' /\ JobStart' <= d,
           calm' => /\ \A x \in Absent : HoleOK(x) \/ (Underway' /\ JobStart' <= x)
                    /\ job'.pc = "fetched" =>
                          \A x \in feed : job'.start <= x /\ x <= today => x \in job'.got
                    /\ job'.pc = "stored" =>
                          \A x \in feed : job'.start <= x /\ x <= today => x \in prices
    PROVE  HealInv'
<1>1. HealTypeOK'
  BY DEF HealInv, HealTypeOK, JobType, Days
<1>2. JobInv'
  BY DEF HealInv, JobInv
<1>3. \A d : SnapOK(d)' <=> SnapOK(d)
  BY DEF SnapOK, Worth, CarriedTo
<1>4. SnapsInv'
  <2>1. \A d \in Days : today' < d => snap'[d] = Missing
    BY DEF HealInv, SnapsInv
  <2>2. InWindow' => \A d \in Days : job'.now < d => snap'[d] = Missing
    OBVIOUS
  <2>3. ~failed' => \A d \in first' .. today' : SnapOK(d)' \/ (Underway' /\ JobStart' <= d)
    BY <1>3 DEF HealInv, SnapsInv
  <2> QED BY <2>1, <2>2, <2>3 DEF SnapsInv, Days
<1>5. \A x : HoleOK(x)' <=> HoleOK(x)
  BY DEF HoleOK, LastBefore, FirstAfter
<1>6. HolesInv'
  BY <1>5 DEF HolesInv, Absent
<1> QED BY <1>1, <1>2, <1>4, <1>6 DEF HealInv

LEMMA SweepStep ==
    ASSUME HealInv, NEW force \in BOOLEAN, NEW rd \in BOOLEAN, Sweep(force, rd)
    PROVE  HealInv'
<1> DEFINE full == force \/ NeedsFullHeal
           heal == full \/ TrailingStale(rd) \/ MidGapStarts(rd) # {}
           from == HealFrom(full, rd)
<1>1. HealTypeOK /\ JobInv /\ full \in BOOLEAN
  BY DEF HealInv, NeedsFullHeal
<1>2. /\ job = NoJob /\ swept < MaxSweeps /\ swept' = swept + 1 /\ calm' = ~SkipsDeadFeed(rd)
      /\ job' = IF heal THEN Queued(from, from # Inception, rd) ELSE NoJob
      /\ UNCHANGED <<today, feed, first, prices, miss, snap, edits, faults, since, failed>>
  BY DEF Sweep
<1>3. heal => from \in Days \cup {Inception}
  BY <1>1, SweepFrom
<1>4. \A x \in Absent : ~SkipsDeadFeed(rd) /\ (heal => x < LaterDay(from, first)) => HoleOK(x)
  BY <1>1, SweepLeavesNoHole
<1> HIDE DEF full, heal, from
<1>5. /\ job' \in JobType
      /\ heal => job'.pc = "queued" /\ job'.from = from
      /\ ~heal => job' = NoJob
  BY <1>2, <1>3, NoJobType DEF Queued, JobType, JobState
<1>6. ~Underway /\ ~Underway' => job' = NoJob
  BY <1>2, <1>5, NoJobType DEF Underway
<1>7. ~InWindow' /\ (Underway' <=> heal) /\ ~Underway
  BY <1>2, <1>5, NoJobType DEF InWindow, Underway
<1>8. heal => JobStart' = LaterDay(from, first) /\ JobStart' \in Nat
  <2>1. heal => from \in Nat
    BY <1>1, <1>3, HealTypes DEF Inception
  <2>2. first \in Nat /\ first' = first
    BY <1>1, <1>2, HealTypes
  <2>3. heal => JobStart' = LaterDay(from, first)
    BY <1>5, <2>2 DEF JobStart, LaterDay
  <2> QED BY <2>1, <2>2, <2>3 DEF LaterDay
<1>9. calm' => \A x \in Absent : HoleOK(x) \/ (Underway' /\ JobStart' <= x)
  <2>1. ASSUME calm', NEW x \in Absent
        PROVE  HoleOK(x) \/ (Underway' /\ JobStart' <= x)
    <3>1. x \in Nat
      BY <1>1, HealTypes DEF Absent, HealTypeOK
    <3>2. ~SkipsDeadFeed(rd)
      BY <1>2, <2>1
    <3>3. ~HoleOK(x) => heal /\ ~(x < LaterDay(from, first))
      BY <1>4, <3>2
    <3> QED BY <1>7, <1>8, <3>1, <3>3
  <2> QED BY <2>1
<1>10. swept' \in 0 .. MaxSweeps /\ calm' \in BOOLEAN /\ failed' \in BOOLEAN
  <2>1. swept \in 0 .. MaxSweeps /\ MaxSweeps \in Nat
    BY <1>1, ConstantsAssumption DEF HealTypeOK
  <2>2. swept' \in 0 .. MaxSweeps
    BY <1>2, <2>1
  <2>3. calm' \in BOOLEAN /\ failed' \in BOOLEAN
    BY <1>1, <1>2 DEF HealTypeOK
  <2> QED BY <2>2, <2>3
<1>11. miss' \in [count: Nat, last: Days \cup {Never}] /\ faults' \in 0 .. MaxFaults
  BY <1>1, <1>2 DEF HealTypeOK
<1>12. job'.pc \notin {"fetched", "stored"}
  BY <1>7 DEF InWindow
<1>13. ~failed' => /\ ~failed
                   /\ \A d \in first .. today :
                         Underway /\ JobStart <= d => Underway' /\ JobStart' <= d
  BY <1>2, <1>7
<1> QED BY <1>2, <1>5, <1>6, <1>7, <1>9, <1>10, <1>11, <1>12, <1>13, JobGoes

LEMMA SweepUnsentStep ==
    ASSUME HealInv, SweepUnsent
    PROVE  HealInv'
<1>1. /\ UNCHANGED <<today, feed, first, prices, snap, since>> /\ job' = job /\ miss' = miss
      /\ swept' = swept /\ calm' = FALSE
      /\ failed' = failed /\ edits' = edits /\ faults' = faults
  BY DEF SweepUnsent
<1>2. HealTypeOK'
  BY <1>1 DEF HealInv, HealTypeOK, Days
<1>3. JobInv' /\ SnapsInv'
  BY <1>1 DEF HealInv, JobInv, SnapsInv, Underway, InWindow, JobStart, SnapOK, Worth, CarriedTo
<1>4. HolesInv'
  BY <1>1 DEF HolesInv
<1> QED BY <1>2, <1>3, <1>4 DEF HealInv

LEMMA EditStep ==
    ASSUME HealInv, NEW d \in Days, Edit(d)
    PROVE  HealInv'
<1>1. /\ HealTypeOK /\ JobInv /\ job = NoJob /\ d <= today /\ d # first
      /\ edits < MaxEdits /\ edits' = edits + 1
      /\ first' = d /\ job' = Queued(Min({d, first}), FALSE, FALSE) /\ calm' = FALSE
      /\ UNCHANGED <<today, feed, prices, miss, snap, swept, faults, since, failed>>
  BY DEF HealInv, Edit
<1> DEFINE from == Min({d, first})
<1>2. from \in {d, first} /\ from <= d
  <2>1. {d, first} \in SUBSET Nat
    BY <1>1, HealTypes
  <2> QED BY <2>1, MinIs
<1>3. from \in Days
  BY <1>1, <1>2, HealTypes
<1> HIDE DEF from
<1>4. job' \in JobType /\ job'.pc = "queued" /\ job'.from = from
  BY <1>1, <1>3, NoJobType DEF Queued, JobType, JobState, from
<1>5. Underway' /\ ~InWindow'
  BY <1>4 DEF Underway, InWindow
<1>6. JobStart' = d
  <2>1. from \in Nat /\ d \in Nat
    BY <1>1, <1>3, HealTypes
  <2>2. first' = d /\ job'.from = from /\ from <= d
    BY <1>1, <1>2, <1>4
  <2> QED BY <2>1, <2>2 DEF JobStart, LaterDay
<1>7. HealTypeOK'
  <2>1. edits' \in 0 .. MaxEdits
    BY <1>1, ConstantsAssumption DEF HealTypeOK
  <2>2. calm' \in BOOLEAN
    BY <1>1
  <2> QED BY <1>1, <1>4, <2>1, <2>2 DEF HealTypeOK, JobType, Days
<1>8. JobInv'
  BY <1>1, <1>5 DEF JobInv
<1>9. SnapsInv'
  <2>1. \A e \in Days : today' < e => snap'[e] = Missing
    BY <1>1 DEF HealInv, SnapsInv
  <2>2. \A e \in first' .. today' : Underway' /\ JobStart' <= e
    BY <1>1, <1>5, <1>6, HealTypes
  <2> QED BY <1>5, <2>1, <2>2 DEF SnapsInv, Days
<1>10. HolesInv'
  BY <1>1 DEF HolesInv
<1> QED BY <1>7, <1>8, <1>9, <1>10 DEF HealInv

LEMMA NewDayStep ==
    ASSUME HealInv, NewDay
    PROVE  HealInv'
<1>1. /\ HealTypeOK /\ JobInv /\ SnapsInv
      /\ today < LastDay /\ today' = today + 1 /\ swept' = 0 /\ calm' = FALSE
      /\ UNCHANGED <<feed, first, prices, miss, snap, job, edits, faults, since, failed>>
  BY DEF HealInv, NewDay
<1>2. /\ today \in Nat /\ today' \in Days /\ today' > today
      /\ first \in Nat /\ prices \subseteq Nat /\ job \in JobType /\ Days \subseteq Nat
  BY <1>1, HealTypes DEF Days
<1>3. HealTypeOK'
  <2>2. 0 \in 0 .. MaxSweeps
    BY ConstantsAssumption
  <2>1. calm' \in BOOLEAN /\ swept' \in 0 .. MaxSweeps
    BY <1>1, <2>2
  <2> QED BY <1>1, <1>2, <2>1 DEF HealTypeOK, Days
<1>4. JobInv'
  <2>1. InWindow => job.now \in Nat /\ job.got \subseteq Nat
    BY <1>2 DEF JobType
  <2> QED BY <1>1, <1>2, <2>1 DEF JobInv, Underway, InWindow, JobStart
<1>5. SnapsInv'
  <2>1. \A d \in Days : today' < d => snap'[d] = Missing
    BY <1>1, <1>2 DEF SnapsInv
  <2>2. InWindow' => \A d \in Days : job'.now < d => snap'[d] = Missing
    BY <1>1 DEF SnapsInv, InWindow
  <2>3. \A d : SnapOK(d)' <=> SnapOK(d)
    BY <1>1 DEF SnapOK, Worth, CarriedTo
  <2>4. SnapOK(today')
    BY <1>1, <1>2 DEF SnapsInv, SnapOK
  <2>5. ~failed' => \A d \in first' .. today' : SnapOK(d)' \/ (Underway' /\ JobStart' <= d)
    BY <1>1, <1>2, <2>3, <2>4 DEF SnapsInv, Underway, JobStart
  <2> QED BY <2>1, <2>2, <2>5 DEF SnapsInv, Days
<1>6. HolesInv'
  BY <1>1 DEF HolesInv
<1> QED BY <1>3, <1>4, <1>5, <1>6 DEF HealInv

LEMMA StartStep ==
    ASSUME HealInv, Start
    PROVE  HealInv'
<1> DEFINE start == LaterDay(job.from, first)
<1>1. /\ HealTypeOK /\ JobInv /\ SnapsInv /\ HolesInv
      /\ job.pc = "queued" /\ calm' = (calm /\ ~SkipsDeadFeed(job.retryDead))
      /\ UNCHANGED <<today, feed, first, prices, miss, snap, swept, edits, faults, since, failed>>
  BY DEF HealInv, Start
<1>2. /\ job \in JobType /\ start \in Days /\ start \in Nat /\ start = JobStart
      /\ today \in Days /\ today \in Nat /\ first \in Nat /\ first <= start
  BY <1>1, HealTypes DEF JobStart, LaterDay, JobType, Inception
<1>3. Underway
  BY <1>1 DEF Underway
<1>4. swept' \in 0 .. MaxSweeps /\ calm' \in BOOLEAN /\ failed' \in BOOLEAN
  BY <1>1 DEF HealTypeOK
<1>5. miss' \in [count: Nat, last: Days \cup {Never}] /\ faults' \in 0 .. MaxFaults
  BY <1>1 DEF HealTypeOK
<1>6. calm' => \A x \in Absent : HoleOK(x) \/ JobStart <= x
  BY <1>1 DEF HolesInv
<1>7. CASE start > today
  <2>1. job' = NoJob /\ job' \in JobType /\ ~Underway' /\ ~InWindow'
        /\ job'.pc = "none"
    BY <1>7, NoJobType DEF Start, Underway, InWindow
  <2>2. \A d \in first .. today : ~(JobStart <= d)
    BY <1>2, <1>7
  <2>3. \A x \in Absent : ~(JobStart <= x)
    BY <1>1, <1>2, <1>7, HealTypes DEF Absent, HealTypeOK
  <2>4. calm' => \A x \in Absent : HoleOK(x)
    BY <1>6, <2>3
  <2> QED BY <1>1, <1>4, <1>5, <2>1, <2>2, <2>4, JobGoes
<1>8. CASE ~(start > today)
  <2> DEFINE pc == IF SkipsDeadFeed(job.retryDead) THEN "fetched" ELSE "started"
  <2>1. job' = [job EXCEPT !.start = start, !.now = today, !.got = {}, !.pc = pc]
    BY <1>8 DEF Start
  <2>2. /\ job' \in JobType /\ job'.pc = pc /\ job'.from = job.from
        /\ job'.start = start /\ job'.now = today /\ job'.got = {}
    BY <1>2, <2>1 DEF JobType, JobState
  <2>3. Underway' /\ (calm' => job'.pc = "started")
    BY <1>1, <2>2 DEF Underway
  <2> HIDE DEF pc
  <2>4. JobStart' = JobStart
    BY <1>1, <2>2 DEF JobStart
  <2>5. \A d \in Days : job'.now < d => snap[d] = Missing
    BY <1>1, <2>2 DEF SnapsInv
  <2>6. job'.start <= job'.now /\ job'.now <= today
    BY <1>2, <1>8, <2>2
  <2> HIDE DEF start
  <2> QED BY <1>1, <1>2, <1>3, <1>4, <1>5, <1>6, <2>2, <2>3, <2>4, <2>5, <2>6, JobGoes
<1> QED BY <1>7, <1>8

LEMMA FetchAnswersStep ==
    ASSUME HealInv, FetchAnswers
    PROVE  HealInv'
<1> DEFINE got == {d \in feed : job.start <= d /\ d <= today}
<1>1. /\ HealTypeOK /\ JobInv /\ SnapsInv /\ HolesInv
      /\ job.pc = "started" /\ job' = [job EXCEPT !.pc = "fetched", !.got = got]
      /\ Worked \/ Missed
      /\ UNCHANGED <<today, feed, first, prices, snap, swept, edits, faults, since, calm, failed>>
  BY DEF HealInv, FetchAnswers
<1>2. /\ job \in JobType /\ got \subseteq Days /\ today \in Days
      /\ miss \in [count: Nat, last: Days \cup {Never}]
  BY <1>1, HealTypes DEF HealTypeOK
<1>3. /\ job' \in JobType /\ job'.pc = "fetched" /\ job'.from = job.from
      /\ job'.start = job.start /\ job'.now = job.now /\ job'.got = got
  <2> HIDE DEF got
  <2> QED BY <1>1, <1>2 DEF JobType, JobState
<1>4. Underway /\ Underway' /\ InWindow /\ JobStart' = JobStart
  BY <1>1, <1>3 DEF Underway, InWindow, JobStart
<1>5. miss' \in [count: Nat, last: Days \cup {Never}] /\ faults' \in 0 .. MaxFaults
  <2>1. miss' \in [count: Nat, last: Days \cup {Never}]
    BY <1>1, <1>2 DEF Worked, Missed
  <2> QED BY <1>1, <2>1 DEF HealTypeOK
<1>6. swept' \in 0 .. MaxSweeps /\ calm' \in BOOLEAN /\ failed' \in BOOLEAN
  BY <1>1 DEF HealTypeOK
<1>7. /\ job'.start = JobStart' /\ job'.start <= job'.now /\ job'.now <= today
      /\ \A p \in job'.got : job'.start <= p /\ p <= today
      /\ \A d \in Days : job'.now < d => snap[d] = Missing
  BY <1>1, <1>3, <1>4 DEF JobInv, SnapsInv
<1>8. calm' => \A x \in Absent : HoleOK(x) \/ (Underway' /\ JobStart' <= x)
  BY <1>1, <1>4 DEF HolesInv
<1>9. \A x \in feed : job'.start <= x /\ x <= today => x \in job'.got
  BY <1>3
<1> HIDE DEF got
<1> QED BY <1>1, <1>3, <1>4, <1>5, <1>6, <1>7, <1>8, <1>9, JobGoes

LEMMA FetchThrowsStep ==
    ASSUME HealInv, FetchThrows
    PROVE  HealInv'
<1>1. /\ HealTypeOK /\ JobInv /\ SnapsInv
      /\ job.pc = "started" /\ job' = [job EXCEPT !.pc = "fetched", !.got = {}]
      /\ Missed /\ faults < MaxFaults /\ faults' = faults + 1 /\ calm' = FALSE
      /\ UNCHANGED <<today, feed, first, prices, snap, swept, edits, since, failed>>
  BY DEF HealInv, FetchThrows
<1>2. /\ job \in JobType /\ today \in Days
      /\ miss \in [count: Nat, last: Days \cup {Never}]
  BY <1>1, HealTypes DEF HealTypeOK
<1>3. /\ job' \in JobType /\ job'.pc = "fetched" /\ job'.from = job.from
      /\ job'.start = job.start /\ job'.now = job.now /\ job'.got = {}
  BY <1>1, <1>2 DEF JobType, JobState
<1>4. Underway /\ Underway' /\ InWindow /\ JobStart' = JobStart
  BY <1>1, <1>3 DEF Underway, InWindow, JobStart
<1>5. miss' \in [count: Nat, last: Days \cup {Never}] /\ faults' \in 0 .. MaxFaults
  <2>1. miss' \in [count: Nat, last: Days \cup {Never}]
    BY <1>1, <1>2 DEF Missed
  <2> QED BY <1>1, <2>1, ConstantsAssumption DEF HealTypeOK
<1>6. swept' \in 0 .. MaxSweeps /\ calm' \in BOOLEAN /\ failed' \in BOOLEAN
  BY <1>1 DEF HealTypeOK
<1>7. /\ job'.start = JobStart' /\ job'.start <= job'.now /\ job'.now <= today
      /\ \A p \in job'.got : job'.start <= p /\ p <= today
      /\ \A d \in Days : job'.now < d => snap[d] = Missing
  BY <1>1, <1>3, <1>4 DEF JobInv, SnapsInv
<1> QED BY <1>1, <1>3, <1>4, <1>5, <1>6, <1>7, JobGoes

LEMMA WriteNothingStep ==
    ASSUME HealInv, WriteNothing
    PROVE  HealInv'
<1>1. /\ HealTypeOK
      /\ job' = NoJob /\ faults < MaxFaults /\ faults' = faults + 1
      /\ failed' = TRUE /\ calm' = FALSE
      /\ UNCHANGED <<today, feed, first, prices, miss, snap, swept, edits, since>>
  BY DEF HealInv, WriteNothing
<1>2. job' \in JobType /\ ~Underway' /\ ~InWindow'
  BY <1>1, NoJobType DEF Underway, InWindow
<1>3. miss' \in [count: Nat, last: Days \cup {Never}] /\ faults' \in 0 .. MaxFaults
  BY <1>1, ConstantsAssumption DEF HealTypeOK
<1>4. swept' \in 0 .. MaxSweeps /\ calm' \in BOOLEAN /\ failed' \in BOOLEAN
  BY <1>1 DEF HealTypeOK
<1> QED BY <1>1, <1>2, <1>3, <1>4, JobGoes

LEMMA FailStep ==
    ASSUME HealInv, Fail
    PROVE  HealInv'
<1>1. /\ HealTypeOK /\ JobInv /\ SnapsInv /\ HolesInv
      /\ job.pc \in {"started", "fetched", "stored"}
      /\ faults < MaxFaults /\ faults' = faults + 1 /\ Retried
      /\ UNCHANGED <<today, feed, first, prices, miss, snap, swept, edits, since>>
  BY DEF HealInv, Fail
<1>2. job \in JobType /\ Underway
  BY <1>1, HealTypes DEF Underway
<1>3. miss' \in [count: Nat, last: Days \cup {Never}] /\ faults' \in 0 .. MaxFaults
  BY <1>1, ConstantsAssumption DEF HealTypeOK
<1>4. CASE job.try < RetryLimit
  <2>1. job' = [Queued(job.from, job.tailOnly, job.retryDead) EXCEPT !.try = job.try + 1]
        /\ UNCHANGED <<calm, failed>>
    BY <1>1, <1>4 DEF Retried
  <2>2. job.try + 1 \in 0 .. RetryLimit
    BY <1>2, <1>4, ConstantsAssumption DEF JobType
  <2>3. job' \in JobType /\ job'.pc = "queued" /\ job'.from = job.from
    BY <1>2, <2>1, <2>2, NoJobType DEF Queued, JobType, JobState
  <2>4. Underway' /\ ~InWindow' /\ JobStart' = JobStart
    BY <1>1, <2>3 DEF Underway, InWindow, JobStart
  <2>5. swept' \in 0 .. MaxSweeps /\ calm' \in BOOLEAN /\ failed' \in BOOLEAN
    BY <1>1, <2>1 DEF HealTypeOK
  <2>6. calm' => \A x \in Absent : HoleOK(x) \/ (Underway' /\ JobStart' <= x)
    BY <1>1, <2>1, <2>4 DEF HolesInv
  <2> QED BY <1>1, <1>2, <1>3, <2>1, <2>3, <2>4, <2>5, <2>6, JobGoes
<1>5. CASE ~(job.try < RetryLimit)
  <2>1. job' = NoJob /\ failed' = TRUE /\ calm' = FALSE
    BY <1>1, <1>5 DEF Retried
  <2>2. job' \in JobType /\ ~Underway' /\ ~InWindow'
    BY <2>1, NoJobType DEF Underway, InWindow
  <2>3. swept' \in 0 .. MaxSweeps /\ calm' \in BOOLEAN /\ failed' \in BOOLEAN
    BY <1>1, <2>1 DEF HealTypeOK
  <2> QED BY <1>1, <1>3, <2>1, <2>2, <2>3, JobGoes
<1> QED BY <1>4, <1>5

(* New prices lie in the window.  Before it they change no worth, and they *)
(* only narrow the gaps that were passed over.                             *)
LEMMA StorePricesStep ==
    ASSUME HealInv, StorePrices
    PROVE  HealInv'
<1>1. /\ HealTypeOK /\ JobInv /\ SnapsInv /\ HolesInv
      /\ job.pc = "fetched" /\ prices' = prices \cup job.got
      /\ job' = [job EXCEPT !.pc = "stored"]
      /\ UNCHANGED <<today, feed, first, miss, snap, swept, edits, faults, since, calm, failed>>
  BY DEF HealInv, StorePrices
<1>2. /\ job \in JobType /\ job.got \subseteq Days /\ JobStart \in Nat /\ today \in Nat
      /\ Days \subseteq Nat /\ prices \subseteq Days /\ prices \subseteq Nat
      /\ Carry \in Nat /\ Lookback \in Nat
  BY <1>1, HealTypes DEF JobType
<1>3. /\ job' \in JobType /\ job'.pc = "stored" /\ job'.from = job.from
      /\ job'.start = job.start /\ job'.now = job.now /\ job'.got = job.got
  BY <1>1, <1>2 DEF JobType, JobState
<1>4. Underway /\ Underway' /\ InWindow /\ InWindow' /\ JobStart' = JobStart
  BY <1>1, <1>3 DEF Underway, InWindow, JobStart
<1>5. \A p \in job.got : JobStart <= p /\ p <= today /\ p \in Nat
  BY <1>1, <1>2, <1>4 DEF JobInv
<1>6. HealTypeOK'
  <2>1. prices' \subseteq Days
    BY <1>1, <1>2
  <2> QED BY <1>1, <1>3, <2>1 DEF HealTypeOK, JobType, Days
<1>7. JobInv'
  BY <1>1, <1>3, <1>4, <1>5 DEF JobInv
<1>8. ASSUME NEW d \in Days, d < JobStart
      PROVE  SnapOK(d) => SnapOK(d)'
  <2>1. \A p \in prices' : p <= d => p \in prices
    BY <1>1, <1>2, <1>5, <1>8
  <2>2. \A p \in prices : p \in prices'
    BY <1>1
  <2>3. CarriedTo(d)' = CarriedTo(d)
    BY <1>1, <2>1, <2>2 DEF CarriedTo
  <2>4. Worth(d)' = Worth(d)
    BY <1>1, <2>1, <2>2, <2>3 DEF Worth
  <2> QED BY <1>1, <2>1, <2>4 DEF SnapOK
<1>9. SnapsInv'
  <2>1. \A d \in Days : today' < d => snap'[d] = Missing
    BY <1>1 DEF SnapsInv
  <2>2. \A d \in Days : job'.now < d => snap'[d] = Missing
    BY <1>1, <1>3, <1>4 DEF SnapsInv
  <2>3. ASSUME ~failed', NEW d \in first' .. today'
        PROVE  SnapOK(d)' \/ (Underway' /\ JobStart' <= d)
    <3>1. d \in Days /\ d \in Nat /\ (SnapOK(d) \/ JobStart <= d)
      BY <1>1, <2>3, HealTypes DEF SnapsInv, Days
    <3> QED BY <1>2, <1>4, <1>8, <3>1
  <2> QED BY <2>1, <2>2, <2>3 DEF SnapsInv, Days
<1>10. ASSUME NEW x \in Nat, x < JobStart, HoleOK(x)
       PROVE  HoleOK(x)'
  <2>1. prices' # {}
    BY <1>1, <1>10 DEF HoleOK
  <2>2. ASSUME NEW p \in prices', LastBefore(p, x)'
        PROVE  p \in prices /\ LastBefore(p, x) /\ p \in Nat
    BY <1>1, <1>2, <1>5, <1>10, <2>2 DEF LastBefore
  <2>3. ASSUME NEW p \in prices', LastBefore(p, x)', \A q \in prices' : q <= x
        PROVE  today' - p <= Carry
    BY <1>1, <1>10, <2>2, <2>3 DEF HoleOK
  <2>4. ASSUME NEW p \in prices', LastBefore(p, x)', p >= today' - Lookback,
               NEW q \in prices', FirstAfter(q, x)'
        PROVE  q - p <= Carry
    <3>1. p \in prices /\ LastBefore(p, x) /\ p \in Nat /\ p >= today - Lookback
      BY <1>1, <2>2, <2>4
    <3>2. q \in Nat /\ q <= today /\ x < q /\ \A r \in prices : x < r => q <= r
      BY <1>1, <1>2, <1>5, <2>4 DEF FirstAfter, JobInv
    <3>3. CASE \A r \in prices : r <= x
      <4>1. today - p <= Carry
        BY <1>10, <3>1, <3>3 DEF HoleOK
      <4> QED BY <1>2, <3>1, <3>2, <4>1
    <3>4. CASE \E r \in prices : x < r
      <4> DEFINE A == {r \in prices : x < r}
      <4>1. A \in SUBSET Nat /\ A # {}
        BY <1>2, <3>4
      <4>2. PICK r \in A : \A u \in A : r <= u
        BY <4>1, NatMin
      <4>3. r \in prices /\ r \in Nat /\ FirstAfter(r, x) /\ q <= r
        BY <1>2, <3>2, <4>2 DEF FirstAfter
      <4>4. r - p <= Carry
        BY <1>10, <3>1, <4>3 DEF HoleOK
      <4> QED BY <1>2, <3>1, <3>2, <4>3, <4>4
    <3> QED BY <1>2, <3>3, <3>4
  <2> QED BY <2>1, <2>3, <2>4 DEF HoleOK
<1>11. HolesInv'
  <2>1. ASSUME calm', NEW x \in feed', job'.start <= x, x <= today'
        PROVE  x \in prices'
    BY <1>1, <1>3, <2>1 DEF HolesInv
  <2>2. ASSUME calm', NEW x \in Absent'
        PROVE  HoleOK(x)' \/ (Underway' /\ JobStart' <= x)
    <3>1. x \in Absent /\ x \in Nat
      BY <1>1, <1>2, <2>2 DEF Absent, HealTypeOK
    <3>2. HoleOK(x) \/ JobStart <= x
      BY <1>1, <2>2, <3>1 DEF HolesInv
    <3> QED BY <1>2, <1>4, <1>10, <3>1, <3>2
  <2> QED BY <1>3, <2>1, <2>2 DEF HolesInv
<1> QED BY <1>6, <1>7, <1>9, <1>11 DEF HealInv

LEMMA WriteSnapshotsStep ==
    ASSUME HealInv, WriteSnapshots
    PROVE  HealInv'
<1> DEFINE window == job.start .. job.now
<1>1. /\ HealTypeOK /\ JobInv /\ SnapsInv /\ HolesInv
      /\ job.pc = "stored" /\ job' = NoJob
      /\ snap' = [d \in Days |-> IF d \in window THEN Filled(WindowPrices, d) ELSE snap[d]]
      /\ since' = [d \in Days |-> IF d \in window THEN job.start ELSE since[d]]
      /\ UNCHANGED <<today, feed, first, prices, miss, swept, edits, faults, calm, failed>>
  BY DEF HealInv, WriteSnapshots
<1>2. InWindow /\ Underway /\ job' \in JobType /\ ~Underway' /\ ~InWindow' /\ job'.pc = "none"
  BY <1>1, NoJobType DEF InWindow, Underway
<1>3. /\ job \in JobType /\ job.start = JobStart /\ job.start \in Days /\ job.start \in Nat
      /\ job.now \in Nat /\ job.now <= today /\ first <= job.start
      /\ today \in Nat /\ first \in Nat /\ Days \subseteq Nat
  BY <1>1, <1>2, HealTypes DEF JobInv, JobType, JobStart, LaterDay, Inception
<1>4. ASSUME NEW d \in Days
      PROVE  /\ Filled(WindowPrices, d) \in Days \cup {AtCost, Unpriced}
             /\ \/ Filled(WindowPrices, d) = Worth(d)
                \/ Filled(WindowPrices, d) = AtCost
                   /\ \A p \in prices : ~(job.start <= p /\ p <= d)
  BY <1>1, <1>3, FilledIs DEF WindowPrices
<1>5. HealTypeOK'
  <2>1. snap' \in [Days -> Days \cup {Missing, AtCost, Unpriced}]
    BY <1>1, <1>4 DEF HealTypeOK
  <2>2. since' \in [Days -> Days]
    BY <1>1, <1>3 DEF HealTypeOK
  <2> QED BY <1>1, <1>2, <2>1, <2>2 DEF HealTypeOK, JobType, Days
<1>6. JobInv'
  BY <1>1, <1>2 DEF JobInv
<1>7. \A d : Worth(d)' = Worth(d)
  BY <1>1 DEF Worth, CarriedTo
<1>8. SnapsInv'
  <2>1. ASSUME NEW d \in Days, today' < d
        PROVE  snap'[d] = Missing
    <3>1. d \notin window
      BY <1>1, <1>3, <2>1
    <3> QED BY <1>1, <2>1, <3>1 DEF SnapsInv
  <2>2. ASSUME ~failed', NEW d \in first' .. today'
        PROVE  SnapOK(d)'
    <3>1. d \in Days /\ d \in Nat
      BY <1>1, <2>2, HealTypes DEF Days
    <3>2. CASE d \in window
      <4>1. snap'[d] = Filled(WindowPrices, d) /\ since'[d] = job.start
        BY <1>1, <3>1, <3>2
      <4>2. prices' = prices
        BY <1>1
      <4> QED BY <1>4, <1>7, <3>1, <4>1, <4>2 DEF SnapOK
    <3>3. CASE d \notin window
      <4>1. snap'[d] = snap[d] /\ since'[d] = since[d] /\ prices' = prices
        BY <1>1, <3>1, <3>3
      <4>2. SnapOK(d)
        <5>1. SnapOK(d) \/ JobStart <= d
          BY <1>1, <2>2 DEF SnapsInv
        <5>2. JobStart <= d => job.now < d
          BY <1>3, <3>1, <3>3
        <5>3. job.now < d => SnapOK(d)
          BY <1>1, <1>2, <3>1 DEF SnapsInv, SnapOK
        <5> QED BY <5>1, <5>2, <5>3
      <4> QED BY <1>7, <4>1, <4>2 DEF SnapOK
    <3> QED BY <3>2, <3>3
  <2> QED BY <1>2, <2>1, <2>2 DEF SnapsInv, Days
<1>9. HolesInv'
  <2>1. ASSUME calm', NEW x \in Absent'
        PROVE  HoleOK(x)'
    <3>1. x \in Absent /\ x \in Nat
      BY <1>1, <1>3, <2>1 DEF Absent, HealTypeOK
    <3>2. x \in feed /\ x <= today /\ x \notin prices
      BY <3>1 DEF Absent
    <3>3. HoleOK(x) \/ JobStart <= x
      BY <1>1, <2>1, <3>1 DEF HolesInv
    <3>4. JobStart <= x => x \in prices
      BY <1>1, <1>3, <2>1, <3>2 DEF HolesInv
    <3>5. HoleOK(x)
      BY <3>2, <3>3, <3>4
    <3> QED BY <1>1, <3>5 DEF HoleOK, LastBefore, FirstAfter
  <2> QED BY <1>2, <2>1 DEF HolesInv
<1> QED BY <1>5, <1>6, <1>8, <1>9 DEF HealInv

LEMMA HealInvStep ==
    ASSUME HealInv, [HealNext]_healVars
    PROVE  HealInv'
<1>1. CASE UNCHANGED healVars
  <2>1. /\ UNCHANGED <<today, feed, first, prices, snap, since>> /\ job' = job /\ miss' = miss
        /\ swept' = swept /\ calm' = calm /\ failed' = failed /\ edits' = edits /\ faults' = faults
    BY <1>1 DEF healVars
  <2>2. HealTypeOK'
    BY <2>1 DEF HealInv, HealTypeOK, Days
  <2>3. JobInv' /\ SnapsInv'
    BY <2>1 DEF HealInv, JobInv, SnapsInv, Underway, InWindow, JobStart, SnapOK, Worth, CarriedTo
  <2>4. HolesInv'
    BY <2>1 DEF HealInv, HolesInv, Absent, Underway, JobStart, HoleOK, LastBefore, FirstAfter
  <2> QED BY <2>2, <2>3, <2>4 DEF HealInv
<1>2. ASSUME NEW force \in BOOLEAN, NEW retryDead \in BOOLEAN, Sweep(force, retryDead)
      PROVE  HealInv'
  BY <1>2, SweepStep
<1>3. ASSUME NEW d \in Days, Edit(d)
      PROVE  HealInv'
  BY <1>3, EditStep
<1> QED BY <1>1, <1>2, <1>3, SweepUnsentStep, NewDayStep, StartStep, FetchAnswersStep, FetchThrowsStep,
           StorePricesStep, WriteSnapshotsStep, WriteNothingStep, FailStep DEF HealNext

LEMMA HealInvHolds == HealSpec => []HealInv
BY HealInvInit, HealInvStep, PTL DEF HealSpec

(* The types of days, prices, snapshots and the job.                       *)
THEOREM HealTypeCorrect == HealSpec => []HealTypeOK
BY HealInvHolds, PTL DEF HealInv

(* After any sequence of heals, outages, retries and edits of any length,  *)
(* in which no job was given up or lacked an exchange rate, the snapshots  *)
(* agree with the stored prices, but for the first days of a window        *)
(* without a price (core.ts:337-371, snapshots.ts).                        *)
THEOREM SnapshotsStayInStep == HealSpec => []SnapshotsAgree
<1>1. HealInv /\ Settled => \A d \in first .. today : SnapOK(d)
  BY NoJobType DEF HealInv, SnapsInv, Settled, Underway
<1>2. HealInv => SnapshotsAgree
  BY <1>1 DEF SnapshotsAgree, SnapOK
<1> QED BY <1>2, HealInvHolds, PTL

(* Once the job of a sweep that met no trouble is done, the provider has   *)
(* no price for a hole longer than a price is carried, whatever the sweeps *)
(* and outages before it left behind (sweep.ts:258-327).                   *)
THEOREM NoHoleIsLeft == HealSpec => []NoHoleAfterSweep
<1>1. ASSUME HealInv, calm, job = NoJob, NEW x \in Absent
      PROVE  LET before == {p \in prices : p < x}
                 after  == {p \in prices : p > x}
             IN  /\ prices # {}
                 /\ before # {} /\ after = {} => today - Max(before) <= Carry
                 /\ before # {} /\ after # {} /\ Max(before) >= today - Lookback
                       => Min(after) - Max(before) <= Carry
  <2> DEFINE before == {p \in prices : p < x}
             after  == {p \in prices : p > x}
  <2>1. HoleOK(x)
    BY <1>1, NoJobType DEF HealInv, HolesInv, Underway
  <2>2. \A p \in prices : p \in Nat /\ p \in 0 .. LastDay
    BY <1>1, HealTypes DEF HealInv
  <2>3. x \in Nat /\ x \notin prices /\ LastDay \in Nat
    BY <1>1, HealTypes DEF HealInv, HealTypeOK, Absent
  <2>4. before # {} => Max(before) \in prices /\ LastBefore(Max(before), x)
    <3>1. before \in SUBSET (0 .. LastDay)
      BY <2>2
    <3>2. before # {} => Max(before) \in before /\ \A p \in before : p <= Max(before)
      BY <2>3, <3>1, MaxIs
    <3> QED BY <3>2 DEF LastBefore
  <2>5. after # {} => Min(after) \in prices /\ FirstAfter(Min(after), x)
    <3>1. after \in SUBSET Nat
      BY <2>2
    <3>2. after # {} => Min(after) \in after /\ \A p \in after : Min(after) <= p
      BY <3>1, MinIs
    <3> QED BY <2>2, <2>3, <3>2 DEF FirstAfter
  <2>6. after = {} => \A p \in prices : p <= x
    BY <2>2, <2>3
  <2> HIDE DEF before, after
  <2>7. /\ prices # {}
        /\ before # {} /\ after = {} => today - Max(before) <= Carry
        /\ before # {} /\ after # {} /\ Max(before) >= today - Lookback
              => Min(after) - Max(before) <= Carry
    BY <2>1, <2>4, <2>5, <2>6 DEF HoleOK
  <2> QED BY <2>7 DEF before, after
<1>2. HealInv => NoHoleAfterSweep
  BY <1>1 DEF NoHoleAfterSweep, Absent
<1> QED BY <1>2, HealInvHolds, PTL

-----------------------------------------------------------------------------
(* In the instance that TLC checks, where one of the parts around the      *)
(* tables runs and the others rest, each keeps its type (MCTables).        *)
THEOREM TablesTypeCorrect == TablesSpec => []TablesTypeOK
<1> DEFINE Good == HealInv /\ CacheInv /\ ReceiptsInv /\ RowsInv /\ LedgerInv
<1>1. TablesInit => Good
  <2> SUFFICES ASSUME TablesInit PROVE Good
    OBVIOUS
  <2>1. HealInit /\ CacheInit /\ ReceiptsInit /\ Init /\ LedgerInit
    BY DEF TablesInit
  <2>2. RowsInv
    BY <2>1, InitHolds
  <2> QED BY <2>1, <2>2, HealInvInit, CacheInvInit, ReceiptsInvInit, LedgerStarts
<1>2. Good /\ [TablesNext]_tablesVars => Good'
  <2> SUFFICES ASSUME Good, [TablesNext]_tablesVars PROVE Good'
    OBVIOUS
  <2>1. /\ [HealNext]_healVars /\ [CacheNext]_cacheVars /\ [ReceiptsNext]_receiptVars
        /\ [Next]_vars /\ [LedgerNext]_ledgerVars
    BY DEF TablesNext, tablesVars
  <2>2. HealInv'
    BY <2>1, HealInvStep
  <2>3. CacheInv'
    BY <2>1, CacheInvStep
  <2>4. ReceiptsInv'
    BY <2>1, ReceiptsInvStep
  <2>5. RowsInv'
    BY <2>1, RowsStep
  <2>6. LedgerInv'
    BY <2>1, LedgerStep
  <2> QED BY <2>2, <2>3, <2>4, <2>5, <2>6
<1>3. Good => TablesTypeOK
  BY DEF HealInv, CacheInv, ReceiptsInv, RowsInv, LedgerInv, TablesTypeOK
<1> QED BY <1>1, <1>2, <1>3, PTL DEF TablesSpec
=============================================================================
