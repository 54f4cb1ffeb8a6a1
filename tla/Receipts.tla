------------------------------ MODULE Receipts ------------------------------
(***************************************************************************)
(* The documents of an import and of the tax inbox: an object in the       *)
(* object store and a row in documents that holds its key (storage/        *)
(* receipts/lifecycle.ts, cleanup.ts, storage/inbox.ts).                   *)
(*                                                                         *)
(* Every function goes through rows it has read once, with one call of the *)
(* store or one statement at a step; any call may fail.  spoilt is         *)
(* history: documents of which a function was left half done, or acted on  *)
(* a row that another had changed since it was read.                       *)
(*                                                                         *)
(* The first key of a receipt is made of the import and the file name      *)
(* alone (receipts/keys.ts:12-21), and nothing makes it unique: identical  *)
(* uploads that race end up in one import under one name                   *)
(* (screenshot-handler.ts:194-234), two rows over one object.  So staged   *)
(* documents may have their name in common.  The key of a report has a     *)
(* random part, the structured key one of the row's id.                    *)
(***************************************************************************)
EXTENDS Naturals, FiniteSets

CONSTANTS
    Staged,      \* documents of the import, stored by a parse
    Reports,     \* documents fetched from the broker's postbox, all the same report
    Tasks,       \* calls of the functions, each made once
    Failures,    \* bound: calls of the store or the database that fail
    NoDoc

ASSUME ReceiptsAssumption ==
    Failures \in Nat /\ NoDoc \notin Staged \cup Reports /\ Staged \cap Reports = {}

VARIABLES
    name,        \* the file name of each document, fixed; a report has its own
    objects,     \* the store: <<document last put there, kind of key>>
    row,         \* documents: status and key of each row
    task,        \* the functions under way
    failures,    \* failures so far
    spoilt       \* history

receiptVars == <<name, objects, row, task, failures, spoilt>>

-----------------------------------------------------------------------------
Docs  == Staged \cup Reports
Keys  == {"first", "structured"}       \* as uploaded, and after the re-key
NoRow == [status |-> "none", key |-> "first"]
TaskKinds == {"store", "retain", "discard", "link", "remove", "collect", "fetch"}

Names ==
    {n \in [Docs -> Docs] :
        /\ \A d \in Staged : n[d] \in Staged
        /\ \A d \in Reports : n[d] = d}

(* What stands under a key: a second put of the same key replaces the      *)
(* first.                                                                  *)
Under(d, k) ==
    {<<e, k>> : e \in IF k = "first" THEN {e \in Docs : name[e] = name[d]} ELSE {d}}
Stands(d, k) == Under(d, k) \cap objects # {}
Shared(d) == \E e \in Docs \ {d} : name[e] = name[d]

ReceiptsTypeOK ==
    /\ name \in Names
    /\ objects \subseteq Docs \X Keys
    /\ row \in [Docs -> [status: {"none", "staged", "retained"}, key: Keys]]
    /\ task \in [Tasks -> [pc: {"new", "put", "listed", "copied", "moved", "deleted",
                                "lost", "over"},
                           kind: TaskKinds, doc: Docs \cup {NoDoc},
                           list: SUBSET Docs, left: SUBSET Docs,
                           seen: [Docs -> [status: {"none", "staged", "retained"},
                                           key: Keys]]]]
    /\ failures \in 0 .. Failures /\ spoilt \subseteq Docs

ReceiptsInit ==
    /\ name \in Names
    /\ objects = {} /\ row = [d \in Docs |-> NoRow]
    /\ task = [t \in Tasks |-> [pc |-> "new", kind |-> "store", doc |-> NoDoc,
                                list |-> {}, left |-> {},
                                seen |-> [d \in Docs |-> NoRow]]]
    /\ failures = 0 /\ spoilt = {}

HasRow(d) == row[d].status # "none"
Named(d) == \E t \in Tasks : task[t].doc = d

TaskGoes(t, to) == task' = [task EXCEPT ![t].pc = to]
Over(t) == TaskGoes(t, "over")

(* A call fails: the function logs it and returns, or goes on.             *)
Fault == failures < Failures /\ failures' = failures + 1

-----------------------------------------------------------------------------
(* storeReceipt and storeInboxDocument: put, then insert.  A report is not *)
(* put when its event has a row; the unique index decides a race, and the  *)
(* loser deletes the object it put.                                        *)

SomeReport == \E d \in Reports : HasRow(d)

Puts(t, d) ==
    /\ task[t].pc = "new" /\ ~Named(d)
    /\ d \in Reports => ~SomeReport
    /\ task' = [task EXCEPT ![t].kind = IF d \in Staged THEN "store" ELSE "fetch",
                            ![t].pc = "put", ![t].doc = d]
    /\ objects' = (objects \ Under(d, "first")) \cup {<<d, "first">>}
    /\ UNCHANGED <<row, failures, spoilt>>

Inserts(t) ==
    LET d == task[t].doc IN
    /\ task[t].pc = "put"
    /\ IF d \in Reports /\ SomeReport
       THEN TaskGoes(t, "lost") /\ UNCHANGED row
       ELSE /\ Over(t)
            /\ row' = [row EXCEPT ![d] = [status |-> IF d \in Staged THEN "staged"
                                                     ELSE "retained", key |-> "first"]]
    /\ UNCHANGED <<objects, failures, spoilt>>

InsertFails(t) ==
    /\ task[t].pc = "put" /\ Fault /\ Over(t)
    /\ spoilt' = spoilt \cup {task[t].doc}
    /\ UNCHANGED <<objects, row>>

LeftBehind(t) == objects               \* bug: the loser of the race just returns
CleanedUp(t) == objects \ Under(task[t].doc, "first")

LosesRace(t) ==
    /\ task[t].pc = "lost" /\ Over(t)
    /\ \/ objects' = CleanedUp(t) /\ UNCHANGED <<failures, spoilt>>
       \/ Fault /\ spoilt' = spoilt \cup {task[t].doc} /\ UNCHANGED objects
    /\ UNCHANGED row

-----------------------------------------------------------------------------
(* The other functions read the rows of the import.                        *)

StagedRows == {d \in Staged : row[d].status = "staged"}
ImportRows == {d \in Staged : HasRow(d)}

(* finalizeReceipts with retention marks what is staged by then, all at    *)
(* once; retainDocumentForTransaction marks the one it read.               *)
Lists(t, kind, ds) ==
    /\ task[t].pc = "new" /\ ds # {}
    /\ \/ kind \in {"retain", "discard"} /\ ds = StagedRows
       \/ kind = "link" /\ \E d \in StagedRows : ds = {d}
       \/ kind = "remove" /\ ds = ImportRows
       \/ kind = "collect" /\ ds \subseteq StagedRows
    /\ task' = [task EXCEPT ![t].pc = "listed", ![t].kind = kind, ![t].list = ds,
                            ![t].left = ds, ![t].seen = row]
    /\ UNCHANGED <<objects, row, failures, spoilt>>

Marked(t) == IF task[t].kind = "link" THEN task[t].left ELSE StagedRows

Retains(t) ==
    /\ task[t].pc = "listed" /\ task[t].kind \in {"retain", "link"}
    /\ row' = [d \in Docs |-> IF d \in Marked(t) /\ HasRow(d)
                              THEN [row[d] EXCEPT !.status = "retained"] ELSE row[d]]
    /\ TaskGoes(t, "moved")
    /\ UNCHANGED <<objects, failures, spoilt>>

(* The re-key of one document after the other: copy, delete the source,    *)
(* write the key.  A copy of what is not there fails.                      *)
Stale(t, d) == row[d].key # task[t].seen[d].key \/ ~HasRow(d)
Old(t, d) == Under(d, task[t].seen[d].key)
OldStands(t, d) == Stands(d, task[t].seen[d].key)

Copies(t, d) ==
    /\ task[t].pc = "moved" /\ d \in task[t].left
    /\ task[t].seen[d].key # "structured" /\ OldStands(t, d)
    /\ objects' = objects \cup {<<d, "structured">>}
    /\ task' = [task EXCEPT ![t].pc = "copied", ![t].doc = d]
    /\ UNCHANGED <<row, failures, spoilt>>

CopyFails(t, d) ==
    /\ task[t].pc = "moved" /\ d \in task[t].left
    /\ task' = [task EXCEPT ![t].left = @ \ {d}]
    /\ IF OldStands(t, d) THEN Fault ELSE UNCHANGED failures
    /\ UNCHANGED <<objects, row, spoilt>>

SourceDeleted(t) == objects \ Old(t, task[t].doc)

(* The source goes and the row gets the new key, or one of the two fails.  *)
KeyWritten(t) ==
    LET d == task[t].doc IN
    IF HasRow(d) THEN [row EXCEPT ![d].key = "structured"] ELSE row

DeletesSource(t) ==
    /\ task[t].pc = "copied" /\ task[t].doc \in task[t].left
    /\ objects' = SourceDeleted(t)
    /\ task' = [task EXCEPT ![t].left = @ \ {task[t].doc}]
    /\ UNCHANGED <<row, failures, spoilt>>

Rekeys(t) ==
    /\ task[t].pc = "copied" /\ task[t].doc \notin task[t].left
    /\ row' = KeyWritten(t)
    /\ spoilt' = IF Stale(t, task[t].doc) THEN spoilt \cup {task[t].doc} ELSE spoilt
    /\ TaskGoes(t, "moved")
    /\ UNCHANGED <<objects, failures>>

MoveFails(t) ==
    /\ task[t].pc = "copied" /\ Fault
    /\ spoilt' = spoilt \cup {task[t].doc}
    /\ task' = [task EXCEPT ![t].pc = "moved", ![t].left = @ \ {task[t].doc}]
    /\ UNCHANGED <<objects, row>>

Moved(t) ==
    /\ task[t].pc = "moved" /\ task[t].left = {} /\ Over(t)
    /\ UNCHANGED <<objects, row, failures, spoilt>>

-----------------------------------------------------------------------------
(* deleteStorageObjects by the keys read, a failure passed over; then the  *)
(* rows: by status, by import, or by id.                                   *)
Changed(t, d) == row[d] # task[t].seen[d]

DeletesObject(t, d) ==
    /\ task[t].pc = "listed" /\ task[t].kind \in {"discard", "remove", "collect"}
    /\ d \in task[t].left
    /\ task' = [task EXCEPT ![t].left = @ \ {d}]
    /\ \/ /\ objects' = objects \ Old(t, d)
          /\ spoilt' = IF Changed(t, d) THEN spoilt \cup {d} ELSE spoilt
          /\ UNCHANGED failures
       \/ Fault /\ spoilt' = spoilt \cup {d} /\ UNCHANGED objects
    /\ UNCHANGED row

Doomed(t) ==
    CASE task[t].kind = "discard" -> StagedRows
      [] task[t].kind = "remove"  -> ImportRows
      [] OTHER -> {d \in task[t].list : HasRow(d)}

RowsGone(t) == [d \in Docs |-> IF d \in Doomed(t) THEN NoRow ELSE row[d]]

(* A row that came or changed since the read goes without its object, or   *)
(* stays without it.                                                       *)
DeletesRows(t) ==
    /\ task[t].pc = "listed" /\ task[t].kind \in {"discard", "remove", "collect"}
    /\ task[t].left = {}
    /\ row' = RowsGone(t)
    /\ spoilt' = spoilt \cup {d \in Doomed(t) \cup task[t].list : Changed(t, d)}
    /\ Over(t)
    /\ UNCHANGED <<objects, failures>>

RowsFail(t) ==
    /\ task[t].pc = "listed" /\ task[t].kind \in {"discard", "remove", "collect"}
    /\ task[t].left = {} /\ Fault /\ Over(t)
    /\ spoilt' = spoilt \cup task[t].list
    /\ UNCHANGED <<objects, row>>

ReceiptsNext ==
    /\ UNCHANGED name
    /\ \E t \in Tasks :
          \/ \E d \in Docs : Puts(t, d) \/ Copies(t, d) \/ CopyFails(t, d) \/ DeletesObject(t, d)
          \/ \E kind \in TaskKinds, ds \in SUBSET Staged : Lists(t, kind, ds)
          \/ Inserts(t) \/ InsertFails(t) \/ LosesRace(t) \/ Retains(t)
          \/ DeletesSource(t) \/ Rekeys(t) \/ MoveFails(t) \/ Moved(t)
          \/ DeletesRows(t) \/ RowsFail(t)

ReceiptsSpec == ReceiptsInit /\ [][ReceiptsNext]_receiptVars

-----------------------------------------------------------------------------
AtRest(d) ==
    \A t \in Tasks : d = task[t].doc \/ d \in task[t].list => task[t].pc \in {"new", "over"}

(* When no function works on a document any more, its row names an object, *)
(* unless another document has its name: then the object may have been     *)
(* moved or deleted for the other.  No object is left that the row of the  *)
(* document last put there does not name, names in common or not.  Both    *)
(* but where a function was left half done or overtaken                    *)
(* (inbox.ts:158-160, lifecycle.ts:102-125).                               *)
RowsMatchObjects ==
    \A d \in Docs \ spoilt : AtRest(d) =>
        /\ HasRow(d) /\ ~Shared(d) => Stands(d, row[d].key)
        /\ \A k \in Keys : <<d, k>> \in objects => HasRow(d) /\ row[d].key = k
=============================================================================
