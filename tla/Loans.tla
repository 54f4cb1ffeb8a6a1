------------------------------- MODULE Loans --------------------------------
(***************************************************************************)
(* A financed contract and the repayments of its installments              *)
(* (loan-installments.ts, loan-actions.ts, and the transaction routes that *)
(* create, edit, delete and archive a repayment), with the daily booking   *)
(* job and several requests under way at once.                             *)
(*                                                                         *)
(* A transaction locks the row of the loan, reads, and in a later step     *)
(* writes and commits.  A delete has the lock of the row it deletes before *)
(* it asks for the lock of the loan; skip and reopen take the two in the   *)
(* other order.  An edit reads its row before its transaction.             *)
(*                                                                         *)
(* An installment has principal 1; number n falls due on day n.  relinked  *)
(* is history.                                                             *)
(***************************************************************************)
EXTENDS Integers, FiniteSets

CONSTANTS
    N,           \* installments of the contract
    Manual,      \* repayments the user enters, each of principal 1
    Payoff,      \* the repayment of an early payoff
    Requests,    \* bound: requests, each made once
    Job,         \* the daily booking job
    NoOne        \* the lock is free

ASSUME LoansAssumption ==
    /\ N \in Nat \ {0} /\ IsFiniteSet(Manual)
    /\ {NoOne, Job} \cap Requests = {} /\ NoOne # Job
    /\ Manual \cap ({Payoff} \cup (1 .. N)) = {} /\ Payoff \notin 1 .. N

VARIABLES
    today,       \* the last installment that is due
    closed,      \* closedAt is set
    skipped,     \* installments flagged in the schedule
    rows,        \* the links of the repayments; one the job books is named by its number
    paid,        \* the principal of the payoff
    lock,        \* who has the row of the loan FOR UPDATE
    proc,        \* the requests and the job
    relinked     \* history: installments an edit linked on what it had read too early

vars == <<today, closed, skipped, rows, paid, lock, proc, relinked>>

-----------------------------------------------------------------------------
Installments == 1 .. N
Ids   == Installments \cup {Payoff} \cup Manual
Procs == Requests \cup {Job}

NoLoan == -1                            \* loanId is null
Extra  == 0                             \* of the loan, for no installment
Links  == Installments \cup {NoLoan, Extra}
NoRow  == -2                            \* no such repayment

Kinds == {"book", "skip", "unskip", "payoff", "reopen", "create", "edit", "delete"}
Steps == {"new", "read", "asks", "locked", "deleting", "over"}

Idle == [pc |-> "new", kind |-> "book", id |-> Payoff, to |-> NoLoan,
         seen |-> NoLoan, owed |-> 0, books |-> {}]

Exists(id) == rows[id] # NoRow
Covers(id, n) == rows[id] = n
Covered(n) == \E id \in Ids : Covers(id, n)

TypeOK ==
    /\ today \in 0 .. N /\ closed \in BOOLEAN /\ skipped \subseteq Installments
    /\ rows \in [Ids -> Links \cup {NoRow}] /\ paid \in Int
    /\ lock \in Procs \cup {NoOne}
    /\ proc \in [Procs -> [pc: Steps, kind: Kinds, id: Ids, to: Links, seen: Links,
                           owed: Int, books: SUBSET Installments]]
    /\ \A q \in Procs : lock = q <=> proc[q].pc = "locked"
    /\ relinked \subseteq Installments

(* Installments due before the import are legs of the contract; others may *)
(* have been entered without a link.                                       *)
Init ==
    /\ today = 0 /\ closed = FALSE /\ skipped = {}
    /\ \E links \in [Manual -> {NoRow, NoLoan, 1}] :
          /\ \A x, y \in Manual : links[x] = 1 /\ links[y] = 1 => x = y
          /\ rows = [id \in Ids |-> IF id \in Manual THEN links[id] ELSE NoRow]
    /\ paid = 0
    /\ lock = NoOne
    /\ proc = [q \in Procs |-> Idle]
    /\ relinked = {}

NewDay ==
    /\ today < N /\ today' = today + 1
    /\ UNCHANGED <<closed, skipped, rows, paid, lock, proc, relinked>>

-----------------------------------------------------------------------------
(* A request comes in.  An edit reads its row; the new link may be the one *)
(* it finds.  A delete locks its row at once.                              *)

Deleted(id) == \E q \in Procs : proc[q].pc = "deleting" /\ proc[q].id = id

Ends(q) == proc' = [proc EXCEPT ![q] = [Idle EXCEPT !.pc = IF q = Job THEN "new" ELSE "over"]]

Call(q, kind, id, to) ==
    LET step == CASE kind \in {"create", "edit"} -> "read"
                  [] kind = "delete" -> "deleting"
                  [] OTHER -> "asks"
    IN
    /\ proc[q].pc = "new"
    /\ kind \in {"skip", "unskip"} => id \in Installments
    /\ kind \in {"payoff", "reopen"} => id = Payoff
    /\ kind \in {"create", "edit"} => id \in Manual
    /\ kind = "create" => ~Exists(id) /\ \A r \in Requests : proc[r].id # id
    /\ kind \in {"edit", "delete"} => Exists(id)
    /\ kind = "delete" => ~Deleted(id)
    /\ kind \notin {"create", "edit"} => to = NoLoan
    /\ proc' = [proc EXCEPT ![q] = [Idle EXCEPT !.pc = step, !.kind = kind, !.id = id,
                                                !.to = to,
                                  !.seen = IF Exists(id) THEN rows[id] ELSE NoLoan]]
    /\ UNCHANGED <<today, closed, skipped, rows, paid, lock, relinked>>

JobStarts ==
    /\ proc[Job].pc = "new"
    /\ proc' = [proc EXCEPT ![Job] = [Idle EXCEPT !.pc = "asks"]]
    /\ UNCHANGED <<today, closed, skipped, rows, paid, lock, relinked>>

-----------------------------------------------------------------------------
(* The lock of the loan, and what is read under it.                        *)

Legs == {id \in Ids : rows[id] \notin {NoRow, NoLoan}}

(* loanBalances                                                            *)
Repaid == Cardinality(Legs \ {Payoff}) + (IF Payoff \in Legs THEN paid ELSE 0)
Outstanding == N - Repaid

DueByCount ==                           \* bug: repayments counted, not mapped
    {n \in Installments \ skipped :
        n <= today /\ n > Cardinality(Legs)}
Due == {n \in Installments \ skipped : n <= today /\ ~Covered(n)}

(* validateLoanLink                                                        *)
ClashIgnored(q) == FALSE                \* bug: no look at the other repayments
Clash(q) ==
    proc[q].to \in Installments /\ \E id \in Ids \ {proc[q].id} : Covers(id, proc[q].to)

Refused(q) ==
    CASE proc[q].kind = "skip"   -> closed
      [] proc[q].kind = "payoff" -> closed \/ Outstanding <= 0
      [] proc[q].kind = "reopen" -> ~closed
      [] proc[q].kind \in {"create", "edit"} -> closed \/ Clash(q)
      [] proc[q].kind = "book"   -> closed \/ Due = {}
      [] OTHER -> FALSE

NeedsLoan(q) ==
    \/ proc[q].pc = "asks"
    \/ proc[q].pc = "read" /\ proc[q].to # proc[q].seen /\ proc[q].to # NoLoan

NotLocked(q) == TRUE                    \* bug: SELECT without FOR UPDATE
LockFree(q) == lock = NoOne

Locks(q) ==
    /\ NeedsLoan(q) /\ LockFree(q)
    /\ IF Refused(q)
       THEN Ends(q) /\ UNCHANGED lock
       ELSE /\ proc' = [proc EXCEPT ![q].pc = "locked", ![q].owed = Outstanding,
                                    ![q].books = Due]
            /\ lock' = q
    /\ UNCHANGED <<today, closed, skipped, rows, paid, relinked>>

Commits(q) == proc[q].pc = "locked" /\ lock' = NoOne

Removed(ids) == rows' = [id \in Ids |-> IF id \in ids THEN NoRow ELSE rows[id]]

Books(q) ==
    /\ Commits(q) /\ proc[q].kind = "book"
    /\ rows' = [id \in Ids |-> IF id \in proc[q].books /\ ~Exists(id)
                               THEN id ELSE rows[id]]
    /\ Ends(q)
    /\ UNCHANGED <<today, closed, skipped, paid, relinked>>

Skips(q) ==
    LET ids == {id \in Ids : Covers(id, proc[q].id)} IN
    /\ Commits(q) /\ proc[q].kind = "skip" /\ \A id \in ids : ~Deleted(id)
    /\ skipped' = skipped \cup {proc[q].id}
    /\ Removed(ids)
    /\ Ends(q)
    /\ UNCHANGED <<today, closed, paid, relinked>>

(* Unskip and reopen book what is due in a transaction that follows.       *)
ThenBooks(q) == proc' = [proc EXCEPT ![q].pc = "asks", ![q].kind = "book"]

Unskips(q) ==
    /\ Commits(q) /\ proc[q].kind = "unskip"
    /\ skipped' = skipped \ {proc[q].id}
    /\ ThenBooks(q)
    /\ UNCHANGED <<today, closed, rows, paid, relinked>>

PaysOff(q) ==
    /\ Commits(q) /\ proc[q].kind = "payoff"
    /\ rows' = [rows EXCEPT ![Payoff] = Extra] /\ paid' = proc[q].owed
    /\ closed' = TRUE
    /\ Ends(q)
    /\ UNCHANGED <<today, skipped, relinked>>

Reopens(q) ==
    /\ Commits(q) /\ proc[q].kind = "reopen" /\ ~Deleted(Payoff)
    /\ Removed({Payoff})
    /\ closed' = FALSE
    /\ ThenBooks(q)
    /\ UNCHANGED <<today, skipped, paid, relinked>>

-----------------------------------------------------------------------------
(* Create and edit of a repayment.  A link that changes is validated under *)
(* the lock, and clears the flag of its installment; the other edits write *)
(* the link they had read.                                                 *)

Unflagged(n) == skipped \ {n}

WritesLink(q) ==
    LET id == proc[q].id IN
    /\ rows' = IF proc[q].kind = "create" \/ Exists(id)
               THEN [rows EXCEPT ![id] = proc[q].to] ELSE rows
    /\ Ends(q)
    /\ UNCHANGED <<today, closed, paid>>

LinksUnderLock(q) ==
    /\ Commits(q) /\ proc[q].kind \in {"create", "edit"} /\ ~Deleted(proc[q].id)
    /\ WritesLink(q)
    /\ skipped' = Unflagged(proc[q].to)
    /\ UNCHANGED relinked

EditsOnly(q) ==
    LET id == proc[q].id IN
    /\ proc[q].pc = "read" /\ ~NeedsLoan(q) /\ ~Deleted(id)
    /\ WritesLink(q)
    /\ relinked' = IF Exists(id) /\ rows[id] # proc[q].seen
                   THEN relinked \cup ({proc[q].to} \cap Installments) ELSE relinked
    /\ UNCHANGED <<skipped, lock>>

-----------------------------------------------------------------------------
(* "Delete = skip": onLoanLegsDeleted in the transaction of the delete.    *)

StaysClosed(id) == closed               \* bug: the loan is not reopened
ClosedAfter(id) == closed /\ id # Payoff

Deletes(q) ==
    LET id == proc[q].id IN
    /\ proc[q].pc = "deleting"
    /\ rows[id] \in Installments \/ id = Payoff => LockFree(q)
    /\ skipped' = skipped \cup ({rows[id]} \cap Installments)
    /\ closed' = ClosedAfter(id)
    /\ Removed({id})
    /\ Ends(q)
    /\ UNCHANGED <<today, paid, lock, relinked>>

(* q has the loan and waits for the row that r is deleting, and r waits    *)
(* for the loan: the database aborts one of the two.                       *)
WaitsForRow(q, r) ==
    /\ proc[q].pc = "locked" /\ proc[r].pc = "deleting"
    /\ \/ proc[q].kind = "skip" /\ Covers(proc[r].id, proc[q].id)
       \/ proc[q].kind = "reopen" /\ proc[r].id = Payoff
       \/ proc[q].kind = "edit" /\ proc[r].id = proc[q].id

Deadlock(q, r) ==
    /\ WaitsForRow(q, r)
    /\ rows[proc[r].id] \in Installments \/ proc[r].id = Payoff
    /\ \/ Ends(q) /\ lock' = NoOne
       \/ Ends(r) /\ UNCHANGED lock
    /\ UNCHANGED <<today, closed, skipped, rows, paid, relinked>>

-----------------------------------------------------------------------------
GoesOn(q) ==
    \/ Locks(q) \/ Books(q) \/ Skips(q) \/ Unskips(q) \/ PaysOff(q) \/ Reopens(q)
    \/ LinksUnderLock(q) \/ EditsOnly(q) \/ Deletes(q)
    \/ \E r \in Requests : Deadlock(q, r)

Next ==
    \/ NewDay \/ JobStarts
    \/ \E q \in Requests, kind \in Kinds, id \in Ids, to \in Links : Call(q, kind, id, to)
    \/ \E q \in Procs : GoesOn(q)

(* The job runs every day, and what has begun goes on.                     *)
Fairness == WF_vars(JobStarts) /\ \A q \in Procs : WF_vars(GoesOn(q))

Spec == Init /\ [][Next]_vars /\ Fairness

-----------------------------------------------------------------------------
(* An installment is settled once, by one repayment or by being skipped    *)
(* and not both, whichever of the job, the edits, the skips and the        *)
(* deletes race (loan-actions.ts:57-62, 244-248), but where an edit wrote  *)
(* back a link that another had changed since it read the row.             *)
SettledOnce ==
    \A n \in Installments \ relinked :
        /\ \A x, y \in Ids : Covers(x, n) /\ Covers(y, n) => x = y
        /\ n \in skipped => ~Covered(n)

(* The loan is closed exactly as long as the payoff stands, and the payoff *)
(* pays what was owed: no more than the principal is repaid, but for what  *)
(* the user pays besides (loan-actions.ts:168-170).                        *)
ClosedWhilePaidOff == closed <=> Exists(Payoff)
PaidOffOnce ==
    /\ ClosedWhilePaidOff
    /\ relinked = {} => Repaid <= N + Cardinality({id \in Manual : rows[id] = Extra})

(* No installment is booked underneath a payoff                            *)
(* (loan-installments.ts:73-75).                                           *)
NothingBookedAfterPayoff ==
    [][closed => \A n \in Installments : Exists(n)' => Exists(n)]_vars

(* Every installment that is due is settled in the end, whatever was paid  *)
(* besides, unless the user skips it or pays the loan off                  *)
(* (loan-installments.ts:30-48).                                           *)
DueIsSettled ==
    \A n \in Installments : (n <= today) ~> (Covered(n) \/ n \in skipped \/ closed)
=============================================================================
