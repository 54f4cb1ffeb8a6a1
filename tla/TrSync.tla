------------------------------- MODULE TrSync -------------------------------
(***************************************************************************)
(* The Trade Republic sync of one connected portfolio, interleaved with    *)
(* everything a user may do to the same rows while it runs.                *)
(*                                                                         *)
(* syncTrConnection (services/pytr/sync/core.ts) is a sequence of separate *)
(* database statements around two transactions, so every await is a step   *)
(* here.  Four tables meet in it:                                          *)
(*   rows    the transactions of source "pytr", one per broker event;      *)
(*   ledger  tr_resolved_events, the events already decided;               *)
(*   anchor  the newest "pytr" row of screenshot_imports, which holds the  *)
(*           events the mapper could not turn into a draft;                *)
(*   other   the transaction of another source (a CSV, a PDF) that is the  *)
(*           same trade as the event.                                      *)
(* Of an import older than the anchor nothing is kept but the copies the   *)
(* request under way have read: no sync finds one, since none becomes a    *)
(* draft again, and no request can read what another did not read before.  *)
(* The last five variables are history: they record what the user and the  *)
(* broker decided and the races the properties name, and no action reads   *)
(* them.                                                                   *)
(***************************************************************************)
EXTENDS Integers, FiniteSets

CONSTANTS
    Events,       \* the stable event ids of the broker's timeline
    Mappings,     \* what the mapper may make of an executed event
    MaxCrashes    \* bound: restarts of the process in a behaviour

Outcomes == {"draft", "attention", "info"}

ASSUME MappingsAssumption == Mappings \subseteq Outcomes
ASSUME BoundsAssumption == MaxCrashes \in Nat

VARIABLES
    broker,      \* the broker's own view of each event
    rows,        \* status of the pytr transaction of each event
    ledger,      \* tr_resolved_events
    other,       \* status of the same trade imported from another source
    anchor,      \* the newest pytr import: its status and its issues
    request,     \* a confirm or a discard of an import between its statements
    pc,          \* where the running sync is
    export,      \* what the export of this sync returned, per event
    existing,    \* events that had a row when the sync read them
    seed,        \* the confirmed ones among these
    resolved,    \* the ledger as this sync read it
    healable,    \* discarded events the mapper now turns into a draft
    open,        \* did the sync find an open collector?
    drafts,      \* events to materialize
    issues,      \* issues to keep on the anchor
    collapsed,   \* events merged into a row of another source
    crashes,
    verdict, settled, overtaken, torn, asked   \* history

dbVars    == <<rows, ledger, other, anchor>>
syncVars  == <<pc, export, existing, seed, resolved, healable, open, drafts,
               issues, collapsed>>
histVars  == <<verdict, settled, overtaken, torn, asked>>
vars      == <<broker, dbVars, request, syncVars, crashes, histVars>>

-----------------------------------------------------------------------------
BrokerStatus == {"absent", "pending", "executed", "cancelled"}
RowStatus    == {"none", "draft", "normal", "archived"}
OtherStatus  == {"none", "draft", "normal"}
Resolution   == {"none", "confirmed", "discarded"}
AnchorStatus == {"none", "draft", "confirmed", "discarded"}
Verdict      == {"none", "confirmed", "discarded", "revived"}
ExportKind   == {"absent", "pending", "cancelled"} \cup Outcomes
Issue        == Events \X {"attention", "info"}
Steps        == {"idle", "cancelRows", "cancelLedger", "readRows", "seed",
                 "readLedger", "heal", "collector", "anchor", "materialize",
                 "collapse", "update"}

(* Every type a variable keeps, the history included.                      *)
TypeOK ==
    /\ broker \in [Events -> BrokerStatus]
    /\ rows \in [Events -> RowStatus]
    /\ ledger \in [Events -> Resolution]
    /\ other \in [Events -> OtherStatus]
    /\ anchor \in [status: AnchorStatus, issues: SUBSET Issue]
    /\ request \in [at: {"none", "confirm", "discard", "recorded"},
                    issues: SUBSET Issue, current: BOOLEAN]
    /\ pc \in Steps
    /\ export \in [Events -> ExportKind]
    /\ existing \subseteq Events
    /\ seed \subseteq Events
    /\ resolved \subseteq Events
    /\ healable \subseteq Events
    /\ open \in BOOLEAN
    /\ drafts \subseteq Events
    /\ issues \subseteq Issue
    /\ collapsed \subseteq Events
    /\ crashes \in 0 .. MaxCrashes
    /\ verdict \in [Events -> Verdict]
    /\ settled \subseteq Events
    /\ overtaken \subseteq Events
    /\ torn \subseteq Events
    /\ asked \subseteq Events

NoExport  == [e \in Events |-> "absent"]
NoRequest == [at |-> "none", issues |-> {}, current |-> FALSE]

Init ==
    /\ broker = [e \in Events |-> "absent"]
    /\ rows = [e \in Events |-> "none"]
    /\ ledger = [e \in Events |-> "none"]
    /\ other = [e \in Events |-> "none"]
    /\ anchor = [status |-> "none", issues |-> {}]
    /\ request = NoRequest
    /\ pc = "idle"
    /\ export = NoExport
    /\ existing = {} /\ seed = {} /\ resolved = {} /\ healable = {}
    /\ open = FALSE
    /\ drafts = {} /\ issues = {} /\ collapsed = {}
    /\ crashes = 0
    /\ verdict = [e \in Events |-> "none"]
    /\ settled = {} /\ overtaken = {} /\ torn = {} /\ asked = {}

-----------------------------------------------------------------------------
(* Helpers on the tables.                                                  *)

(* UPDATE or DELETE of the rows of a set of events, and the insert of      *)
(* ledger entries with ON CONFLICT DO NOTHING.                             *)
SetAll(f, S, v) == [e \in Events |-> IF e \in S THEN v ELSE f[e]]
InsertLedgerOverwrites(S, v) == SetAll(ledger, S, v)   \* bug: ON CONFLICT DO UPDATE
InsertLedger(S, v) ==
    [e \in Events |-> IF e \in S /\ ledger[e] = "none" THEN v ELSE ledger[e]]

IssueEvents(I) == {i[1] : i \in I}

(* bug: un-import only what was confirmed, leaving offered drafts behind.  *)
CancelledConfirmed == {e \in Events : export[e] = "cancelled" /\ ledger[e] = "confirmed"}
Cancelled == {e \in Events : export[e] = "cancelled"}
Exported  == {e \in Events : export[e] # "absent"}

(* A row no derivation counts neither blocks nor absorbs a draft; a draft  *)
(* row is matched apart from the counted ones.                             *)
PendingMatchOwnSource(e) == rows[e] = "draft" \* bug: no match across sources
PendingMatch(e) == rows[e] = "draft" \/ other[e] = "draft"
CountedMatch(e) == other[e] = "normal" /\ rows[e] # "normal"

(* The user's first decision about an event is what the ledger keeps; a    *)
(* later confirm of a discarded event revives it.                          *)
Confirmed(S) ==
    [e \in Events |->
        IF e \notin S THEN verdict[e]
        ELSE IF verdict[e] \in {"none", "confirmed"} THEN "confirmed"
        ELSE "revived"]
Discarded(S) ==
    [e \in Events |->
        IF e \in S /\ verdict[e] = "none" THEN "discarded" ELSE verdict[e]]
Overtake(S) == overtaken' = IF pc = "idle" THEN overtaken ELSE overtaken \cup S

-----------------------------------------------------------------------------
(* The broker.                                                             *)

BrokerNext(s) ==
    CASE s = "absent"    -> {"pending", "executed"}
      [] s = "pending"   -> {"executed", "cancelled"}
      [] s = "executed"  -> {"cancelled"}
      [] s = "cancelled" -> {"executed"}

BrokerMoves(e) ==
    /\ \E s \in BrokerNext(broker[e]) : broker' = [broker EXCEPT ![e] = s]
    /\ UNCHANGED <<dbVars, request, syncVars, crashes, histVars>>

-----------------------------------------------------------------------------
(* The sync, one action per awaited statement.                             *)

Kinds(e) ==
    IF broker[e] = "executed" THEN Mappings ELSE {broker[e]}

Export ==
    /\ pc = "idle"
    /\ export' \in {x \in [Events -> ExportKind] : \A e \in Events : x[e] \in Kinds(e)}
    /\ pc' = IF \E e \in Events : export'[e] = "cancelled"
             THEN "cancelRows" ELSE "readRows"
    /\ UNCHANGED <<broker, dbVars, request, existing, seed, resolved, healable,
                   open, drafts, issues, collapsed, crashes, histVars>>

CancelRows ==
    /\ pc = "cancelRows"
    /\ rows' = SetAll(rows, Cancelled, "none")
    /\ verdict' = SetAll(verdict, Cancelled, "none")
    /\ settled' = settled \ Cancelled
    /\ overtaken' = overtaken \ Cancelled
    /\ pc' = "cancelLedger"
    /\ UNCHANGED <<broker, ledger, other, anchor, request, export, existing, seed,
                   resolved, healable, open, drafts, issues, collapsed,
                   crashes, torn, asked>>

(* What an earlier sync left behind between the two deletes goes as well.  *)
CancelLedger ==
    /\ pc = "cancelLedger"
    /\ ledger' = SetAll(ledger, Cancelled, "none")
    /\ torn' = torn \ Cancelled
    /\ pc' = "readRows"
    /\ UNCHANGED <<broker, rows, other, anchor, request, export, existing, seed,
                   resolved, healable, open, drafts, issues, collapsed,
                   crashes, verdict, settled, overtaken, asked>>

(* Rows that seed the ledger: counted ones, never drafts.                  *)
SeedStatusesAny == {"draft", "normal"}        \* bug: seed from every live row
SeedStatuses == {"normal"}

ReadRows ==
    /\ pc = "readRows"
    /\ existing' = {e \in Events : rows[e] # "none"}
    /\ seed' = {e \in Events : rows[e] \in SeedStatuses}
    /\ pc' = IF seed' = {} THEN "readLedger" ELSE "seed"
    /\ UNCHANGED <<broker, dbVars, request, export, resolved, healable, open,
                   drafts, issues, collapsed, crashes, histVars>>

Seed ==
    /\ pc = "seed"
    /\ ledger' = InsertLedger(seed, "confirmed")
    /\ seed' = {}
    /\ pc' = "readLedger"
    /\ UNCHANGED <<broker, rows, other, anchor, request, export, existing,
                   resolved, healable, open, drafts, issues, collapsed,
                   crashes, histVars>>

HealableAny == {e \in Events : ledger[e] # "none" /\ export[e] = "draft"} \* bug: confirmed ones too
Healable == {e \in Events : ledger[e] = "discarded" /\ export[e] = "draft"}

ReadLedger ==
    /\ pc = "readLedger"
    /\ resolved' = {e \in Events : ledger[e] # "none"}
    /\ healable' = Healable
    /\ pc' = IF healable' = {} THEN "collector" ELSE "heal"
    /\ UNCHANGED <<broker, dbVars, request, export, existing, seed, open,
                   drafts, issues, collapsed, crashes, histVars>>

Heal ==
    /\ pc = "heal"
    /\ ledger' = SetAll(ledger, healable, "none")
    /\ resolved' = resolved \ healable
    /\ healable' = {}
    /\ pc' = "collector"
    /\ UNCHANGED <<broker, rows, other, anchor, request, export, existing, seed,
                   open, drafts, issues, collapsed, crashes, histVars>>

(* bug: an event with an open issue counts as staged and is not mapped     *)
(* again, although its issue is dropped as stale.                          *)
NewEventsStagedIssues ==
    {e \in Events : /\ e \notin resolved \cup existing \cup IssueEvents(anchor.issues)
                    /\ export[e] \in Outcomes}
NewEvents == {e \in Events : /\ e \notin resolved
                             /\ e \notin existing
                             /\ export[e] \in Outcomes}
KeptIssues(I) == {i \in I : i[1] \notin resolved /\ i[1] \notin Exported}

ReadCollector ==
    /\ pc = "collector"
    /\ open' = (anchor.status = "draft")
    /\ drafts' = {e \in NewEvents : export[e] = "draft"}
    /\ issues' = (IF open' THEN KeptIssues(anchor.issues) ELSE {})
                    \cup {<<e, export[e]>> : e \in {x \in NewEvents : export[x] # "draft"}}
    /\ existing' = {} /\ resolved' = {}
    /\ pc' = "anchor"
    /\ UNCHANGED <<broker, dbVars, request, export, seed, healable, collapsed,
                   crashes, histVars>>

AnchorValue == [status |-> IF issues = {} THEN "confirmed" ELSE "draft",
                issues |-> issues]

InsertAnchor ==
    /\ pc = "anchor"
    /\ IF ~open /\ (drafts # {} \/ issues # {})
       THEN /\ anchor' = AnchorValue
            /\ request' = [request EXCEPT !.current = FALSE]
       ELSE UNCHANGED <<anchor, request>>
    /\ pc' = IF drafts = {} THEN "update" ELSE "materialize"
    /\ UNCHANGED <<broker, rows, ledger, other, export, existing, seed,
                   resolved, healable, open, drafts, issues, collapsed, crashes,
                   histVars>>

SyncRowStatus == "draft"

(* materializeDrafts in sync mode: one transaction behind the portfolio's  *)
(* row lock.  A match with an unconfirmed row blocks the whole batch; a    *)
(* match with a counted row of another source is folded into it, unless    *)
(* the enrichment fails; the rest is written, skipping existing events.    *)
Materialize ==
    /\ pc = "materialize"
    /\ IF \E e \in drafts : PendingMatch(e)
       THEN UNCHANGED <<rows, collapsed>>
       ELSE LET merged == {e \in drafts : CountedMatch(e)} IN
            /\ rows' = [e \in Events |->
                          IF e \in drafts \ merged /\ rows[e] = "none"
                          THEN SyncRowStatus ELSE rows[e]]
            /\ \E done \in SUBSET merged : collapsed' = done
    /\ drafts' = {}
    /\ pc' = IF collapsed' = {} THEN "update" ELSE "collapse"
    /\ UNCHANGED <<broker, ledger, other, anchor, request, export, existing,
                   seed, resolved, healable, open, issues, crashes, histVars>>

Collapse ==
    /\ pc = "collapse"
    /\ ledger' = InsertLedger(collapsed, "confirmed")
    /\ settled' = settled \cup collapsed
    /\ collapsed' = {}
    /\ pc' = "update"
    /\ UNCHANGED <<broker, rows, other, anchor, request, export, existing, seed,
                   resolved, healable, open, drafts, issues, crashes,
                   verdict, overtaken, torn, asked>>

(* The collector found earlier is overwritten by id, whatever became of it *)
(* in between; then the connection row is rolled and the sync returns.     *)
UpdateAnchor ==
    /\ pc = "update"
    /\ anchor' = IF open THEN AnchorValue ELSE anchor
    /\ pc' = "idle"
    /\ export' = NoExport
    /\ open' = FALSE
    /\ issues' = {}
    /\ UNCHANGED <<broker, rows, ledger, other, request, existing, seed, resolved,
                   healable, drafts, collapsed, crashes, histVars>>

(* The process dies, or a statement throws: what was written stays.        *)
Crash ==
    /\ pc # "idle"
    /\ crashes < MaxCrashes
    /\ crashes' = crashes + 1
    /\ torn' = torn \cup (IF pc = "cancelLedger" THEN Cancelled ELSE {})
    /\ pc' = "idle"
    /\ export' = NoExport
    /\ existing' = {} /\ seed' = {} /\ resolved' = {} /\ healable' = {}
    /\ open' = FALSE
    /\ drafts' = {} /\ issues' = {} /\ collapsed' = {}
    /\ UNCHANGED <<broker, dbVars, request, verdict, settled, overtaken,
                   asked>>

-----------------------------------------------------------------------------
(* What the user may do, at any step of the sync.                          *)

ResolveConfirm(e) ==
    /\ rows[e] = "draft"
    /\ rows' = [rows EXCEPT ![e] = "normal"]
    /\ ledger' = InsertLedger({e}, "confirmed")
    /\ verdict' = Confirmed({e})
    /\ settled' = settled \cup {e}
    /\ UNCHANGED <<broker, other, anchor, request, syncVars, crashes, overtaken,
                   torn, asked>>

ResolveDiscard(e) ==
    /\ rows[e] = "draft"
    /\ rows' = [rows EXCEPT ![e] = "archived"]
    /\ ledger' = InsertLedger({e}, "discarded")
    /\ verdict' = Discarded({e})
    /\ settled' = settled \cup {e}
    /\ UNCHANGED <<broker, other, anchor, request, syncVars, crashes, overtaken,
                   torn, asked>>

(* PATCH .../status takes a row from any status to a counted or an         *)
(* archived one; counting an archived row whose twin exists is the user's  *)
(* own request to hold both.                                               *)
SetCounted(e) ==
    /\ rows[e] # "none"
    /\ rows' = [rows EXCEPT ![e] = "normal"]
    /\ ledger' = InsertLedger({e}, "confirmed")
    /\ verdict' = Confirmed({e})
    /\ settled' = settled \cup {e}
    /\ asked' = IF rows[e] = "archived" THEN asked \cup {e} ELSE asked
    /\ UNCHANGED <<broker, other, anchor, request, syncVars, crashes, overtaken,
                   torn>>

SetArchived(e) ==
    /\ rows[e] # "none"
    /\ rows' = [rows EXCEPT ![e] = "archived"]
    /\ ledger' = InsertLedger({e}, "discarded")
    /\ verdict' = Discarded({e})
    /\ settled' = settled \cup {e}
    /\ UNCHANGED <<broker, other, anchor, request, syncVars, crashes, overtaken,
                   torn, asked>>

DeleteRow(e) ==
    /\ rows[e] # "none"
    /\ rows' = [rows EXCEPT ![e] = "none"]
    /\ UNCHANGED <<broker, ledger, other, anchor, request, syncVars, crashes,
                   histVars>>

(* POST /tr/connection/reimport asks nothing about a running sync.         *)
Reimport ==
    /\ rows' = SetAll(rows, Events, "none")
    /\ ledger' = SetAll(ledger, Events, "none")
    /\ anchor' = IF anchor.status = "draft"
                 THEN [anchor EXCEPT !.status = "discarded"] ELSE anchor
    /\ verdict' = SetAll(verdict, Events, "none")
    /\ settled' = {} /\ overtaken' = {}
    /\ torn' = IF pc = "seed" THEN seed ELSE {}
    /\ UNCHANGED <<broker, other, request, syncVars, crashes, asked>>

(* POST /imports/:id/discard reads an import that is not confirmed,        *)
(* records its events from that copy, if it has any, and then closes it by *)
(* id: three statements of no transaction.                                 *)
Reads(kind) ==
    /\ request.at = "none"
    /\ anchor.status \in {"draft", "discarded"}
    /\ request' = [at |-> kind, issues |-> anchor.issues, current |-> TRUE]
    /\ UNCHANGED <<broker, dbVars, syncVars, crashes, histVars>>

DiscardReads == Reads("discard")

DiscardRecords ==
    LET S == IssueEvents(request.issues) IN
    /\ request.at = "discard"
    /\ ledger' = InsertLedger(S, "discarded")
    /\ request' = [request EXCEPT !.at = "recorded", !.issues = {}]
    /\ verdict' = Discarded(S)
    /\ settled' = settled \cup S
    /\ UNCHANGED <<broker, rows, other, anchor, syncVars, crashes, overtaken,
                   torn, asked>>

DiscardCloses ==
    /\ request.at = "recorded"
    /\ anchor' = IF request.current THEN [anchor EXCEPT !.status = "discarded"]
                 ELSE anchor
    /\ request' = NoRequest
    /\ UNCHANGED <<broker, rows, ledger, other, syncVars, crashes, histVars>>

(* POST /imports/:id/confirm reads the import, resolves instruments over   *)
(* the network, and only then opens its transaction.                       *)
ConfirmReads == anchor.issues # {} /\ Reads("confirm")

(* The issues that are left are written back, from the copy that was read, *)
(* into the import that was read.                                          *)
WrittenBack(rest, closing) ==
    IF ~request.current THEN anchor
    ELSE IF closing THEN [anchor EXCEPT !.status = "confirmed"]
    ELSE [anchor EXCEPT !.issues = rest]

(* The transaction, for the mapped issues S and the ones among them the    *)
(* user chose to write beside their twin.                                  *)
ConfirmWrites(S, twice) ==
    LET merged  == {e \in S : CountedMatch(e)} \ twice
        rest    == {i \in request.issues : i[1] \notin S}
        closing == \A i \in rest : i[2] # "attention"
        auto    == IF closing THEN IssueEvents(rest) ELSE {}
    IN  /\ request.at = "confirm"
        /\ twice \subseteq {e \in S : CountedMatch(e)}
        /\ ~\E e \in S : PendingMatch(e)
        /\ rows' = [e \in Events |->
                      IF e \in S \ merged /\ rows[e] = "none" THEN "normal" ELSE rows[e]]
        /\ ledger' = [e \in Events |->
                        IF ledger[e] # "none" THEN ledger[e]
                        ELSE IF e \in S THEN "confirmed"
                        ELSE IF e \in auto THEN "discarded" ELSE "none"]
        /\ anchor' = WrittenBack(rest, closing)
        /\ request' = NoRequest
        /\ verdict' = [e \in Events |->
                         IF e \in auto \ S THEN Discarded(auto)[e] ELSE Confirmed(S)[e]]
        /\ settled' = settled \cup S \cup auto
        /\ asked' = asked \cup twice
        /\ Overtake(S \cup auto)
        /\ UNCHANGED <<broker, other, syncVars, crashes, torn>>

(* A 409, a 404 or an error: nothing more is written.                      *)
GivesUp ==
    /\ request.at # "none"
    /\ request' = NoRequest
    /\ UNCHANGED <<broker, dbVars, syncVars, crashes, histVars>>

(* The same trade arrives from a file.  It lands as a draft (materialize)  *)
(* or counted (confirm), unless it matches a pytr row: an unconfirmed one  *)
(* blocks the import, a counted one absorbs it.                            *)
ImportTwin(e, status) ==
    /\ other[e] = "none"
    /\ rows[e] \in {"none", "archived"}
    /\ other' = [other EXCEPT ![e] = status]
    /\ UNCHANGED <<broker, rows, ledger, anchor, request, syncVars, crashes,
                   histVars>>

ConfirmTwin(e) ==
    /\ other[e] = "draft"
    /\ other' = [other EXCEPT ![e] = "normal"]
    /\ UNCHANGED <<broker, rows, ledger, anchor, request, syncVars, crashes,
                   histVars>>

DropTwin(e) ==
    /\ other[e] # "none"
    /\ other' = [other EXCEPT ![e] = "none"]
    /\ UNCHANGED <<broker, rows, ledger, anchor, request, syncVars, crashes,
                   histVars>>

-----------------------------------------------------------------------------
SyncStep ==
    \/ CancelRows \/ CancelLedger \/ ReadRows \/ Seed \/ ReadLedger \/ Heal
    \/ ReadCollector \/ InsertAnchor \/ Materialize \/ Collapse \/ UpdateAnchor

RowStep(e) ==
    \/ ResolveConfirm(e) \/ ResolveDiscard(e)
    \/ SetCounted(e) \/ SetArchived(e) \/ DeleteRow(e)

TwinStep(e) ==
    \/ \E status \in {"draft", "normal"} : ImportTwin(e, status)
    \/ ConfirmTwin(e) \/ DropTwin(e)

ConfirmStep ==
    \/ ConfirmReads
    \/ \E S \in SUBSET IssueEvents(request.issues) \ {{}} :
          \E twice \in SUBSET S : ConfirmWrites(S, twice)

DiscardStep == DiscardReads \/ DiscardRecords \/ DiscardCloses

Next ==
    \/ \E e \in Events : BrokerMoves(e) \/ RowStep(e) \/ TwinStep(e)
    \/ Export \/ SyncStep \/ Crash
    \/ Reimport \/ DiscardStep \/ ConfirmStep \/ GivesUp

Spec == Init /\ [][Next]_vars

(* The hourly cron keeps starting syncs whose export answers, and a        *)
(* started sync keeps running.                                             *)
Fairness == WF_vars(SyncStep) /\ WF_vars(Export)

FairSpec == Spec /\ Fairness

-----------------------------------------------------------------------------
(* Properties.                                                             *)

(* A broker event the user confirmed is never offered as a draft again,    *)
(* not even after its row was deleted, until the broker cancels it or the  *)
(* user re-imports everything.  The exceptions are named: an event whose   *)
(* issue was mapped while a sync was past its reads, and an event whose    *)
(* cancellation died between its two deletes.                              *)
ConfirmedNeverReoffered ==
    \A e \in Events : (verdict[e] = "confirmed" /\ e \notin overtaken \cup torn)
                        => rows[e] # "draft"

(* The ledger holds no event that nobody decided: such an event would be   *)
(* skipped by every later sync and its trade never shown.  Only a          *)
(* re-import during a sync, or a crash between the two deletes of a        *)
(* cancellation, can leave one.                                            *)
NothingLost ==
    \A e \in Events : ledger[e] # "none" =>
        \/ e \in settled \cup torn
        \/ pc = "cancelLedger" /\ export[e] = "cancelled"

(* A trade is never held twice, once from the broker and once from a file, *)
(* in rows a user sees as live, unless the user asked for both.            *)
OneLiveCopy ==
    \A e \in Events :
        (rows[e] \in {"draft", "normal"} /\ other[e] # "none") => e \in asked

(* What a sync saw cancelled has no row of the broker once its rows are    *)
(* deleted and no entry in the ledger once that is cleared, to the end of  *)
(* that sync, also where an earlier sync died between the two deletes: only*)
(* a decision the user takes after the deletion brings either back, or the *)
(* seeding of such a decision that a re-import undid meanwhile             *)
(* (cancellation.ts:42-80).                                                *)
CancelledIsGone ==
    \A e \in Events : (export[e] = "cancelled" /\ verdict[e] = "none") =>
        /\ pc # "cancelRows" => rows[e] = "none"
        /\ pc \notin {"cancelRows", "cancelLedger"} => ledger[e] = "none" \/ e \in torn

Shown(e) ==
    \/ rows[e] # "none"
    \/ e \in settled \cup torn
    \/ other[e] = "normal"
    \/ anchor.status = "draft" /\ e \in IssueEvents(anchor.issues)

(* An executed event ends up offered, decided, or shown as an issue of an  *)
(* open import, whatever stale import a concurrent confirm wrote back, as  *)
(* long as no unconfirmed row of another source blocks the batches for     *)
(* ever.                                                                   *)
EventuallyShown ==
    \A e \in Events :
        <>[](broker[e] = "executed" /\ \A d \in Events : other[d] # "draft")
            => []<>Shown(e)

-----------------------------------------------------------------------------
(* The inductive invariants behind the safety properties.                  *)

Safe(e)  == e \notin overtaken \cup torn
Known(e) == verdict[e] = "confirmed" /\ Safe(e)

(* A confirmed event is in the ledger, and the ledger calls an event       *)
(* discarded only when that was the first decision.                        *)
KnownIsRecorded ==
    \A e \in Events :
        /\ Known(e) => ledger[e] = "confirmed"
        /\ (ledger[e] = "discarded" /\ Safe(e)) =>
              \/ verdict[e] \in {"discarded", "revived"}
              \/ pc = "cancelLedger" /\ export[e] = "cancelled"

(* What the sync is about to forget or to write belongs to no confirmed    *)
(* event, although its reads are several statements old.                   *)
ReadsStillHold ==
    \A e \in Events :
        /\ (e \notin overtaken /\ pc = "cancelLedger" /\ export[e] = "cancelled") =>
               rows[e] = "none" /\ verdict[e] # "confirmed"
        /\ Safe(e) =>
             /\ (pc \in {"seed", "readLedger", "heal", "collector"} /\ e \notin existing)
                    => rows[e] = "none"
             /\ (pc = "heal" /\ e \in healable) =>
                    \/ verdict[e] \in {"discarded", "revived"}
                    \/ verdict[e] = "none" /\ rows[e] = "none"
             /\ (pc \in {"heal", "collector"} /\ Known(e)) =>
                    e \in existing \/ e \in resolved \ healable
             /\ (pc \in {"anchor", "materialize"} /\ e \in drafts) =>
                    rows[e] = "none" /\ verdict[e] # "confirmed"

ConfirmInv == KnownIsRecorded /\ ReadsStillHold /\ ConfirmedNeverReoffered
=============================================================================
