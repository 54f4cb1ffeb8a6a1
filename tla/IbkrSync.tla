------------------------------ MODULE IbkrSync ------------------------------
(***************************************************************************)
(* The Interactive Brokers sync of one portfolio (services/ibkr/sync.ts),  *)
(* with the moves and merges of rows (services/reassign.ts,                *)
(* services/merge/core.ts).                                                *)
(*                                                                         *)
(* The nightly job claims nothing, so syncs of a connection overlap, with  *)
(* each other and with what the user does.  Unlike the Trade Republic sync *)
(* this one reads its ledger first and the rows after it, and a row may    *)
(* leave the portfolio the ledger belongs to.                              *)
(*                                                                         *)
(* A report holds every event.  Issues carry no event id here and are left *)
(* out, and with them the imports that hold nothing else.  One transaction *)
(* is one step.  merged is only what the sync merges itself.  The last     *)
(* three variables are history.                                            *)
(***************************************************************************)
EXTENDS FiniteSets

CONSTANTS
    FlexEvents,   \* events with a stable id
    Syncs         \* syncs that may be under way at once

VARIABLES
    held,         \* rows of source "ibkr", by portfolio and event
    decided,      \* tr_resolved_events of the home portfolio, by event
    twin,         \* the same trade from another source, in the home portfolio
    collector,    \* the open import and the drafts staged in it
    sync,         \* the syncs
    move,         \* a reassignment between its reads and its update
    chosen,       \* history: events decided or merged since the last re-import
    loose,        \* history: events that moved away undecided or were wiped there,
                  \* or whose row, twin or import left under a sync
    reread          \* history: events a sync recorded after the re-import

ibkrVars == <<held, decided, twin, collector, sync, move, chosen, loose, reread>>
historyVars == <<chosen, loose, reread>>

-----------------------------------------------------------------------------
Places == {"home", "away"}              \* the portfolio of the connection; another one
Elsewhere(p) == IF p = "home" THEN "away" ELSE "home"

Idle == [at |-> "idle", resolved |-> {}, existing |-> {}, counted |-> {},
         open |-> FALSE, drafts |-> {}, merged |-> {}]
NoMove == [at |-> "none", from |-> "home", ids |-> {}]

IbkrTypeOK ==
    /\ held \in [Places -> [FlexEvents -> {"none", "draft", "normal", "archived"}]]
    /\ decided \in [FlexEvents -> {"none", "confirmed", "discarded"}]
    /\ twin \in [FlexEvents -> {"none", "draft", "normal"}]
    /\ collector \in [open: BOOLEAN, discarding: BOOLEAN, staged: SUBSET FlexEvents]
    /\ sync \in [Syncs ->
          [at: {"idle", "rows", "seed", "collector", "write", "collapse", "close"},
           resolved: SUBSET FlexEvents, existing: SUBSET FlexEvents,
           counted: SUBSET FlexEvents, open: BOOLEAN,
           drafts: SUBSET FlexEvents, merged: SUBSET FlexEvents]]
    /\ move \in [at: {"none", "target", "write"}, from: Places, ids: SUBSET FlexEvents]
    /\ \A h \in {chosen, loose, reread} : h \subseteq FlexEvents

(* A collector of former versions may still have drafts staged in it.      *)
IbkrInit ==
    /\ held = [p \in Places |-> [e \in FlexEvents |-> "none"]]
    /\ decided = [e \in FlexEvents |-> "none"]
    /\ twin = [e \in FlexEvents |-> "none"]
    /\ \E S \in SUBSET FlexEvents : collector = [open |-> S # {}, discarding |-> FALSE, staged |-> S]
    /\ sync = [s \in Syncs |-> Idle]
    /\ move = NoMove
    /\ chosen = {} /\ loose = {} /\ reread = {}

-----------------------------------------------------------------------------
(* Helpers.                                                                *)

(* An insert into the ledger, ON CONFLICT DO NOTHING.  The ledger of the   *)
(* other portfolio is written in the same way and read by nothing here.    *)
Recorded(S, resolution) ==
    [e \in FlexEvents |->
        IF e \in S /\ decided[e] = "none" THEN resolution ELSE decided[e]]

Rows(p) == {e \in FlexEvents : held[p][e] # "none"}

(* A sync past its read of the ledger does not learn of this any more.     *)
UnderWay == \E s \in Syncs : sync[s].at # "idle"
Loosened(S) == IF UnderWay THEN loose \cup S ELSE loose

(* The ids of rows that are gone mean nothing to a move that read them.    *)
Forgets(S) == [move EXCEPT !.ids = @ \ S]

-----------------------------------------------------------------------------
(* The sync.                                                               *)

(* The fetch before it touches nothing that is modelled here.              *)
LoadsLedger(s) ==
    /\ sync[s].at = "idle"
    /\ sync' = [sync EXCEPT ![s].at = "rows",
                  ![s].resolved = {e \in FlexEvents : decided[e] # "none"}]
    /\ UNCHANGED <<held, decided, twin, collector, move, historyVars>>

CountedOrDraft == Rows("home")           \* bug: drafts seed the ledger too
CountedStatuses ==                       \* bug: the status for the event id
    {held["home"][e] : e \in {x \in FlexEvents : held["home"][x] = "normal"}}
CountedRows == {e \in FlexEvents : held["home"][e] = "normal"}

LoadsRows(s) ==
    /\ sync[s].at = "rows"
    /\ sync' = [sync EXCEPT ![s].at = IF CountedRows = {} THEN "collector" ELSE "seed",
                  ![s].existing = Rows("home"), ![s].counted = CountedRows]
    /\ UNCHANGED <<held, decided, twin, collector, move, historyVars>>

Seeds(s) ==
    /\ sync[s].at = "seed"
    /\ decided' = Recorded(sync[s].counted, "confirmed")
    /\ sync' = [sync EXCEPT ![s].at = "collector",
                  ![s].resolved = @ \cup sync[s].counted, ![s].counted = {}]
    /\ UNCHANGED <<held, twin, collector, move, historyVars>>

StagedDrafts == IF collector.open THEN collector.staged ELSE {}

FreshByRow(s) ==                         \* bug: only rows count as known
    FlexEvents \ (sync[s].existing \cup StagedDrafts)
Fresh(s) == FlexEvents \ (sync[s].resolved \cup sync[s].existing \cup StagedDrafts)

FindsCollector(s) ==
    /\ sync[s].at = "collector"
    /\ LET drafts == (StagedDrafts \ sync[s].resolved) \cup Fresh(s)
       IN  sync' = [sync EXCEPT ![s] =
               [Idle EXCEPT !.at = IF drafts # {} THEN "write" ELSE "close",
                            !.open = collector.open, !.drafts = drafts]]
    /\ UNCHANGED <<held, decided, twin, collector, move, historyVars>>

(* materializeDrafts: a match with a draft row, its own or the twin, blocks *)
(* the batch; a match with a counted twin is merged into it, unless that   *)
(* fails; the rest is written beside rows that exist.                      *)
Pending(e) == held["home"][e] = "draft" \/ twin[e] = "draft"
MergesWith(e) == twin[e] = "normal" /\ held["home"][e] # "normal"

Writes(s) ==
    /\ sync[s].at = "write"
    /\ LET drafts == sync[s].drafts
           merges == {e \in drafts : MergesWith(e)}
       IN  IF \E e \in drafts : Pending(e)
           THEN /\ sync' = [sync EXCEPT ![s].at = "close", ![s].drafts = {}]
                /\ UNCHANGED held
           ELSE /\ held' = [held EXCEPT !["home"] = [e \in FlexEvents |->
                      IF e \in drafts \ merges /\ @[e] = "none" THEN "draft" ELSE @[e]]]
                /\ \E done \in SUBSET merges :
                     sync' = [sync EXCEPT ![s].at = IF done = {} THEN "close" ELSE "collapse",
                                          ![s].drafts = {}, ![s].merged = done]
    /\ UNCHANGED <<decided, twin, collector, move, historyVars>>

Collapses(s) ==
    /\ sync[s].at = "collapse"
    /\ decided' = Recorded(sync[s].merged, "confirmed")
    /\ chosen' = chosen \cup sync[s].merged
    /\ sync' = [sync EXCEPT ![s].at = "close", ![s].merged = {}]
    /\ UNCHANGED <<held, twin, collector, move, loose, reread>>

Emptied == [collector EXCEPT !.open = FALSE, !.staged = {}]

(* The collector found before is emptied and closed by id.                 *)
Closes(s) ==
    /\ sync[s].at = "close"
    /\ collector' = IF sync[s].open THEN Emptied ELSE collector
    /\ sync' = [sync EXCEPT ![s] = Idle]
    /\ UNCHANGED <<held, decided, twin, move, historyVars>>

(* A statement throws, or the process ends: what was written stays.        *)
Throws(s) ==
    /\ sync[s].at # "idle"
    /\ sync' = [sync EXCEPT ![s] = Idle]
    /\ UNCHANGED <<held, decided, twin, collector, move, historyVars>>

-----------------------------------------------------------------------------
(* The user.                                                               *)

(* Confirm or discard of a draft, and the status of any row.               *)
Decides(p, e, status) ==
    /\ held[p][e] # "none"
    /\ held' = [held EXCEPT ![p][e] = status]
    /\ decided' = IF p = "home"
                  THEN Recorded({e}, IF status = "normal" THEN "confirmed" ELSE "discarded")
                  ELSE decided
    /\ chosen' = chosen \cup {e}
    /\ UNCHANGED <<twin, collector, sync, move, loose, reread>>

Deletes(p, e) ==
    /\ held[p][e] # "none"
    /\ held' = [held EXCEPT ![p][e] = "none"]
    /\ loose' = Loosened({e})
    /\ move' = IF p = move.from THEN Forgets({e}) ELSE move
    /\ UNCHANGED <<decided, twin, collector, sync, chosen, reread>>

(* Another import writes, confirms or deletes the same trade.              *)
TwinChanges(e, status) ==
    /\ twin[e] # status
    /\ twin' = [twin EXCEPT ![e] = status]
    /\ loose' = Loosened({e})
    /\ UNCHANGED <<held, decided, collector, sync, move, chosen, reread>>

(* A discard records what was staged, then closes the import by id.        *)
RecordsDiscard ==
    /\ collector.open
    /\ decided' = Recorded(collector.staged, "discarded")
    /\ chosen' = chosen \cup collector.staged
    /\ collector' = [collector EXCEPT !.discarding = TRUE]
    /\ loose' = Loosened(collector.staged) \cup (collector.staged \cap Rows("home"))
    /\ UNCHANGED <<held, twin, sync, move, reread>>

DiscardsCollector ==
    /\ collector.discarding
    /\ collector' = [Emptied EXCEPT !.discarding = FALSE]
    /\ UNCHANGED <<held, decided, twin, sync, move, historyVars>>

(* What a sync has in hand for the ledger it writes after the re-import.   *)
Reimports ==
    /\ held' = [held EXCEPT !["home"] = [e \in FlexEvents |-> "none"]]
    /\ decided' = [e \in FlexEvents |-> "none"]
    /\ collector' = Emptied
    /\ chosen' = chosen \cap Rows("away")
    /\ loose' = IF UnderWay THEN FlexEvents ELSE Rows("away")
    /\ reread' = UNION {sync[s].counted : s \in Syncs}
    /\ move' = IF move.from = "home" THEN Forgets(FlexEvents) ELSE move
    /\ UNCHANGED <<twin, sync>>

-----------------------------------------------------------------------------
(* A merge: the absorbed row is deleted and its event recorded.            *)

AbsorbedByTwin(e) ==
    /\ held["home"][e] # "none" /\ twin[e] # "none"
    /\ held' = [held EXCEPT !["home"][e] = "none"]
    /\ decided' = Recorded({e}, "confirmed")
    /\ chosen' = chosen \cup {e}
    /\ loose' = Loosened({e})
    /\ move' = IF move.from = "home" THEN Forgets({e}) ELSE move
    /\ UNCHANGED <<twin, collector, sync, reread>>

AbsorbsTwin(e) ==
    /\ held["home"][e] # "none" /\ twin[e] # "none"
    /\ twin' = [twin EXCEPT ![e] = "none"]
    /\ loose' = Loosened({e})
    /\ UNCHANGED <<held, decided, collector, sync, move, chosen, reread>>

-----------------------------------------------------------------------------
(* A reassignment reads the rows, then the target, then updates by id.     *)

MoveReads(from, S) ==
    /\ move.at = "none"
    /\ S # {} /\ S \subseteq Rows(from)
    /\ move' = [at |-> "target", from |-> from, ids |-> S]
    /\ UNCHANGED <<held, decided, twin, collector, sync, historyVars>>

Conflicting == Rows(Elsewhere(move.from))

MoveChecks ==
    /\ move.at = "target"
    /\ move' = [move EXCEPT !.at = "write", !.ids = @ \ Conflicting]
    /\ UNCHANGED <<held, decided, twin, collector, sync, historyVars>>

(* A row written into the target meanwhile has the key of a moved one: the *)
(* unique index refuses the whole update.                                  *)
MoveWrites ==
    LET from == move.from
        to   == Elsewhere(from)
        S    == move.ids
    IN  /\ move.at = "write"
        /\ move' = NoMove
        /\ IF S \cap Rows(to) # {} THEN UNCHANGED <<held, historyVars>>
           ELSE /\ held' = [held EXCEPT
                       ![from] = [e \in FlexEvents |-> IF e \in S THEN "none" ELSE @[e]],
                       ![to] = [e \in FlexEvents |-> IF e \in S THEN held[from][e] ELSE @[e]]]
                /\ loose' = Loosened(S) \cup {e \in S : decided[e] = "none"}
                /\ UNCHANGED <<chosen, reread>>
        /\ UNCHANGED <<decided, twin, collector, sync>>

-----------------------------------------------------------------------------
SyncNext ==
    \E s \in Syncs :
        \/ LoadsLedger(s) \/ LoadsRows(s) \/ Seeds(s)
        \/ FindsCollector(s) \/ Writes(s) \/ Collapses(s) \/ Closes(s) \/ Throws(s)

UserNext ==
    \/ \E p \in Places, e \in FlexEvents :
          \/ Decides(p, e, "normal") \/ Decides(p, e, "archived") \/ Deletes(p, e)
    \/ \E e \in FlexEvents :
          \/ \E status \in {"none", "draft", "normal"} : TwinChanges(e, status)
          \/ AbsorbedByTwin(e) \/ AbsorbsTwin(e)
    \/ RecordsDiscard \/ DiscardsCollector \/ Reimports

MoveNext ==
    \/ \E from \in Places, S \in SUBSET FlexEvents : MoveReads(from, S)
    \/ MoveChecks \/ MoveWrites

IbkrNext == SyncNext \/ UserNext \/ MoveNext
IbkrSpec == IbkrInit /\ [][IbkrNext]_ibkrVars

-----------------------------------------------------------------------------
(* The ledger and the drafts agree: what is offered to the user is not     *)
(* decided, except where its row was deleted, moved, merged away or wiped, *)
(* its twin changed or its import was discarded under a sync that had read *)
(* the ledger before, or where it moved undecided; and what the ledger     *)
(* knows was decided or merged, so that no sync skips an event nobody saw, *)
(* except what a sync seeds after a re-import from the rows it read before *)
(* (sync.ts:152-184).                                                      *)
DecisionsStand ==
    \A e \in FlexEvents :
        /\ held["home"][e] = "draft" /\ decided[e] # "none" => e \in loose
        /\ decided[e] # "none" => e \in chosen \cup reread

(* Two portfolios hold the same event only where it was undecided when it  *)
(* moved, where the re-import of its home left it in the other, or where   *)
(* its row or its twin changed under a sync that had read the ledger before*)
(* (reassign.ts:1-15, merge/core.ts:193-205).                              *)
HeldOnce ==
    \A e \in FlexEvents :
        held["home"][e] # "none" /\ held["away"][e] # "none" => e \in loose
=============================================================================
