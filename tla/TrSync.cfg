\* One event with every operation of the user, every move of the broker and a
\* restart at each step of a sync; and two events that share an import, which is
\* confirmed in part, closed with an ignorable issue left, discarded, or written
\* back from a stale copy while syncs run.
CONSTANTS
    Events = {e1, e2}
    first = e1
    Mappings = {"draft", "attention", "info"}
    MaxCrashes = 1
SPECIFICATION SyncRunSpec
INVARIANTS
    CancelledIsGone
    OneLiveCopy
    NothingLost
    ConfirmInv
    ConfirmedNeverReoffered
PROPERTIES
    EventuallyShown
