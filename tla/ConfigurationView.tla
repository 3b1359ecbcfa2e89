-------------------------- MODULE ConfigurationView --------------------------
(***************************************************************************)
(* The configuration overlay and what it starts: inspection, preview and   *)
(* apply tasks, the event queue that brings their results back, and the    *)
(* settings files they read and write while other programs edit them.      *)
(*                                                                         *)
(* A document is the set of display items it declares, and a draft the set *)
(* of items it toggles; DisplayBinds models how toggles become text.  Each *)
(* write of a file gives it a new revision, as inode and ctime do.         *)
(***************************************************************************)
EXTENDS Integers, Sequences, FiniteSets

CONSTANTS
    MachineTargets, ImageTargets,   \* what a view can be opened on
    Items,                          \* display binds that can be toggled
    RefusedDrafts,                  \* drafts plan_display_mutations refuses
    EventCap,                       \* the application event channel
    MaxGeneration, MaxQuery,        \* bounds on edits and on inspections
    MaxRevision                     \* bound on writes of a file

ASSUME EventAssumption == EventCap \in Nat \ {0}

Configurable == MachineTargets \cup ImageTargets
NoRevision == 0

VARIABLES
    disk,       \* target -> [content, rev]
    view,       \* the overlay, or Closed
    queries,    \* next_configuration_query, shared by all views
    inspection, preview,    \* the tasks a view tracks: a set of at most one
    applies,    \* executions of apply, including those nobody waits for
    inbox       \* application events, in order
configurationVars == <<disk, view, queries, inspection, preview, applies, inbox>>

Closed == <<>>
OpenView == view # Closed

Toggled(content, draft) == (content \ draft) \cup (draft \ content)

ViewInit ==
    /\ disk = [t \in Configurable |-> [content |-> {}, rev |-> 1]]
    /\ view = Closed
    /\ queries = 0
    /\ inspection = {} /\ preview = {} /\ applies = {}
    /\ inbox = <<>>

-----------------------------------------------------------------------------
(* The view.                                                               *)

NewView(t) ==
    [target |-> t, query |-> 0, state |-> "loading", snapshot |-> NoRevision,
     draft |-> {}, generation |-> 0, shown |-> "clean", after |-> {}, discard |-> "none",
     restart |-> FALSE, saving |-> FALSE, stale |-> FALSE]

\* begin_query: the draft and its preview go, the generation stays.
BeginQuery(v) ==
    [v EXCEPT !.query = queries + 1, !.state = "loading", !.snapshot = NoRevision,
              !.draft = {}, !.shown = "clean", !.after = {},
              !.discard = "none", !.restart = FALSE, !.stale = FALSE]

\* refresh_configuration: aborts the running tasks and starts an inspection.
Refresh(v) ==
    /\ queries < MaxQuery
    /\ view' = BeginQuery(v)
    /\ queries' = queries + 1
    /\ inspection' = {[query |-> queries + 1, target |-> v.target]}
    /\ preview' = {}

\* Dropping the view aborts its reads and detaches its apply.
Close ==
    /\ view' = Closed
    /\ inspection' = {} /\ preview' = {}
    /\ UNCHANGED queries

OpenConfiguration(t) ==
    /\ ~OpenView
    /\ Refresh(NewView(t))
    /\ UNCHANGED <<disk, applies, inbox>>

\* Keys reach the page and the view only when no confirmation is shown.
Unconfirmed == OpenView /\ view.discard = "none" /\ ~view.restart

\* draft_changed, after a page asked for a toggle.
ToggleItem(i) ==
    LET draft == Toggled(view.draft, {i})
        changed == [view EXCEPT !.draft = draft, !.generation = @ + 1, !.after = {}]
    IN  /\ Unconfirmed
        /\ view.state = "ready" /\ ~view.saving /\ ~view.stale
        /\ view.generation < MaxGeneration
        /\ CASE draft = {} ->
                  view' = [changed EXCEPT !.shown = "clean"] /\ preview' = {}
             [] draft # {} /\ view.snapshot = NoRevision ->
                  view' = [changed EXCEPT !.shown = "failed"] /\ preview' = {}
             [] OTHER ->
                  /\ view' = [changed EXCEPT !.shown = "loading"]
                  /\ preview' = {[generation |-> view.generation + 1, target |-> view.target,
                                  base |-> view.snapshot, draft |-> draft]}
        /\ UNCHANGED <<disk, queries, inspection, applies, inbox>>

\* request_close_or_refresh
RequestClose ==
    /\ Unconfirmed /\ ~view.saving
    /\ UNCHANGED <<disk, applies, inbox>>
    /\ IF view.draft # {}
       THEN /\ view' = [view EXCEPT !.discard = "close"]
            /\ UNCHANGED <<queries, inspection, preview>>
       ELSE Close
RequestViewRefresh ==
    /\ Unconfirmed /\ ~view.saving
    /\ UNCHANGED <<disk, applies, inbox>>
    /\ IF view.draft # {}
       THEN /\ view' = [view EXCEPT !.discard = "refresh"]
            /\ UNCHANGED <<queries, inspection, preview>>
       ELSE Refresh(view)

\* handle_discard_key and handle_restart_confirmation_key
AnswerDiscard(yes) ==
    /\ OpenView /\ ~view.restart /\ view.discard # "none"
    /\ UNCHANGED <<disk, applies, inbox>>
    /\ CASE ~yes -> /\ view' = [view EXCEPT !.discard = "none"]
                    /\ UNCHANGED <<queries, inspection, preview>>
         [] yes /\ view.discard = "close" -> Close
         [] OTHER -> Refresh(view)
AnswerRestart(yes) ==
    /\ OpenView /\ view.restart
    /\ UNCHANGED <<disk, applies, inbox>>
    /\ IF yes THEN Close ELSE Refresh(view)

\* Ctrl-S: only the preview of the current generation can be saved.
Save ==
    /\ Unconfirmed /\ ~view.saving /\ ~view.stale
    /\ view.shown = "ready" /\ view.snapshot # NoRevision
    /\ view' = [view EXCEPT !.saving = TRUE]
    /\ applies' = applies \cup
          {[generation |-> view.generation, target |-> view.target, base |-> view.snapshot,
            draft |-> view.draft, reviewed |-> view.after, stage |-> "queued",
            new |-> {}, heard |-> TRUE]}
    /\ UNCHANGED <<disk, queries, inspection, preview, inbox>>

-----------------------------------------------------------------------------
(* The tasks.  A result is sent when the event channel has room.           *)

Room == Len(inbox) < EventCap
Send(event) == inbox' = Append(inbox, event)

\* inspect_at, or an error or the ten second timeout.  Discovery may also be
\* incomplete, which shows no document and has no revision.
InspectionReturns(r) ==
    /\ r \in inspection /\ Room
    /\ inspection' = {}
    /\ \E ok \in {"ready", "incomplete", "failed"} :
         Send([kind |-> "inspected", query |-> r.query, target |-> r.target, result |-> ok,
               rev |-> IF ok = "ready" THEN disk[r.target].rev ELSE NoRevision])
    /\ UNCHANGED <<disk, view, queries, preview, applies>>

PreparePatch(t, base, draft) ==
    CASE disk[t].rev # base -> "conflict"
      [] disk[t].rev = base /\ draft \in RefusedDrafts -> "blocked"
      [] OTHER -> "ready"

PreviewReturns(r) ==
    /\ r \in preview /\ Room
    /\ preview' = {}
    /\ \E result \in {PreparePatch(r.target, r.base, r.draft), "failed"} :
         Send([kind |-> "previewed", generation |-> r.generation, target |-> r.target,
               result |-> result, after |-> Toggled(disk[r.target].content, r.draft)])
    /\ UNCHANGED <<disk, view, queries, inspection, applies>>

Reply(e, result) ==
    IF e.heard
    THEN Room /\ Send([kind |-> "applied", generation |-> e.generation, target |-> e.target,
                       result |-> result])
    ELSE UNCHANGED inbox

\* ConfigurationService::apply reserves the target, or answers Busy.
ApplyBusy(e) ==
    /\ e \in applies /\ e.stage = "queued"
    /\ Reply(e, "refused")
    /\ applies' = applies \ {e}
    /\ UNCHANGED <<disk, view, queries, inspection, preview>>

\* settings_lock::acquire, the first inspection and its preparation.
ApplyLocks(e) ==
    /\ e \in applies /\ e.stage = "queued"
    /\ \A o \in applies : o.target = e.target => o.stage = "queued"
    /\ UNCHANGED <<disk, view, queries, inspection, preview>>
    /\ IF PreparePatch(e.target, e.base, e.draft) = "ready"
       THEN /\ applies' = (applies \ {e}) \cup {[e EXCEPT !.stage = "locked"]}
            /\ UNCHANGED inbox
       ELSE /\ Reply(e, "refused")
            /\ applies' = applies \ {e}

\* The generator under the sidecar lock inspects and prepares once more.
ApplyRechecks(e) ==
    /\ e \in applies /\ e.stage = "locked"
    /\ UNCHANGED <<disk, view, queries, inspection, preview>>
    /\ IF PreparePatch(e.target, e.base, e.draft) = "ready"
       THEN /\ applies' = (applies \ {e}) \cup
                  {[e EXCEPT !.stage = "renaming",
                             !.new = Toggled(disk[e.target].content, e.draft)]}
            /\ UNCHANGED inbox
       ELSE /\ Reply(e, "refused")
            /\ applies' = applies \ {e}

\* The rename, which can also fail with the file as it was.
ApplyRenames(e) ==
    /\ e \in applies /\ e.stage = "renaming"
    /\ disk[e.target].rev < MaxRevision
    /\ disk' = [disk EXCEPT ![e.target] = [content |-> e.new, rev |-> @.rev + 1]]
    /\ Reply(e, "applied")
    /\ applies' = applies \ {e}
    /\ UNCHANGED <<view, queries, inspection, preview>>
ApplyFails(e) ==
    /\ e \in applies
    /\ Reply(e, "failed")
    /\ applies' = applies \ {e}
    /\ UNCHANGED <<disk, view, queries, inspection, preview>>

\* The connection to the executor breaks after dispatch: the caller hears
\* that the outcome is unknown and the executor carries on.
ApplyLost(e) ==
    /\ e \in applies /\ e.heard
    /\ Reply(e, "unknown")
    /\ applies' = (applies \ {e}) \cup {[e EXCEPT !.heard = FALSE]}
    /\ UNCHANGED <<disk, view, queries, inspection, preview>>

\* Any other program, or another Lasper operation, writes a settings file.
FileChanges(t) ==
    /\ disk[t].rev < MaxRevision
    /\ \E i \in Items :
          disk' = [disk EXCEPT ![t] = [content |-> Toggled(@.content, {i}), rev |-> @.rev + 1]]
    /\ UNCHANGED <<view, queries, inspection, preview, applies, inbox>>

-----------------------------------------------------------------------------
(* The event loop.                                                         *)

\* finish_query
FinishQuery(v, m) ==
    IF v.query # m.query \/ v.target # m.target THEN v
    ELSE [v EXCEPT !.state = IF m.result = "failed" THEN "failed" ELSE "ready",
                   !.snapshot = m.rev]

\* finish_preview
FinishPreview_AnyGeneration(v, m) ==
    IF m.target # v.target \/ v.draft = {} THEN v
    ELSE [v EXCEPT !.shown = m.result, !.after = IF m.result = "ready" THEN m.after ELSE {}]
FinishPreview(v, m) ==
    IF m.generation # v.generation \/ m.target # v.target \/ v.draft = {} THEN v
    ELSE [v EXCEPT !.shown = m.result, !.after = IF m.result = "ready" THEN m.after ELSE {}]

\* finish_apply, and the refresh the application adds for an image.
FinishApply(m) ==
    LET v == [view EXCEPT !.saving = FALSE]
        clean == [v EXCEPT !.draft = {}, !.shown = "clean", !.after = {}]
    IN CASE m.generation # view.generation \/ m.target # view.target \/ ~view.saving ->
              UNCHANGED <<view, queries, inspection, preview>>
         [] m.result = "applied" /\ view.target \in MachineTargets ->
              view' = [clean EXCEPT !.restart = TRUE] /\ UNCHANGED <<queries, inspection, preview>>
         [] m.result = "applied" /\ view.target \in ImageTargets -> Refresh(clean)
         [] OTHER -> /\ view' = [v EXCEPT !.stale = m.result = "unknown"]
                     /\ UNCHANGED <<queries, inspection, preview>>

DeliverEvent ==
    LET m == Head(inbox)
    IN  /\ inbox # <<>>
        /\ inbox' = Tail(inbox)
        /\ UNCHANGED <<disk, applies>>
        /\ CASE ~OpenView -> UNCHANGED <<view, queries, inspection, preview>>
             [] OpenView /\ m.kind = "inspected" ->
                  view' = FinishQuery(view, m) /\ UNCHANGED <<queries, inspection, preview>>
             [] OpenView /\ m.kind = "previewed" ->
                  view' = FinishPreview(view, m) /\ UNCHANGED <<queries, inspection, preview>>
             [] OpenView /\ m.kind = "applied" -> FinishApply(m)

ViewNext ==
    \/ \E t \in Configurable : OpenConfiguration(t) \/ FileChanges(t)
    \/ \E i \in Items : ToggleItem(i)
    \/ RequestClose \/ RequestViewRefresh
    \/ \E yes \in BOOLEAN : AnswerDiscard(yes) \/ AnswerRestart(yes)
    \/ Save
    \/ \E r \in inspection : InspectionReturns(r)
    \/ \E r \in preview : PreviewReturns(r)
    \/ \E e \in applies : ApplyBusy(e) \/ ApplyLocks(e) \/ ApplyRechecks(e)
                            \/ ApplyRenames(e) \/ ApplyFails(e) \/ ApplyLost(e)
    \/ DeliverEvent
ViewSpec == ViewInit /\ [][ViewNext]_configurationVars

-----------------------------------------------------------------------------
\* What an apply installs is the document the user saw when saving: the
\* preview of this very draft on the revision it was made for, whatever was
\* queued, aborted, closed, reopened or edited outside in between
\* (finish_preview, the Ctrl-S guard, prepare under the lock).  And a save
\* whose outcome was lost and that is tried again cannot take effect twice:
\* two executions are never both past the check of one revision.
SavedIsReviewed ==
    \A e \in applies : e.stage = "renaming" =>
        /\ e.new = e.reviewed
        /\ \A d \in applies : d.stage = "renaming" /\ d.target = e.target => d = e
=============================================================================
