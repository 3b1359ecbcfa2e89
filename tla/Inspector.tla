------------------------------ MODULE Inspector ------------------------------
(***************************************************************************)
(* The detail panel: revisioned background reads for the visible target    *)
(* and pane, the data they fill in, the dirty flags, and the one cached    *)
(* document the next frame paints.  The workspace points the panel at a    *)
(* target and asks for a refresh in the same handler; the event loop       *)
(* starts at most one read, and a read of another target is aborted.       *)
(*                                                                         *)
(* A value read is <<owner, version>>: what the system holds changes under *)
(* the reader.  Machine rows come from the catalog and are drawn without a *)
(* read.  The metrics pane, which neither reads nor caches, is left out.   *)
(***************************************************************************)
EXTENDS Integers, Sequences

CONSTANTS
    InspectedMachines,  \* machine targets
    InspectedImages     \* regular image targets

NoTarget == "empty"
DetailTargets == InspectedMachines \cup InspectedImages \cup {NoTarget}
MachinePanes == {"machineOverview", "details", "logs", "config"}
ImagePanes == {"imageOverview", "imageConfig", "details"}
TabsFor(t) == IF t \in InspectedImages THEN ImagePanes ELSE MachinePanes
IsImageTarget(t) == t \in InspectedImages

None == <<>>            \* no ticket, no read, or data not read yet
Reading == 2            \* a read that has not returned
ReadError == 1          \* a read that failed, or returned something new
RunningRow == 0         \* a row version: the machine is running

VARIABLES
    shown, pane,                \* the target and its active pane
    rows,                       \* catalog rows: machine -> version
    pending, inFlight,          \* DetailRefreshState: a ticket or None, and the slot
    task,                       \* the spawned read: [ticket, value, current], or None
    completions,                \* detail_refresh channel, capacity one
    properties, config, unit,   \* DetailState data
    dirty,                      \* which of overview, details, config is dirty
    cached,                     \* DocumentCache: [key, lines], or None
    journal                     \* each machine's log stream: idle (none, or ended), held
                                \* (delivering, or broken), failed (it never opened)

inspectorVars == <<shown, pane, rows, pending, inFlight,
                   task, completions, properties, config, unit, dirty, cached,
                   journal>>
panelVars == <<shown, pane>>
readData  == <<properties, config, unit>>

-----------------------------------------------------------------------------
(* set_target and request_refresh, as request_inspection calls them. *)

\* A ticket's revision is only ever compared with the one in flight, and
\* only cancelling makes them differ: `current` is that comparison.
RequestRefresh == pending' = [target |-> shown', pane |-> pane']

\* cancel: the task is aborted at its next await, unless its answer had just
\* gone into the channel.
CancelRead ==
    /\ inFlight' = FALSE
    /\ task' = None
    /\ LET stale(c) == [c EXCEPT !.current = FALSE]
       IN IF completions # <<>>
          THEN completions' = <<stale(Head(completions))>>
          ELSE completions' \in {<<>>} \cup (IF task # None /\ task.value # Reading
                                            THEN {<<stale(task)>>} ELSE {})

\* The pane stays for a target of the same kind; another kind brings back
\* the pane last used for it, which is left open here.
EnsurePane(t) == IF IsImageTarget(shown) <=> IsImageTarget(t)
                 THEN pane' = pane
                 ELSE pane' \in TabsFor(t)

ReplaceTarget(t) ==
    IF t = shown
    THEN UNCHANGED <<panelVars, readData, dirty, inFlight, task, completions>>
    ELSE /\ shown' = t
         /\ EnsurePane(t)
         /\ CancelRead
         /\ properties' = None /\ config' = None /\ unit' = None
         /\ dirty' = {"overview", "details", "config"}

\* Input, launches and snapshots all end in a target and a refresh request.
RequestInspection ==
    /\ \E t \in DetailTargets : ReplaceTarget(t)
    /\ RequestRefresh
    /\ UNCHANGED <<rows, cached, journal>>

SwitchPane ==
    /\ pane' \in TabsFor(shown)
    /\ UNCHANGED shown
    /\ RequestRefresh
    /\ UNCHANGED <<rows, inFlight, task, completions, readData, dirty,
                   cached, journal>>

ReplaceMachines_KeepsOverview ==
    /\ \E m \in InspectedMachines : rows' = [rows EXCEPT ![m] = 1 - @]
    /\ UNCHANGED panelVars
    /\ RequestRefresh
    /\ UNCHANGED <<inFlight, task, completions, readData, dirty,
                   cached, journal>>

\* A snapshot changed a visible row; the overview is drawn from the row itself.
ReplaceMachines ==
    /\ \E m \in InspectedMachines : rows' = [rows EXCEPT ![m] = 1 - @]
    /\ dirty' = dirty \cup {"overview"}
    /\ UNCHANGED panelVars
    /\ RequestRefresh
    /\ UNCHANGED <<inFlight, task, completions, readData, cached, journal>>

-----------------------------------------------------------------------------
(* Applying a completion. *)

\* What a pane needs: a background read, or an answer at once.  A log pane
\* opens a stream for a running machine unless one is held or one failed.
ReadKind(t, p) ==
    CASE t = NoTarget -> "empty"
      [] t \in InspectedMachines /\ p \in {"machineOverview", "details"} -> "properties"
      [] t \in InspectedMachines /\ p = "config" -> "config"
      [] t \in InspectedMachines /\ p = "logs" /\ rows[t] = RunningRow
             /\ journal[t] = "idle" -> "journal"
      [] IsImageTarget(t) /\ p = "imageConfig" -> "config"
      [] IsImageTarget(t) /\ p = "details" -> "unit"
      [] OTHER -> "noop"

\* A read is applied by the kind of result it carries, which the ticket's
\* target and pane decide.
ResultKind(tk) ==
    IF tk.pane = "logs" /\ tk.target \in InspectedMachines THEN "journal"
    ELSE ReadKind(tk.target, tk.pane)

ApplyResult(kind, owner, value) ==
    CASE kind = "noop" -> UNCHANGED <<readData, dirty, journal>>
      [] kind = "empty" ->
            /\ properties' = None /\ unit' = None /\ config' = None
            /\ dirty' = dirty \cup {"overview", "details"}
                        \cup (IF config # None THEN {"config"} ELSE {})
            /\ journal' = [m \in InspectedMachines |-> "idle"]
      [] kind = "properties" ->
            /\ properties' = <<owner, value>>
            /\ dirty' = dirty \cup {"overview", "details"}
            /\ UNCHANGED <<config, unit, journal>>
      [] kind = "unit" ->
            /\ properties' = <<owner, value>>
            /\ unit' = <<owner, value>>
            /\ dirty' = dirty \cup {"overview", "details"}
            /\ UNCHANGED <<config, journal>>
      [] kind = "config" ->
            /\ config' = <<owner, value>>
            /\ dirty' = IF config # config' THEN dirty \cup {"config"} ELSE dirty
            /\ UNCHANGED <<properties, unit, journal>>
      [] kind = "journal" ->
            /\ journal' = [journal EXCEPT ![owner] =
                              IF value = ReadError THEN "failed" ELSE "held"]
            /\ UNCHANGED <<readData, dirty>>

Visible(tk) == tk.target = shown /\ tk.pane = pane

\* apply_refresh: the matching revision releases the slot even when the pane
\* it read has been left meanwhile; any other revision is dropped.
ReceiveCompletion ==
    /\ completions # <<>>
    /\ completions' = Tail(completions)
    /\ LET c == Head(completions)
       IN IF c.current
          THEN /\ inFlight' = FALSE
               /\ IF Visible(c.ticket)
                  THEN ApplyResult(ResultKind(c.ticket), c.ticket.target, c.value)
                  ELSE UNCHANGED <<readData, dirty, journal>>
          ELSE UNCHANGED <<inFlight, readData, dirty, journal>>
    /\ UNCHANGED <<panelVars, rows, pending, task, cached>>

-----------------------------------------------------------------------------
(* Reading. *)

\* prepare_refresh closes a log stream once its machine is no longer running;
\* a failed opening left no stream to close.
PrepareJournal(t, p) ==
    journal' = IF t \in InspectedMachines /\ p = "logs"
               THEN [journal EXCEPT ![t] =
                        IF rows[t] # RunningRow /\ @ = "held" THEN "idle" ELSE @]
               ELSE journal

\* One read at a time; a ticket for something no longer visible, and a pane
\* that needs no read, complete at once.
StartRefresh ==
    /\ ~inFlight /\ pending # None
    /\ pending' = None
    /\ LET kind == IF Visible(pending) THEN ReadKind(pending.target, pending.pane) ELSE "noop"
       IN IF kind \notin {"empty", "noop"}
          THEN /\ inFlight' = TRUE
               /\ task' = [ticket |-> pending, value |-> Reading, current |-> TRUE]
               /\ PrepareJournal(pending.target, pending.pane)
               /\ UNCHANGED <<readData, dirty>>
          ELSE /\ UNCHANGED <<inFlight, task>>
               /\ IF kind = "empty"
                  THEN ApplyResult("empty", pending.target, 0)
                  ELSE /\ IF Visible(pending) THEN PrepareJournal(pending.target, pending.pane)
                                              ELSE UNCHANGED journal
                       /\ UNCHANGED <<readData, dirty>>
    /\ UNCHANGED <<panelVars, rows, completions, cached>>

\* The service answers with what the system holds at that moment, or fails.
ReadReturnsData ==
    /\ task # None /\ task.value = Reading
    /\ task' \in {[task EXCEPT !.value = v] : v \in {0, ReadError}}
    /\ UNCHANGED <<panelVars, rows, pending, inFlight, completions, readData, dirty,
                   cached, journal>>

SendCompletion ==
    /\ task # None /\ task.value # Reading
    /\ completions = <<>>
    /\ completions' = <<task>>
    /\ task' = None
    /\ UNCHANGED <<panelVars, rows, pending, inFlight, readData, dirty, cached,
                   journal>>

\* A stream that ends well may be opened again; one that breaks is held until
\* its machine is no longer running.
JournalEnds ==
    /\ \E m \in InspectedMachines : /\ journal[m] = "held"
                                    /\ journal' = [journal EXCEPT ![m] = "idle"]
    /\ UNCHANGED <<panelVars, rows, pending, inFlight, task, completions, readData,
                   dirty, cached>>

-----------------------------------------------------------------------------
(* Painting. *)

DirtyFlag(p) == CASE p \in {"machineOverview", "imageOverview"} -> "overview"
                  [] p = "details" -> "details"
                  [] p \in {"config", "imageConfig"} -> "config"
                  [] OTHER -> "uncached"

\* The inputs of each pane's document.
Lines == CASE pane = "machineOverview" ->
                    <<IF shown \in InspectedMachines THEN rows[shown] ELSE None, properties>>
           [] pane = "details" -> <<properties, unit>>
           [] pane \in {"config", "imageConfig"} -> <<config>>
           [] OTHER -> <<>>

Reusable == /\ cached # None
            /\ cached.key = <<shown, pane>>
            /\ DirtyFlag(pane) \notin dirty

DrawInspector ==
    /\ IF DirtyFlag(pane) = "uncached"
       THEN cached' = None
       ELSE cached' = IF Reusable THEN cached ELSE [key |-> <<shown, pane>>, lines |-> Lines]
    /\ dirty' = dirty \ {DirtyFlag(pane)}
    /\ UNCHANGED <<panelVars, rows, pending, inFlight, task, completions, readData,
                   journal>>

-----------------------------------------------------------------------------
InspectorInit ==
    /\ shown = NoTarget /\ pane = "machineOverview"
    /\ rows = [m \in InspectedMachines |-> RunningRow]
    /\ pending = None /\ inFlight = FALSE /\ task = None /\ completions = <<>>
    /\ properties = None /\ config = None /\ unit = None
    /\ dirty = {"overview", "details", "config"}
    /\ cached = None
    /\ journal = [m \in InspectedMachines |-> "idle"]

InspectorNext ==
    \/ RequestInspection \/ SwitchPane \/ ReplaceMachines
    \/ StartRefresh \/ ReadReturnsData \/ SendCompletion \/ ReceiveCompletion
    \/ JournalEnds \/ DrawInspector

InspectorSpec == InspectorInit /\ [][InspectorNext]_inspectorVars

-----------------------------------------------------------------------------
(* A cached document the next frame would paint again is what rebuilding   *)
(* it would give: every change of a row, of the read data, of the target   *)
(* or of the pane invalidates it (scrolling.rs, sync_viewport; state.rs).  *)
(* And the data the panel holds was read for the target it shows, even     *)
(* when the previous target's read answers after the switch                *)
(* (replace_target and apply_refresh).                                     *)
DocumentIsCurrent ==
    /\ Reusable /\ DirtyFlag(pane) # "uncached" => cached.lines = Lines
    /\ \A value \in {properties, config, unit} : value # None => value[1] = shown

=============================================================================
