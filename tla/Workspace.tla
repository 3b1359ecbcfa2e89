------------------------------ MODULE Workspace ------------------------------
(***************************************************************************)
(* The main screen: the machine and image catalogs and their selections,   *)
(* the focus and its history, the terminal tabs, and the target the        *)
(* inspector is pointed at.  Input, runtime snapshots, lifecycle           *)
(* projections and terminal launches all end in one handler each, and each *)
(* handler commits every panel before it returns.                          *)
(*                                                                         *)
(* A machine row is [name, running]; images are names, the internal ones   *)
(* (dot-prefixed) kept apart.  Tabs are the machine names of the open      *)
(* terminal sessions.  `frame` is what the last drawn frame showed on the  *)
(* right-hand side: pointer input between two frames is routed by it.      *)
(***************************************************************************)
EXTENDS Integers, Sequences, Functions

CONSTANTS
    Listable,   \* machine names, in catalog order
    Regular,    \* regular image names, in catalog order
    Internal,   \* internal image names, in catalog order
    MaxTabs     \* bound on the terminal tabs opened

ASSUME TabAssumption == MaxTabs \in Nat \ {0}

VARIABLES
    entries, selected,            \* machine rows and the selected index
    regular, regularSel,          \* the two image lists and their selections
    internal, internalSel,
    imageTab,                     \* which image list is shown
    focus, previous,              \* WorkspaceNavigation
    tabs, active, show, maximized,\* TerminalManager
    target,                       \* the inspector's target
    frame,                        \* areas of the latest frame
    titles                        \* whether its tab titles still answer clicks

workspaceVars == <<entries, selected, regular, regularSel, internal, internalSel,
                   imageTab, focus, previous, tabs, active, show, maximized,
                   target, frame, titles>>
catalogVars  == <<entries, selected, regular, regularSel, internal, internalSel, imageTab>>
terminalTabs == <<tabs, active, show, maximized>>

Inspectors == {"machineInspector", "imageInspector"}
Empty == <<"empty">>

-----------------------------------------------------------------------------
(* Catalogs.  Selections are indices; 1 also stands for "none" when the     *)
(* list is empty, as index 0 does in the code.                              *)

IndexOf(list, name) == IF \E i \in DOMAIN list : list[i] = name
                       THEN CHOOSE i \in DOMAIN list : list[i] = name
                       ELSE 0
Names(rows) == [i \in DOMAIN rows |-> rows[i].name]
Row(name) == entries[IndexOf(Names(entries), name)]
Present(name) == IndexOf(Names(entries), name) # 0

\* A replaced list keeps the selection on its name, or goes back to the top.
KeepSelection(old, sel, new) ==
    IF sel \in DOMAIN old /\ IndexOf(new, old[sel]) # 0
    THEN IndexOf(new, old[sel])
    ELSE 1

SelectMachine(name) ==
    selected' = IF Present(name) THEN IndexOf(Names(entries), name) ELSE selected

MachineTarget == IF selected \in DOMAIN entries
                 THEN <<"machine", entries[selected].name>>
                 ELSE Empty
ShownImages == IF imageTab = "internal" THEN internal ELSE regular
ShownImageSel == IF imageTab = "internal" THEN internalSel ELSE regularSel
ImageTarget == IF ShownImageSel \in DOMAIN ShownImages
               THEN <<imageTab, ShownImages[ShownImageSel]>>
               ELSE Empty
ContainsTarget(t) ==
    \/ t[1] = "machine"  /\ Present(t[2])
    \/ t[1] = "regular"  /\ IndexOf(regular, t[2]) # 0
    \/ t[1] = "internal" /\ IndexOf(internal, t[2]) # 0
IsImage(t) == t[1] \in {"regular", "internal"}

-----------------------------------------------------------------------------
(* Focus and the inspector target. *)

SetFocus(f) == /\ focus' = f
               /\ previous' = IF f = "terminal" THEN previous ELSE f

FocusRing(showing, max) ==
    CASE showing /\ max -> <<"machines", "images", "terminal">>
      [] showing /\ ~max -> <<"machines", "machineInspector", "images", "imageInspector", "terminal">>
      [] OTHER -> <<"machines", "machineInspector", "images", "imageInspector">>

\* An index the ring does not hold counts as the first slot.
NextFocus(from, step) ==
    LET ring == FocusRing(show, maximized)
        at == IF IndexOf(ring, from) = 0 THEN 1 ELSE IndexOf(ring, from)
    IN ring[((at - 1 + step + Len(ring)) % Len(ring)) + 1]

\* What the inspector should show for the focus, given the target it has.
Designated(kept) ==
    CASE focus = "machines" -> MachineTarget
      [] focus = "images" -> ImageTarget
      [] focus = "machineInspector" ->
            IF kept[1] = "machine" /\ ContainsTarget(kept) THEN kept ELSE MachineTarget
      [] focus = "imageInspector" ->
            IF IsImage(kept) /\ ContainsTarget(kept) THEN kept ELSE ImageTarget
      [] focus = "terminal" ->
            IF active \in DOMAIN tabs /\ Present(tabs[active])
            THEN <<"machine", tabs[active]>>
            ELSE MachineTarget

\* synchronize_inspector, on the state the handler leaves behind.
Synchronize == \E kept \in {target} : target' = Designated(kept)'

-----------------------------------------------------------------------------
(* Runtime updates. *)

\* Snapshots and projections list machines and images sorted by name.
SubLists(list) ==
    UNION {{[i \in 1 .. n |-> list[at[i]]] :
               at \in {f \in [1 .. n -> DOMAIN list] : \A i, j \in 1 .. n : i < j => f[i] < f[j]}} :
           n \in 0 .. Len(list)}
EntryLists == {[i \in DOMAIN list |-> [name |-> list[i], running |-> list[i] \in up]] :
                   list \in SubLists(Listable), up \in SUBSET Range(Listable)}

ReplaceEntries(rows) == /\ entries' = rows
                        /\ selected' = KeepSelection(Names(entries), selected, Names(rows))

ReplaceImages(visible, hidden) ==
    /\ regular' = visible
    /\ regularSel' = KeepSelection(regular, regularSel, visible)
    /\ internal' = hidden
    /\ internalSel' = KeepSelection(internal, internalSel, hidden)

ReplaceSnapshot_TargetFirst ==
    \E rows \in EntryLists, visible \in SubLists(Regular), hidden \in SubLists(Internal) :
        /\ ReplaceEntries(rows)
        /\ ReplaceImages(visible, hidden)
        /\ UNCHANGED <<imageTab, focus, previous, tabs, active, show, maximized, frame, titles>>
        /\ target' = Designated(target)

\* A snapshot replaces both catalogs before a target is chosen.
ReplaceSnapshot ==
    \E rows \in EntryLists, visible \in SubLists(Regular), hidden \in SubLists(Internal) :
        /\ ReplaceEntries(rows)
        /\ ReplaceImages(visible, hidden)
        /\ UNCHANGED <<imageTab, focus, previous, tabs, active, show, maximized, frame, titles>>
        /\ Synchronize

\* An operation was submitted, finished or expired: only the rows are rebuilt.
ProjectMachines ==
    \E rows \in EntryLists :
        /\ rows # entries
        /\ ReplaceEntries(rows)
        /\ UNCHANGED <<regular, regularSel, internal, internalSel, imageTab, focus,
                       previous, tabs, active, show, maximized, frame, titles>>
        /\ Synchronize

-----------------------------------------------------------------------------
(* Keyboard and pointer input on the lists and the inspector. *)

\* sync_to_entry: the first tab of the selected machine, or no panel.
SyncToEntry(name) ==
    IF IndexOf(tabs, name) # 0
    THEN active' = IndexOf(tabs, name) /\ UNCHANGED <<tabs, show, maximized>>
    ELSE show' = FALSE /\ maximized' = FALSE /\ UNCHANGED <<tabs, active>>

\* Keys reach the machine list when it has the focus; a click or the wheel
\* gives it the focus.
SelectInMachines ==
    \E i \in DOMAIN entries :
        /\ selected' = i
        /\ SetFocus("machines")
        /\ SyncToEntry(entries[i].name)
        /\ UNCHANGED <<entries, regular, regularSel, internal, internalSel, imageTab, frame, titles>>
        /\ Synchronize

SelectInImages ==
    /\ \E i \in DOMAIN ShownImages :
          IF imageTab = "internal" THEN internalSel' = i /\ UNCHANGED regularSel
                                   ELSE regularSel' = i /\ UNCHANGED internalSel
    /\ SetFocus("images")
    /\ UNCHANGED <<entries, selected, regular, internal, imageTab, terminalTabs, frame, titles>>
    /\ Synchronize

SwitchImageTab ==
    /\ imageTab' = IF imageTab = "regular" THEN "internal" ELSE "regular"
    /\ SetFocus("images")
    /\ UNCHANGED <<entries, selected, regular, regularSel, internal, internalSel,
                   terminalTabs, frame, titles>>
    /\ Synchronize

\* A click beside the rows, or a key the list ignores, still moves the focus.
FocusList ==
    \E list \in {"machines", "images"} :
        /\ SetFocus(list)
        /\ UNCHANGED <<catalogVars, terminalTabs, frame, titles>>
        /\ Synchronize

\* A key pressed while the focused terminal is hidden first gives the focus back.
EffectiveFocus == IF focus = "terminal" /\ ~show THEN previous ELSE focus

CyclePanel ==
    \E step \in {1, -1} :
        /\ SetFocus(NextFocus(EffectiveFocus, step))
        /\ UNCHANGED <<catalogVars, terminalTabs, frame, titles>>
        /\ Synchronize

\* Any other key the terminal consumes or the workspace ignores.
OtherKey ==
    /\ SetFocus(EffectiveFocus)
    /\ UNCHANGED <<catalogVars, terminalTabs, frame, titles>>
    /\ Synchronize

ToggleTerminal ==
    /\ show
    /\ maximized' = ~maximized
    /\ IF maximized' /\ focus \in Inspectors THEN SetFocus("terminal")
                                             ELSE UNCHANGED <<focus, previous>>
    /\ UNCHANGED <<catalogVars, tabs, active, show, frame, titles>>
    /\ Synchronize

\* Hit-testing uses the areas of the last frame.
ClickInspector ==
    /\ frame \in {"detail", "both"}
    /\ SetFocus(IF IsImage(target) \/ (target = Empty /\ focus \in {"images", "imageInspector"})
                THEN "imageInspector" ELSE "machineInspector")
    /\ UNCHANGED <<catalogVars, terminalTabs, frame, titles>>
    /\ Synchronize

ClickTerminal ==
    /\ frame \in {"both", "terminal"}
    /\ SetFocus("terminal")
    /\ UNCHANGED <<catalogVars, terminalTabs, frame, titles>>
    /\ Synchronize

-----------------------------------------------------------------------------
(* Terminal tabs. *)

\* Alt+n, [ and ] with the terminal focused, or a click on a tab title; the
\* hitboxes are cleared whenever the tab list changes.
SelectTab ==
    /\ \E i \in DOMAIN tabs :
          /\ active' = i
          /\ SelectMachine(tabs[i])
    /\ \/ focus = "terminal" /\ SetFocus(EffectiveFocus)
       \/ frame \in {"both", "terminal"} /\ titles /\ SetFocus("terminal")
    /\ UNCHANGED <<entries, regular, regularSel, internal, internalSel, imageTab,
                   tabs, show, maximized, frame, titles>>
    /\ Synchronize

RemoveTab(i) ==
    /\ tabs' = SubSeq(tabs, 1, i - 1) \o SubSeq(tabs, i + 1, Len(tabs))
    /\ active' = IF i > Len(tabs') /\ tabs' # <<>> THEN Len(tabs') ELSE i

\* x in normal mode: the next tab's machine becomes the selection; with the
\* last tab the panel closes and the focus goes back where it came from.
CloseTab ==
    /\ focus = "terminal" /\ tabs # <<>>
    /\ RemoveTab(active)
    /\ IF tabs' = <<>>
       THEN /\ show' = FALSE /\ maximized' = FALSE
            /\ SetFocus(previous)
            /\ UNCHANGED selected
       ELSE /\ UNCHANGED <<show, maximized>>
            /\ SetFocus(EffectiveFocus)
            /\ selected' = IF active' \in DOMAIN tabs' /\ Present(tabs'[active'])
                           THEN IndexOf(Names(entries), tabs'[active'])
                           ELSE selected
    /\ titles' = FALSE
    /\ UNCHANGED <<entries, regular, regularSel, internal, internalSel, imageTab, frame>>
    /\ Synchronize

\* The machine a launch from the current focus opens, chosen by the focused
\* image when there is one.
FocusedImage ==
    CASE focus = "images" -> ImageTarget
      [] focus \in Inspectors /\ IsImage(target) -> target
      [] OTHER -> Empty
TerminalTarget ==
    IF IsImage(FocusedImage)
    THEN IF FocusedImage[1] = "regular" /\ Present(FocusedImage[2]) /\ Row(FocusedImage[2]).running
         THEN {FocusedImage[2]} ELSE {}
    ELSE IF selected \in DOMAIN entries THEN {entries[selected].name} ELSE {}

PushTab(name) == /\ tabs' = Append(tabs, name)
                 /\ active' = Len(tabs')
                 /\ show' = TRUE
                 /\ titles' = FALSE
                 /\ UNCHANGED maximized

\* Leader and shortcut launches.  Attaching can fail after the selection moved.
SpawnTerminal ==
    /\ Len(tabs) < MaxTabs
    /\ \E name \in TerminalTarget :
          /\ IF IsImage(FocusedImage) THEN SelectMachine(name) ELSE UNCHANGED selected
          /\ \/ /\ Row(name).running
                /\ PushTab(name)
                /\ SetFocus("terminal")
                /\ UNCHANGED <<entries, regular, regularSel, internal, internalSel, imageTab, frame>>
                /\ Synchronize
             \/ UNCHANGED <<entries, regular, regularSel, internal, internalSel, imageTab,
                            focus, previous, terminalTabs, target, frame, titles>>

\* The configuration page opens a shell on its own machine, whatever is selected.
SpawnTerminalAsUser ==
    /\ Len(tabs) < MaxTabs
    /\ \E i \in DOMAIN entries :
          /\ entries[i].running
          /\ PushTab(entries[i].name)
          /\ SetFocus("terminal")
          /\ UNCHANGED <<catalogVars, frame>>
          /\ Synchronize

Draw ==
    /\ frame' = IF ~show THEN "detail" ELSE IF maximized THEN "terminal" ELSE "both"
    /\ titles' = show
    /\ UNCHANGED <<catalogVars, focus, previous, terminalTabs, target>>

-----------------------------------------------------------------------------
WorkspaceInit ==
    /\ entries = <<>> /\ selected = 1
    /\ regular = <<>> /\ regularSel = 1
    /\ internal = <<>> /\ internalSel = 1
    /\ imageTab = "regular"
    /\ focus = "machines" /\ previous = "machines"
    /\ tabs = <<>> /\ active = 1 /\ show = FALSE /\ maximized = FALSE
    /\ target = Empty
    /\ frame = "detail" /\ titles = FALSE

WorkspaceNext ==
    \/ ReplaceSnapshot \/ ProjectMachines
    \/ SelectInMachines \/ SelectInImages \/ SwitchImageTab
    \/ FocusList \/ CyclePanel \/ OtherKey \/ ToggleTerminal \/ ClickInspector \/ ClickTerminal
    \/ SelectTab \/ CloseTab \/ SpawnTerminal \/ SpawnTerminalAsUser
    \/ Draw

WorkspaceSpec == WorkspaceInit /\ [][WorkspaceNext]_workspaceVars

-----------------------------------------------------------------------------
(* The inspector always shows what the focus designates: never a removed   *)
(* resource, never the previous tab's machine, whatever order snapshots,   *)
(* projections, launches and input arrive in (core/manager.rs,             *)
(* synchronize_inspector and its callers).  And the active tab exists      *)
(* whenever there is a tab, a shown panel has a tab and only a shown panel *)
(* is maximized: active_machine_name indexes the session list without a    *)
(* check (manager.rs).                                                     *)
TargetFollowsFocus ==
    /\ target = Designated(target)
    /\ tabs # <<>> => active \in DOMAIN tabs
    /\ show => tabs # <<>>
    /\ maximized => show

=============================================================================
