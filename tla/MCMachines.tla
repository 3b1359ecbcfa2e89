----------------------------- MODULE MCMachines -----------------------------
(* The machines as the interface shows and edits them, for TLC: components   *)
(* that share no state with each other.  One of them moves, the others stay  *)
(* in one initial state:                                                     *)
(*   registry       the claim registry on its own, which takes every request *)
(*   lifecycle      the lifecycle, which only asks it for machines and images *)
(*   workspace      the panels that list them                                *)
(*   inspector      the detail panel and its reads                           *)
(*   document       an edit of a settings document's display bindings        *)
(*   configuration  the configuration view and the service it saves through  *)
(*   writer         the locked writers of a settings file and of an override *)
(* A machine key, an image key and the systemd manager; one image resolves   *)
(* to each of the first two.  The machine is absent where the watcher starts *)
(* and runs where there is none.                                             *)
EXTENDS MachineLifecycle, Workspace, Inspector, DisplayBinds, ConfigurationView,
        LockedWriter
CONSTANTS machine, hidden, systemd, imageOfMachine, hiddenImage, MovingParts
VARIABLE part

MCKeyOf == [i \in {imageOfMachine, hiddenImage} |->
                IF i = imageOfMachine THEN machine ELSE hidden]
MachineList == <<"a", "b">>
RegularList == <<"a">>
InternalList == <<".i">>

Body == {Section("Exec"), PrivateUsers("no"), PrivateUsers("managed"), NvidiaBegin,
         Continued(Bind("X0", "X0", TRUE)), Bind("X0", "X0", TRUE), Bind("dir", "X0", FALSE),
         Bind("W", "T", TRUE), Bind("disk", "T", FALSE), OtherLine}

\* Every document of a [Files] section and up to two more lines, and some
\* where [Files] is missing, misspelt, or closed below the NVIDIA block.
MCDocuments ==
    {<<Section("Files")>> \o t : t \in UNION {[1..n -> Body] : n \in 0..2}}
    \cup {<<>>, <<Section("Exec"), PrivateUsers("no")>>,
          <<Section("Exec"), PrivateUsers("no"), PrivateUsers("invalid"), Section("Files"), Bind("X1", "X1", FALSE)>>,
          <<Section("files"), Bind("X1", "X1", FALSE)>>,
          <<Section("Files"), Bind("X0", "X0", TRUE), NvidiaBegin, OtherLine, Section("Exec")>>}

MCInit ==
    /\ LifecycleInit /\ WorkspaceInit /\ InspectorInit
    /\ DisplayInit /\ ViewInit /\ LockInit
    /\ part \in MovingParts
    /\ IF part = "lifecycle"
       THEN host.machine[imageOfMachine] = "absent" <=> watcher = "starting"
       ELSE host.machine[imageOfMachine] = "absent" /\ watcher = "stopped"
    /\ part # "document" => document = <<>>
    /\ part # "writer" => kind = (CHOOSE k \in Kinds : TRUE) /\ file = Absent

MCNext ==
    /\ UNCHANGED part
    /\ \/ /\ part = "registry" /\ Next
          /\ UNCHANGED <<lifecycleVars, workspaceVars, inspectorVars, displayVars,
                         configurationVars, lockVars>>
       \/ /\ part = "lifecycle" /\ LifecycleNext
          /\ UNCHANGED <<workspaceVars, inspectorVars, displayVars, configurationVars, lockVars>>
       \/ /\ part = "workspace" /\ WorkspaceNext
          /\ UNCHANGED <<vars, lifecycleVars, inspectorVars, displayVars, configurationVars,
                         lockVars>>
       \/ /\ part = "inspector" /\ InspectorNext
          /\ UNCHANGED <<vars, lifecycleVars, workspaceVars, displayVars, configurationVars,
                         lockVars>>
       \/ /\ part = "document" /\ DisplayNext
          /\ UNCHANGED <<vars, lifecycleVars, workspaceVars, inspectorVars, configurationVars,
                         lockVars>>
       \/ /\ part = "configuration" /\ ViewNext
          /\ UNCHANGED <<vars, lifecycleVars, workspaceVars, inspectorVars, displayVars, lockVars>>
       \/ /\ part = "writer" /\ LockNext
          /\ UNCHANGED <<vars, lifecycleVars, workspaceVars, inspectorVars, displayVars,
                         configurationVars>>

MCSpec == MCInit /\ [][MCNext]_<<vars, lifecycleVars, workspaceVars, inspectorVars,
                                 displayVars, configurationVars, lockVars, part>>
=============================================================================
