-------------------------- MODULE DeploymentEngine ---------------------------
(***************************************************************************)
(* One deployment, as run by DirectProvisioningExecutor::run and            *)
(* run_deploy_internal: the stage pipeline, its crash manifest, the         *)
(* capture of uncommitted effects, unmounting, rollback and the final       *)
(* report.  Cancellation can be requested at any time, a step on the host   *)
(* can fail after part of it was done, a manifest write can fail with or    *)
(* without effect, and the process can crash between any two steps.         *)
(***************************************************************************)
EXTENDS Naturals, Sequences

CONSTANTS
    DeploymentPlans,  \* the deployment plans considered
    NoManifest        \* no manifest

VARIABLES
    plan,          \* the source kind and what the configuration asks for
    run,           \* local variables and position of run_deploy_internal
    report,        \* ApplyReport: the ledger and the removal blockers
    current,       \* DeploymentStateSession.current
    manifestFile,  \* the manifest file
    host,          \* who put each resource on the host
    cancel,        \* DeploymentCancellation: "no", or requested "early" or "late"
    engineOutcome  \* what the executor returned

engineVars == <<plan, run, report, current, manifestFile, host, cancel, engineOutcome>>

InRootfs == {"RootfsHostname", "RootfsAccounts", "RootfsNvidia", "RootfsNetwork"}
Mounts == {"StorageMount", "RawConfigurationMount"}
Removable == {"LocalStorage", "ExternalImage", "NvidiaState", "NspawnConfig",
              "SystemdOverride"}
DeployedResources == InRootfs \cup Mounts \cup Removable

\* "stale" is left by an earlier deployment and carries Lasper's marker;
\* "foreign" has an owner Lasper does not know.
Presence == {"absent", "ours", "stale", "foreign"}

\* kind "rootfs" stands for bootstrap and tar import, which fill storage that
\* Lasper created; the other kinds let systemd create the image.
Plan == [kind : {"rootfs", "raw", "clone", "oci"}, rawFallback : BOOLEAN,
         osLayout : BOOLEAN, offline : BOOLEAN, accounts : BOOLEAN,
         nvidia : BOOLEAN, override : BOOLEAN, network : BOOLEAN]

ASSUME PlansAreTyped == DeploymentPlans \subseteq Plan
ASSUME OfflineNeedsLayout == \A p \in DeploymentPlans : p.offline => p.osLayout

-----------------------------------------------------------------------------
(* The ledger: an insertion-ordered list with one entry per resource, as the *)
(* disposition of each resource ("None" without an entry) and the place at   *)
(* which its entry was pushed.                                               *)
Owned == {"Created", "Adopted", "Transferred", "Committed", "CleanupPending"}
Dispositions == Owned \cup {"None", "PreExisting", "OutcomeUnknown"}

\* ResourceLedger::record replaces an entry where it stands.
RecordIn(rep, r, d) ==
    [rep EXCEPT !.ledger = [@ EXCEPT ![r] = d],
                !.place = IF rep.ledger[r] = "None" THEN [@ EXCEPT ![r] = rep.pushed] ELSE @,
                !.pushed = IF rep.ledger[r] = "None" THEN @ + 1 ELSE @]

Without(ledger, rs) == [r \in DeployedResources |-> IF r \in rs THEN "None" ELSE ledger[r]]

\* ApplyReport::typed_owned_in_reverse: what a rollback removes, and the one of
\* a set that was pushed last.
OwnedIn(ledger) == {r \in Removable : ledger[r] \in Owned}
PushedLast(r, rs) == r \in rs /\ \A s \in rs : report.place[s] <= report.place[r]

\* Mutant: settings that were there before do not protect the image.
RecordApply_NeverBlocks(rep, r, status) ==
    RecordIn(rep, r, CASE status = "Created" -> "Created"
                     [] status = "ReplacedOwned" -> "Adopted"
                     [] OTHER -> "PreExisting")

\* ApplyReport::record_apply; the .nspawn file protects the image next to it,
\* which systemd would remove together with it.
RecordApply(rep, r, status) ==
    LET d == CASE status = "Created" -> "Created"
               [] status = "ReplacedOwned" -> "Adopted"
               [] OTHER -> "PreExisting"
    IN  [RecordIn(rep, r, d) EXCEPT
            !.extBlocked = @ \/ (r = "NspawnConfig" /\ status # "Created")]
Refused(r, status) ==
    r = "NspawnConfig" /\ status \in {"ReplacedOwned", "ConflictUnknownOwner"}

\* The statuses of a sidecar write, by what is found at its place.
Statuses(r) ==
    CASE host[r] = "absent" -> {"Created"}
      [] host[r] = "stale" -> IF r = "NspawnConfig"
                              THEN {"Unchanged", "ConflictUnknownOwner"}
                              ELSE {"Unchanged", "ReplacedOwned"}
      [] OTHER -> {"Unchanged", "ConflictUnknownOwner"}
WrittenBy(r, status) ==
    IF status \in {"Created", "ReplacedOwned"} THEN [host EXCEPT ![r] = "ours"]
    ELSE host

-----------------------------------------------------------------------------
(* The pipeline a plan gives rise to.                                        *)
External == plan.kind # "rootfs"
PostConfig == plan.kind \in {"rootfs", "raw"}

Runs(stage) ==
    CASE stage \in {"storage", "mount"} -> ~ External
      [] stage = "source" -> TRUE
      [] stage = "rawMount" -> PostConfig /\ plan.rawFallback
      [] stage = "hostname" -> PostConfig /\ plan.osLayout
      [] stage = "accounts" -> PostConfig /\ plan.offline /\ plan.accounts
      [] stage = "nvidia" -> PostConfig /\ plan.nvidia
      [] stage = "rootfsNvidia" -> PostConfig /\ plan.nvidia /\ plan.offline
      [] stage = "nspawn" -> PostConfig
      [] stage = "override" -> PostConfig /\ plan.override
      [] stage = "network" -> PostConfig /\ plan.offline /\ plan.network

Stages == <<"storage", "mount", "source", "rawMount", "hostname", "accounts",
            "nvidia", "rootfsNvidia", "nspawn", "override", "network">>
Stage == Stages[run.stage]

\* source_stage_resources of the deployers: every effect a source can have
\* before it returns.
SourceResources ==
    CASE plan.kind = "rootfs" -> {"LocalStorage"}
      [] plan.kind = "raw" -> {"ExternalImage"}
      [] plan.kind = "clone" -> {"ExternalImage", "NspawnConfig", "SystemdOverride"}
      [] plan.kind = "oci" -> {"ExternalImage", "NspawnConfig"}

Target == [storage |-> "LocalStorage", mount |-> "StorageMount",
           rawMount |-> "RawConfigurationMount", hostname |-> "RootfsHostname",
           accounts |-> "RootfsAccounts", nvidia |-> "NvidiaState",
           rootfsNvidia |-> "RootfsNvidia", nspawn |-> "NspawnConfig",
           override |-> "SystemdOverride", network |-> "RootfsNetwork"]
Intended == IF Stage = "source" THEN SourceResources ELSE {Target[Stage]}

Cancelled == cancel # "no"
\* An error of a host operation; a deadline (an I/O error of kind TimedOut) is
\* reported differently in the end.
HostError == {"failed", "timedOut"}
Goto(pc) == [run EXCEPT !.pc = pc]
Stopped(result) == [run EXCEPT !.pc = "stopped", !.result = result]

\* The next stage of the pipeline, or its end.
Later == {n \in run.stage + 1 .. Len(Stages) : Runs(Stages[n])}
NextStage ==
    \/ Later = {} /\ run' = Stopped("ok")
    \/ \E n \in Later : /\ \A m \in Later : n <= m
                         /\ run' = [Goto("applying") EXCEPT !.stage = n]

-----------------------------------------------------------------------------
(* Manifest writes.                                                          *)
ManifestOf(rev, state, intended) ==
    [rev |-> rev, state |-> state, intended |-> intended, ledger |-> report.ledger]
PreparedManifest == ManifestOf(1, "Prepared", {})

\* Mutant: the store does not compare revisions.
SessionIsDurable_AnyRevision == manifestFile # NoManifest

\* FilesystemDeploymentState::update and remove: the file is there and has the
\* revision the session expects.
SessionIsDurable == manifestFile # NoManifest /\ manifestFile.rev = current.rev

\* DeploymentStateSession::transition.  An error from write_atomic means that
\* the file was not replaced, or that it was and the directory sync failed.
Persist(ok, state, intended) ==
    LET next == ManifestOf(current.rev + 1, state, intended)
    IN  \/ ok /\ SessionIsDurable /\ manifestFile' = next /\ current' = next
        \/ ~ ok /\ UNCHANGED <<manifestFile, current>>
        \/ ~ ok /\ SessionIsDurable /\ manifestFile' = next /\ UNCHANGED current

-----------------------------------------------------------------------------
(* The forward path.                                                         *)

\* prepare() creates the manifest; without it the deployment does not start.
Prepare ==
    /\ run.pc = "new"
    /\ \/ /\ manifestFile' = PreparedManifest /\ current' = PreparedManifest
          /\ run' = Goto("preflight")
          /\ UNCHANGED engineOutcome
       \/ /\ manifestFile' \in {NoManifest, PreparedManifest}
          /\ run' = Goto("done")
          /\ engineOutcome' = "failed"
          /\ UNCHANGED current
    /\ UNCHANGED <<plan, report, host, cancel>>

\* Cancellation check, inspect_deployment_sidecars, cancellation check.
Preflight ==
    /\ run.pc = "preflight"
    /\ \/ ~ Cancelled /\ host["NspawnConfig"] = "absent"
            /\ NextStage
       \/ Cancelled /\ run' = Stopped("cancelled")
       \/ \E error \in HostError : run' = Stopped(error)
    /\ UNCHANGED <<plan, report, current, manifestFile, host, cancel, engineOutcome>>

\* A read that precedes a stage of post-configuration fails: rootfs probes,
\* Wayland identities, CDI discovery (which is followed by a check).
ProbeStops ==
    /\ run.pc = "applying"
    /\ Stage \notin {"storage", "mount", "source"}
    /\ \/ \E error \in HostError : run' = Stopped(error)
       \/ Cancelled /\ Stage = "nvidia" /\ run' = Stopped("cancelled")
    /\ UNCHANGED <<plan, report, current, manifestFile, host, cancel, engineOutcome>>

PersistApplying ==
    /\ run.pc = "applying"
    /\ \E ok \in BOOLEAN :
          /\ Persist(ok, "Applying", Intended)
          /\ run' = IF ok
                    THEN [Goto("effect") EXCEPT !.mountAttempted = @ \/ Stage = "mount"]
                    ELSE Stopped("failed")
    /\ UNCHANGED <<plan, report, host, cancel, engineOutcome>>

Applied(h, rep) == host' = h /\ report' = rep
EffectKeeps == UNCHANGED <<plan, current, manifestFile, cancel, engineOutcome>>

\* storage.create refuses an existing target.
CreateStorage ==
    /\ run.pc = "effect" /\ Stage = "storage"
    /\ host["LocalStorage"] = "absent"
    /\ Applied([host EXCEPT !["LocalStorage"] = "ours"],
               RecordIn(report, "LocalStorage", "Created"))
    /\ run' = Goto("committing")
    /\ EffectKeeps

MountStorage ==
    /\ run.pc = "effect" /\ Stage = "mount"
    /\ Applied([host EXCEPT !["StorageMount"] = "ours"],
               RecordIn(report, "StorageMount", "Created"))
    /\ run' = Goto("committing")
    /\ EffectKeeps

\* Bootstrap and tar import write below storage that is already recorded.
FillRootfs ==
    /\ run.pc = "effect" /\ Stage = "source" /\ plan.kind = "rootfs"
    /\ ~ Cancelled
    /\ run' = Goto("committing")
    /\ UNCHANGED <<host, report>>
    /\ EffectKeeps

\* import_raw, clone_image or the OCI pull: the image is recorded as soon as
\* the provider confirms it, then cancellation is checked.  machinectl clone
\* may copy the source's .nspawn file along.
ObtainImage ==
    /\ run.pc = "effect" /\ Stage = "source" /\ External
    /\ host["ExternalImage"] = "absent"
    /\ \E copied \in BOOLEAN :
          /\ copied => plan.kind = "clone" /\ host["NspawnConfig"] = "absent"
          /\ Applied([host EXCEPT !["ExternalImage"] = "ours",
                                  !["NspawnConfig"] = IF copied THEN "ours" ELSE @],
                     RecordIn(report, "ExternalImage", "Created"))
    /\ run' = IF Cancelled THEN Stopped("cancelled")
              ELSE Goto(IF plan.kind = "raw" THEN "committing" ELSE "finishSource")
    /\ EffectKeeps

\* verify_systemd_cloned_config rejects what the clone left: settings that are
\* not the source's protect the image, missing settings do not.
RejectClonedConfig ==
    /\ run.pc = "finishSource" /\ plan.kind = "clone"
    /\ report' = [report EXCEPT !.extBlocked = @ \/ host["NspawnConfig"] # "absent"]
    /\ run' = Stopped("failed")
    /\ UNCHANGED host
    /\ EffectKeeps

\* The rest of a clone: the optional service override, a check, the daemon
\* reload, a check.
FinishClone ==
    /\ run.pc = "finishSource" /\ plan.kind = "clone"
    /\ host["NspawnConfig"] # "foreign"
    /\ IF plan.override
       THEN \E status \in Statuses("SystemdOverride") :
                Applied(WrittenBy("SystemdOverride", status),
                        RecordApply(report, "SystemdOverride", status))
       ELSE UNCHANGED <<host, report>>
    /\ run' \in {Stopped("failed"),
                 IF Cancelled THEN Stopped("cancelled") ELSE Goto("committing")}
    /\ EffectKeeps

\* promote_oci and a check.
PromoteOci ==
    /\ run.pc = "finishSource" /\ plan.kind = "oci"
    /\ \E status \in Statuses("NspawnConfig") :
          /\ Applied(WrittenBy("NspawnConfig", status),
                     RecordApply(report, "NspawnConfig", status))
          /\ run' = CASE Refused("NspawnConfig", status) -> Stopped("failed")
                      [] Cancelled -> Stopped("cancelled")
                      [] OTHER -> Goto("committing")
    /\ EffectKeeps

\* mount_managed_raw mounts the image, or finds none to mount.
MountRaw ==
    /\ run.pc = "effect" /\ Stage = "rawMount"
    /\ \/ /\ Applied([host EXCEPT !["RawConfigurationMount"] = "ours"],
                     RecordIn(report, "RawConfigurationMount", "Created"))
          /\ run' = [Goto("committing") EXCEPT !.rawMounted = TRUE]
       \/ run' = Goto("committing") /\ UNCHANGED <<host, report>>
    /\ EffectKeeps

\* Host name, accounts (checked for cancellation between users), NVIDIA
\* environment and network services inside the root file system.
MutateRootfs ==
    /\ run.pc = "effect"
    /\ Stage \in {"hostname", "accounts", "rootfsNvidia", "network"}
    /\ Stage = "accounts" => ~ Cancelled
    /\ Applied([host EXCEPT ![Target[Stage]] = "ours"],
               RecordIn(report, Target[Stage], "Committed"))
    /\ run' = Goto("committing")
    /\ EffectKeeps

\* NVIDIA state, .nspawn file, service override.
WriteSidecar ==
    /\ run.pc = "effect" /\ Stage \in {"nvidia", "nspawn", "override"}
    /\ \E status \in Statuses(Target[Stage]) :
          /\ Applied(WrittenBy(Target[Stage], status),
                     RecordApply(report, Target[Stage], status))
          /\ run' = IF Refused(Target[Stage], status) THEN Stopped("failed")
                    ELSE Goto("committing")
    /\ EffectKeeps

\* How a stage can end without a result: an error, a noticed cancellation, or a
\* process whose exit could not be confirmed.
Failures ==
    HostError
    \cup (IF Cancelled /\ Stage \in {"source", "accounts"} THEN {"cancelled"} ELSE {})
    \cup (IF Stage = "source" /\ plan.kind # "clone" /\ run.pc = "effect"
          THEN {"unknown"} ELSE {})

\* What the failing step can have changed without recording it.
Touchable ==
    LET step == CASE run.pc = "finishSource" /\ plan.kind = "oci" -> {"NspawnConfig"}
                  [] run.pc = "finishSource" /\ plan.kind = "clone" ->
                        IF plan.override THEN {"SystemdOverride"} ELSE {}
                  [] Stage = "source" /\ plan.kind = "oci" -> {"ExternalImage"}
                  [] Stage = "source" /\ plan.kind = "clone" ->
                        {"ExternalImage", "NspawnConfig"}
                  [] OTHER -> Intended
    IN  {r \in step : host[r] \in {"absent", "stale"}}

StageFails ==
    /\ run.pc \in {"effect", "finishSource"}
    /\ \E touched \in SUBSET Touchable :
          host' = [r \in DeployedResources |-> IF r \in touched THEN "ours" ELSE host[r]]
    /\ \E result \in Failures : run' = Stopped(result)
    /\ UNCHANGED report
    /\ EffectKeeps

PersistCommitted ==
    /\ run.pc = "committing"
    /\ \E ok \in BOOLEAN :
          /\ Persist(ok, "Committed", {})
          /\ run' = IF ok THEN Goto("checkpoint") ELSE Stopped("failed")
    /\ UNCHANGED <<plan, report, host, cancel, engineOutcome>>

\* After a stage: the daemon reload of the override stage, the cancellation
\* check (not after the storage mount and the accounts), the next stage.
Checkpoint ==
    /\ run.pc = "checkpoint"
    /\ \/ Stage = "override" /\ \E error \in HostError : run' = Stopped(error)
       \/ Cancelled /\ Stage \notin {"mount", "accounts"} /\ run' = Stopped("cancelled")
       \/ /\ ~ Cancelled \/ Stage \in {"mount", "accounts"}
          /\ NextStage
    /\ UNCHANGED <<plan, report, current, manifestFile, host, cancel, engineOutcome>>

-----------------------------------------------------------------------------
(* After the pipeline.                                                       *)

\* capture_uncommitted_effects: what the session still announces and nobody
\* classified has an unknown outcome; an unknown raw mount protects storage.
Announced == IF current.state = "Applying" THEN current.intended ELSE {}
Unclassified == {r \in Announced : report.ledger[r] = "None"}
Captured ==
    [report EXCEPT
        !.ledger = [r \in DeployedResources |->
                        IF r \in Unclassified THEN "OutcomeUnknown" ELSE @[r]],
        !.storageBlocked = @ \/ "RawConfigurationMount" \in Unclassified]

Capture ==
    /\ run.pc = "stopped"
    /\ report' = IF run.result = "ok" THEN report ELSE Captured
    /\ run' = IF run.result = "unknown" THEN Goto("preserve")
              ELSE [Goto("unmountApplying") EXCEPT !.mount = "RawConfigurationMount"]
    /\ UNCHANGED <<plan, current, manifestFile, host, cancel, engineOutcome>>

\* A process may still be running: nothing is cleaned up.
Preserve ==
    /\ run.pc = "preserve"
    /\ \E ok \in BOOLEAN : Persist(ok, "CleanupPending", {})
    /\ run' = Goto("done")
    /\ engineOutcome' = "reconcile"
    /\ UNCHANGED <<plan, report, host, cancel>>

NeedsUnmount == IF run.mount = "RawConfigurationMount" THEN run.rawMounted
                ELSE run.mountAttempted
\* The raw mount is taken down first, then the storage mount.
AfterMount(r) == IF run.mount = "RawConfigurationMount"
                 THEN [r EXCEPT !.pc = "unmountApplying", !.mount = "StorageMount"]
                 ELSE [r EXCEPT !.pc = "decide"]

\* The mount stays: it is recorded as pending and blocks removal of storage.
MountKept == [RecordIn(report, run.mount, "CleanupPending") EXCEPT !.storageBlocked = TRUE]

SkipUnmount ==
    /\ run.pc = "unmountApplying"
    /\ \/ ~ NeedsUnmount /\ run' = AfterMount(run) /\ UNCHANGED report
       \/ /\ NeedsUnmount /\ run.durableFailed
          /\ run' = AfterMount([run EXCEPT !.errors = TRUE])
          /\ report' = MountKept
    /\ UNCHANGED <<plan, current, manifestFile, host, cancel, engineOutcome>>

PersistUnmounting ==
    /\ run.pc = "unmountApplying" /\ NeedsUnmount /\ ~ run.durableFailed
    /\ \E ok \in BOOLEAN :
          /\ Persist(ok, "Applying", {run.mount})
          /\ run' = IF ok THEN Goto("unmount")
                    ELSE AfterMount([run EXCEPT !.errors = TRUE, !.durableFailed = TRUE])
          /\ report' = IF ok THEN report ELSE MountKept
    /\ UNCHANGED <<plan, host, cancel, engineOutcome>>

Unmount ==
    /\ run.pc = "unmount"
    /\ \/ /\ host' = [host EXCEPT ![run.mount] = "absent"]
          /\ report' = [report EXCEPT !.ledger = Without(@, {run.mount})]
          /\ run' = Goto("unmountCommitting")
       \/ /\ host' \in {host, [host EXCEPT ![run.mount] = "absent"]}
          /\ report' = MountKept
          /\ run' = AfterMount([run EXCEPT !.errors = TRUE])
    /\ UNCHANGED <<plan, current, manifestFile, cancel, engineOutcome>>

PersistUnmounted ==
    /\ run.pc = "unmountCommitting"
    /\ \E ok \in BOOLEAN :
          /\ Persist(ok, "Committed", {})
          /\ run' = IF ok THEN AfterMount(run)
                    ELSE AfterMount([run EXCEPT !.errors = TRUE, !.durableFailed = TRUE])
          /\ report' = IF ok THEN report ELSE MountKept
    /\ UNCHANGED <<plan, host, cancel, engineOutcome>>

\* A cancellation or a failed unmount turns success into failure.
FinalResult ==
    CASE run.result = "ok" /\ Cancelled -> "cancelled"
      [] run.result = "ok" /\ run.errors -> "failed"
      [] OTHER -> run.result

\* A failure is rolled back unless the durable state cannot be written.
Decide ==
    /\ run.pc = "decide"
    /\ run' = IF FinalResult = "ok" THEN Goto("finishing")
              ELSE [Goto("rollback") EXCEPT
                      !.result = FinalResult,
                      !.rollingBack = TRUE,
                      !.errors = @ \/ run.durableFailed,
                      !.queue = IF run.durableFailed THEN {} ELSE OwnedIn(report.ledger)]
    /\ UNCHANGED <<plan, report, current, manifestFile, host, cancel, engineOutcome>>

-----------------------------------------------------------------------------
(* Rollback and the end.                                                     *)
Blocked(r) == \/ r = "ExternalImage" /\ (report.extBlocked \/ report.storageBlocked)
              \/ r = "LocalStorage" /\ report.storageBlocked

\* A failed manifest write ends the loop.
RollbackBreaks == [Goto("rollback") EXCEPT !.errors = TRUE, !.queue = {}]

PersistRollback ==
    /\ run.pc = "rollback"
    /\ \E victim \in run.queue, ok \in BOOLEAN :
          /\ PushedLast(victim, run.queue)
          /\ Persist(ok, "Applying", {victim})
          /\ run' = IF ok THEN [Goto("remove") EXCEPT !.victim = victim, !.queue = @ \ {victim}]
                    ELSE RollbackBreaks
          /\ report' = IF ok THEN report ELSE RecordIn(report, victim, "CleanupPending")
    /\ UNCHANGED <<plan, host, cancel, engineOutcome>>

\* What disappears with a resource: systemd removes an image with its .nspawn
\* file, whoever wrote it.
Within(r) == {r} \cup (IF r \in {"LocalStorage", "ExternalImage"} THEN InRootfs ELSE {})
                 \cup (IF r = "ExternalImage" THEN {"NspawnConfig"} ELSE {})
HostWithout(r) == [x \in DeployedResources |-> IF x \in Within(r) THEN "absent" ELSE host[x]]
Dependents(r) ==
    CASE r = "LocalStorage" -> InRootfs \cup Mounts
      [] r = "ExternalImage" -> InRootfs \cup Mounts \cup {"NspawnConfig"}
      [] OTHER -> {}

RollbackRemove ==
    /\ run.pc = "remove"
    /\ LET victim == run.victim
           now == [run EXCEPT !.reload = @ \/ victim = "SystemdOverride"]
       IN  \/ /\ ~ Blocked(victim)
              /\ host' = HostWithout(victim)
              /\ report' = [report EXCEPT
                              !.ledger = Without(@, {victim} \cup Dependents(victim))]
              /\ run' = [now EXCEPT !.pc = "removed"]
           \/ /\ host' \in {host} \cup (IF Blocked(victim) THEN {} ELSE {HostWithout(victim)})
              /\ report' = RecordIn(report, victim, "CleanupPending")
              /\ run' = [now EXCEPT !.pc = "rollback", !.errors = TRUE]
    /\ UNCHANGED <<plan, current, manifestFile, cancel, engineOutcome>>

PersistRemoved ==
    /\ run.pc = "removed"
    /\ \E ok \in BOOLEAN :
          /\ Persist(ok, "Committed", {})
          /\ run' = IF ok THEN Goto("rollback") ELSE RollbackBreaks
          /\ report' = IF ok THEN report ELSE RecordIn(report, run.victim, "CleanupPending")
    /\ UNCHANGED <<plan, host, cancel, engineOutcome>>

\* Mutant: unknown outcomes do not keep the manifest.
UnknownLeft_Ignored == FALSE

UnknownLeft == \E r \in DeployedResources : report.ledger[r] = "OutcomeUnknown"

\* The daemon is reloaded if an override was touched; an unknown outcome is an
\* error too.  Only a rollback without errors gives the manifest up.
RollbackEnds ==
    /\ run.pc = "rollback" /\ run.queue = {}
    /\ \E reloadFails \in BOOLEAN :
          /\ reloadFails => run.reload
          /\ run' = [Goto(IF run.errors \/ reloadFails \/ UnknownLeft
                          THEN "pending" ELSE "finishing")
                        EXCEPT !.rollingBack = FALSE]
    /\ UNCHANGED <<plan, report, current, manifestFile, host, cancel, engineOutcome>>

PersistPending ==
    /\ run.pc = "pending"
    /\ \E ok \in BOOLEAN : Persist(ok, "CleanupPending", {})
    /\ run' = Goto("done")
    /\ engineOutcome' = "reconcile"
    /\ UNCHANGED <<plan, report, host, cancel>>

\* map_deployment_error: an I/O deadline leaves the outcome to reconciliation.
Reported(result) ==
    CASE result = "ok" -> "succeeded"
      [] result = "timedOut" -> "reconcile"
      [] OTHER -> result

\* finish() removes the manifest; if that fails, with or without effect, the
\* deployment is left to reconciliation.
EngineFinish ==
    /\ run.pc = "finishing"
    /\ \/ SessionIsDurable /\ manifestFile' = NoManifest /\ engineOutcome' = Reported(run.result)
       \/ manifestFile' \in {manifestFile} \cup (IF SessionIsDurable THEN {NoManifest} ELSE {})
            /\ engineOutcome' = "reconcile"
    /\ run' = Goto("done")
    /\ UNCHANGED <<plan, report, current, host, cancel>>

-----------------------------------------------------------------------------
(* The environment.                                                          *)
Cancel ==
    /\ engineOutcome = "none" /\ cancel = "no"
    /\ cancel' = IF run.pc = "finishing" /\ run.result = "ok" THEN "late" ELSE "early"
    /\ UNCHANGED <<plan, run, report, current, manifestFile, host, engineOutcome>>

EngineCrash ==
    /\ engineOutcome = "none"
    /\ engineOutcome' = "crashed"
    /\ UNCHANGED <<plan, run, report, current, manifestFile, host, cancel>>

\* An administrator adds settings for the machine while it is being deployed.
AdminWritesConfig ==
    /\ engineOutcome = "none"
    /\ run.pc \in {"applying", "effect", "finishSource", "committing", "checkpoint"}
    /\ host["NspawnConfig"] = "absent"
    /\ host' = [host EXCEPT !["NspawnConfig"] = "foreign"]
    /\ UNCHANGED <<plan, run, report, current, manifestFile, cancel, engineOutcome>>

\* What may be on the host already, of the resources the plan is about.
Found(used, presences) == IF used THEN presences ELSE {"absent"}
EngineInit ==
    /\ plan \in DeploymentPlans
    /\ \E storage \in Found(~ External, {"absent", "foreign"}),
          image \in Found(External, {"absent", "foreign"}),
          config \in {"absent", "foreign"},
          nvidia \in Found(plan.nvidia, {"absent", "stale", "foreign"}),
          override \in Found(plan.override, {"absent", "stale", "foreign"}) :
          host = [[r \in DeployedResources |-> "absent"] EXCEPT
                    !["LocalStorage"] = storage, !["ExternalImage"] = image,
                    !["NspawnConfig"] = config, !["NvidiaState"] = nvidia,
                    !["SystemdOverride"] = override]
    /\ run = [pc |-> "new", stage |-> 0, mount |-> "StorageMount", queue |-> {},
              victim |-> "LocalStorage", result |-> "none", errors |-> FALSE, durableFailed |-> FALSE,
              mountAttempted |-> FALSE, rawMounted |-> FALSE, reload |-> FALSE,
              rollingBack |-> FALSE]
    /\ report = [ledger |-> [r \in DeployedResources |-> "None"],
                 place |-> [r \in DeployedResources |-> 0], pushed |-> 1,
                 extBlocked |-> FALSE, storageBlocked |-> FALSE]
    /\ current = NoManifest
    /\ manifestFile = NoManifest
    /\ cancel = "no"
    /\ engineOutcome = "none"

Forward ==
    \/ Prepare \/ Preflight \/ ProbeStops \/ PersistApplying
    \/ CreateStorage \/ MountStorage \/ FillRootfs \/ ObtainImage
    \/ RejectClonedConfig \/ FinishClone \/ PromoteOci \/ MountRaw
    \/ MutateRootfs \/ WriteSidecar \/ StageFails
    \/ PersistCommitted \/ Checkpoint
Backward ==
    \/ Capture \/ Preserve
    \/ SkipUnmount \/ PersistUnmounting \/ Unmount \/ PersistUnmounted
    \/ Decide
    \/ PersistRollback \/ RollbackRemove \/ PersistRemoved \/ RollbackEnds
    \/ PersistPending \/ EngineFinish

Engine == engineOutcome = "none" /\ (Forward \/ Backward)
EngineNext == Engine \/ Cancel \/ EngineCrash \/ AdminWritesConfig

EngineSpec == EngineInit /\ [][EngineNext]_engineVars

-----------------------------------------------------------------------------
(* What the engine promises.                                                 *)

Reports == [ledger : [DeployedResources -> Dispositions],
            place : [DeployedResources -> Nat], pushed : Nat,
            extBlocked : BOOLEAN, storageBlocked : BOOLEAN]
Positions ==
    [pc : {"new", "preflight", "applying", "effect", "finishSource", "committing",
           "checkpoint", "stopped", "preserve", "unmountApplying", "unmount",
           "unmountCommitting", "decide", "rollback", "remove", "removed", "pending",
           "finishing", "done"},
     stage : 0 .. Len(Stages), mount : Mounts, queue : SUBSET Removable, victim : Removable,
     result : {"none", "ok", "failed", "timedOut", "cancelled", "unknown"},
     errors : BOOLEAN, durableFailed : BOOLEAN, mountAttempted : BOOLEAN,
     rawMounted : BOOLEAN, reload : BOOLEAN, rollingBack : BOOLEAN]
CrashManifests ==
    [rev : Nat, state : {"Prepared", "Applying", "Committed", "CleanupPending"},
     intended : SUBSET DeployedResources, ledger : [DeployedResources -> Dispositions]]

\* Every variable has its type.
EngineTypeOK ==
    /\ plan \in DeploymentPlans
    /\ run \in Positions
    /\ report \in Reports
    /\ current \in CrashManifests \cup {NoManifest}
    /\ manifestFile \in CrashManifests \cup {NoManifest}
    /\ host \in [DeployedResources -> Presence]
    /\ \A r \in InRootfs \cup Mounts : host[r] \in {"absent", "ours"}
    /\ cancel \in {"no", "early", "late"}
    /\ engineOutcome \in {"none", "succeeded", "failed", "cancelled", "reconcile", "crashed"}

\* A deployment that reports failure or cancellation, whose claim is released,
\* has left nothing of its own on the host and no manifest that names
\* anything; one that reports success has left no manifest, and was not
\* cancelled before it decided to finish (check_deployment_cancellation, the
\* check after the unmounts).
ReleasedIsClean ==
    /\ engineOutcome \in {"failed", "cancelled"} =>
            /\ \A r \in DeployedResources : host[r] # "ours"
            /\ manifestFile = NoManifest \/ manifestFile = PreparedManifest
    /\ engineOutcome = "succeeded" => manifestFile = NoManifest /\ cancel # "early"

\* Cleaning up never destroys what it should not.  A file the ledger calls
\* pre-existing keeps its content: no stage, rollback or image removal (which
\* takes the .nspawn file along) changes it.  Storage is never deleted below a
\* mount that is still in place, whatever failed before
\* (block_storage_removal).  Once a process could not be confirmed dead,
\* nothing on the host is touched and the deployment is left to reconciliation.
CleanupIsSafe ==
    [][/\ \A r \in DeployedResources :
            report.ledger[r] = "PreExisting" => host'[r] = host[r]
       /\ \A r \in {"LocalStorage", "ExternalImage"} :
            host[r] = "ours" /\ host'[r] = "absent" => \A m \in Mounts : host[m] = "absent"
       /\ run.result = "unknown" =>
            UNCHANGED host /\ engineOutcome' \in {"none", "reconcile", "crashed"}]_engineVars

\* The engine keeps the write-ahead discipline.  Settings that machinectl
\* copied with a cloned image are found through the image, not by name.
Named(r) == r # "NspawnConfig" \/ plan.kind # "clone"
LedgerView(ledger) ==
    [r \in DeployedResources |->
        CASE ledger[r] = "None" -> "none"
          [] ledger[r] = "PreExisting" -> "notOurs"
          [] OTHER -> "tracked"]
ManifestView(m) ==
    IF m = NoManifest THEN NoManifest
    ELSE [rev |-> m.rev, intended |-> m.intended, ledger |-> LedgerView(m.ledger)]

WA == INSTANCE WriteAhead WITH
        Intents <- {{r} : r \in DeployedResources}
                     \cup {{"ExternalImage", "NspawnConfig"},
                           {"ExternalImage", "NspawnConfig", "SystemdOverride"}},
        onHost <- {r \in DeployedResources : host[r] = "ours" /\ Named(r)},
        ledger <- LedgerView(report.ledger),
        Absent <- NoManifest,
        Resources <- DeployedResources,
        session <- ManifestView(current),
        durable <- ManifestView(manifestFile),
        armed <- run.pc \in {"effect", "finishSource", "committing", "unmount",
                             "unmountCommitting", "remove", "removed"},
        succeeded <- run.result = "ok" /\ run.pc \in {"finishing", "done"}

\* No manifest is not a manifest, neither here nor in the mapping.
ASSUME NoManifestIsNone == NoManifest \notin CrashManifests \cup WA!Manifest

\* Every step of the engine is a step that the write-ahead specification
\* allows, so a crash at any point leaves a manifest naming what is there.
WriteAheadDiscipline == WA!Spec
==============================================================================
