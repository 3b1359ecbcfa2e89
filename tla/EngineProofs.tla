---------------------------- MODULE EngineProofs -----------------------------
(* Proofs about DeploymentEngine for any plans, any files found on the host, *)
(* and any stages, writes, unmounts and removals that fail: one inductive    *)
(* invariant, and from it that a released deployment leaves nothing and that *)
(* cleaning up is safe.                                                      *)
EXTENDS DeploymentEngine, TLAPS

\* Where a deployment is: in a stage, in the two unmounts, in the rollback.
ForwardPcs == {"applying", "effect", "finishSource", "committing", "checkpoint"}
UnmountPcs == {"unmountApplying", "unmount", "unmountCommitting"}
RollbackPcs == {"rollback", "remove", "removed"}
\* Both unmounts are over.
AfterPcs == RollbackPcs \cup {"decide", "pending", "finishing"}

\* Where the machine's root file system lives.
Base == IF External THEN "ExternalImage" ELSE "LocalStorage"
Tracks(r) == report.ledger[r] \in Owned \cup {"OutcomeUnknown"}

\* The stage that records a resource.
StageOf(r) ==
    CASE r = "LocalStorage" -> 1
      [] r = "StorageMount" -> 2
      [] r = "ExternalImage" -> 3
      [] r = "RawConfigurationMount" -> 4
      [] r = "RootfsHostname" -> 5
      [] r = "RootfsAccounts" -> 6
      [] r = "NvidiaState" -> 7
      [] r = "RootfsNvidia" -> 8
      [] r = "NspawnConfig" -> IF PostConfig THEN 9 ELSE 3
      [] r = "SystemdOverride" -> IF PostConfig THEN 10 ELSE 3
      [] r = "RootfsNetwork" -> 11

\* Control: what the position says about the session and the result.
Placed ==
    /\ run.pc \in ForwardPcs => run.stage # 0 /\ Runs(Stage) /\ run.result = "none"
    /\ run.pc \in {"new", "preflight"} => run.stage = 0 /\ run.result = "none"
    /\ run.pc = "finishSource" => Stage = "source" /\ plan.kind \in {"clone", "oci"}
    /\ run.pc \in {"effect", "finishSource"} =>
            current.state = "Applying" /\ current.intended = Intended
    /\ run.pc = "new" => current = NoManifest /\ manifestFile = NoManifest
    /\ run.pc \notin {"new", "done"} => current # NoManifest
    /\ run.pc = "preserve" => run.result = "unknown"
    /\ run.result = "unknown" => run.pc \in {"stopped", "preserve", "done"}
    /\ run.pc = "done" => engineOutcome # "none"
    /\ run.pc \notin ForwardPcs \cup {"new", "preflight", "done"} => run.result # "none"
    /\ run.pc \in RollbackPcs \cup {"pending"} => run.result # "ok"
    /\ run.pc = "finishing" /\ run.result = "ok" => cancel # "early"

\* The ledger holds only what the stages up to here have recorded.
Fresh ==
    /\ run.pc \in {"new", "preflight"} =>
            \A r \in DeployedResources : report.ledger[r] = "None" /\ host[r] # "ours"
    /\ run.pc \in ForwardPcs =>
            \A r \in DeployedResources :
                report.ledger[r] # "None" =>
                    \/ StageOf(r) < run.stage
                    \/ StageOf(r) = run.stage /\ run.pc \in {"committing", "checkpoint"}
                    \/ run.stage = 3 /\ run.pc = "finishSource" /\ r = "ExternalImage"

\* What is inside the root file system, or mounted over it, goes with it.
Housed ==
    /\ run.pc \in ForwardPcs =>
            \/ run.stage < StageOf(Base)
            \/ run.stage = StageOf(Base) /\ run.pc \in {"applying", "effect"}
            \/ host[Base] = "ours"
    /\ \A r \in InRootfs \cup Mounts : host[r] = "ours" => host[Base] = "ours"

\* Whatever is on the host is recorded, or announced by a stage that failed, or
\* came along with a cloned image.
Accounted ==
    \A r \in DeployedResources : host[r] = "ours" =>
        \/ Tracks(r)
        \/ run.pc = "stopped" /\ run.result # "ok" /\ r \in Announced
        \/ plan.kind = "clone" /\ r = "NspawnConfig" /\ host["ExternalImage"] = "ours"

\* A mount is taken down, or it protects the storage below.
MountsGuarded ==
    /\ run.pc = "effect" /\ Stage = "mount" => run.mountAttempted
    /\ run.pc = "unmountCommitting" => host[run.mount] = "absent"
    /\ host["StorageMount"] = "ours" =>
            /\ run.mountAttempted
            /\ run.pc \in AfterPcs => report.storageBlocked
    /\ host["RawConfigurationMount"] = "ours" =>
            \/ report.storageBlocked
            \/ /\ run.rawMounted
               /\ run.pc \notin AfterPcs
               /\ run.pc \in UnmountPcs => run.mount = "RawConfigurationMount"
            \/ /\ run.pc = "stopped" /\ run.result # "ok"
               /\ "RawConfigurationMount" \in Unclassified

\* What the ledger calls pre-existing is there and no rollback removes it.
Spared ==
    /\ \A r \in DeployedResources : report.ledger[r] = "PreExisting" =>
            /\ host[r] \notin {"absent", "ours"}
            /\ r \in {"NvidiaState", "NspawnConfig", "SystemdOverride"}
            /\ r = "NspawnConfig" => report.extBlocked
    /\ run.pc \in RollbackPcs => \A r \in run.queue : report.ledger[r] # "PreExisting"
    /\ run.pc \in {"remove", "removed"} => report.ledger[run.victim] # "PreExisting"

\* A rollback without errors so far has everything that is left in its queue.
RolledBack ==
    /\ run.pc \in RollbackPcs /\ ~ run.errors =>
            OwnedIn(report.ledger) \subseteq
                run.queue \cup (IF run.pc = "remove" THEN {run.victim} ELSE {})
    /\ run.pc = "finishing" /\ run.result # "ok" =>
            \A r \in DeployedResources : host[r] # "ours"

EngineInv ==
    /\ EngineTypeOK /\ Placed /\ Fresh /\ Housed /\ Accounted /\ MountsGuarded
    /\ Spared /\ RolledBack /\ ReleasedIsClean

-----------------------------------------------------------------------------
Pcs == {"new", "preflight", "applying", "effect", "finishSource", "committing",
        "checkpoint", "stopped", "preserve", "unmountApplying", "unmount",
        "unmountCommitting", "decide", "rollback", "remove", "removed", "pending",
        "finishing", "done"}
Results == {"none", "ok", "failed", "timedOut", "cancelled", "unknown"}

\* A position that differs from r in its pc at most.
SamePlace(q, r) ==
    /\ q \in Positions
    /\ q.stage = r.stage /\ q.mount = r.mount /\ q.queue = r.queue /\ q.victim = r.victim
    /\ q.errors = r.errors /\ q.durableFailed = r.durableFailed
    /\ q.mountAttempted = r.mountAttempted /\ q.rawMounted = r.rawMounted

LEMMA GotoType ==
    ASSUME run \in Positions, NEW p \in Pcs
    PROVE  /\ SamePlace(Goto(p), run)
           /\ Goto(p).pc = p /\ Goto(p).result = run.result
BY DEF Positions, Pcs, Goto, SamePlace

LEMMA StoppedType ==
    ASSUME run \in Positions, NEW result \in Results
    PROVE  /\ SamePlace(Stopped(result), run)
           /\ Stopped(result).pc = "stopped" /\ Stopped(result).result = result
BY Zenon DEF Positions, Results, Stopped, SamePlace

\* Recording a resource changes its entry alone.
LEMMA RecordType ==
    ASSUME NEW rep \in Reports, NEW r \in DeployedResources, NEW d \in Dispositions
    PROVE  /\ RecordIn(rep, r, d) \in Reports
           /\ RecordIn(rep, r, d).ledger = [rep.ledger EXCEPT ![r] = d]
           /\ RecordIn(rep, r, d).extBlocked = rep.extBlocked
           /\ RecordIn(rep, r, d).storageBlocked = rep.storageBlocked
<1>1. PICK l \in [DeployedResources -> Dispositions] : l = [rep.ledger EXCEPT ![r] = d]
  BY Zenon DEF Reports
<1>2. PICK p \in [DeployedResources -> Nat] :
          p = IF rep.ledger[r] = "None" THEN [rep.place EXCEPT ![r] = rep.pushed] ELSE rep.place
  BY Zenon DEF Reports
<1>3. PICK n \in Nat : n = IF rep.ledger[r] = "None" THEN rep.pushed + 1 ELSE rep.pushed
  BY DEF Reports
<1>4. RecordIn(rep, r, d) = [rep EXCEPT !.ledger = l, !.place = p, !.pushed = n]
  BY <1>1, <1>2, <1>3 DEF RecordIn, Reports
<1> QED
  BY <1>1, <1>4, Zenon DEF Reports

\* The number of a stage.
LEMMA StageNumber ==
    ASSUME run \in Positions, run.stage # 0
    PROVE  /\ Stage = "storage" <=> run.stage = 1
           /\ Stage = "mount" <=> run.stage = 2
           /\ Stage = "source" <=> run.stage = 3
           /\ Stage = "rawMount" <=> run.stage = 4
           /\ Stage = "hostname" <=> run.stage = 5
           /\ Stage = "accounts" <=> run.stage = 6
           /\ Stage = "nvidia" <=> run.stage = 7
           /\ Stage = "rootfsNvidia" <=> run.stage = 8
           /\ Stage = "nspawn" <=> run.stage = 9
           /\ Stage = "override" <=> run.stage = 10
           /\ Stage = "network" <=> run.stage = 11
           /\ run.stage \in 1 .. 11
<1>1. run.stage \in 1 .. 11
  BY DEF Positions, Stages
<1>2. \/ run.stage = 1 /\ Stage = "storage"
      \/ run.stage = 2 /\ Stage = "mount"
      \/ run.stage = 3 /\ Stage = "source"
      \/ run.stage = 4 /\ Stage = "rawMount"
      \/ run.stage = 5 /\ Stage = "hostname"
      \/ run.stage = 6 /\ Stage = "accounts"
      \/ run.stage = 7 /\ Stage = "nvidia"
      \/ run.stage = 8 /\ Stage = "rootfsNvidia"
      \/ run.stage = 9 /\ Stage = "nspawn"
      \/ run.stage = 10 /\ Stage = "override"
      \/ run.stage = 11 /\ Stage = "network"
  BY <1>1 DEF Stage, Stages
<1> QED
  BY <1>1, <1>2

\* A stage records its own resource; the source stage, those of the source.
LEMMA TargetValues ==
    /\ Target["storage"] = "LocalStorage" /\ Target["mount"] = "StorageMount"
    /\ Target["rawMount"] = "RawConfigurationMount" /\ Target["hostname"] = "RootfsHostname"
    /\ Target["accounts"] = "RootfsAccounts" /\ Target["nvidia"] = "NvidiaState"
    /\ Target["rootfsNvidia"] = "RootfsNvidia" /\ Target["nspawn"] = "NspawnConfig"
    /\ Target["override"] = "SystemdOverride" /\ Target["network"] = "RootfsNetwork"
BY DEF Target

LEMMA TargetOfStage ==
    ASSUME run \in Positions, run.stage # 0, Runs(Stage), Stage # "source"
    PROVE  /\ Target[Stage] \in DeployedResources
           /\ StageOf(Target[Stage]) = run.stage
           /\ Target[Stage] # "ExternalImage"
           /\ Intended = {Target[Stage]}
<1>1. run.stage \in 1 .. 11 /\ run.stage # 3
  BY StageNumber
<1>2. Intended = {Target[Stage]}
  BY DEF Intended
<1>3. CASE run.stage \in {1, 2, 4, 5, 6}
  BY <1>2, <1>3, StageNumber, TargetValues
     DEF StageOf, DeployedResources, InRootfs, Mounts, Removable
<1>4. CASE run.stage \in {7, 8, 11}
  BY <1>2, <1>4, StageNumber, TargetValues
     DEF StageOf, DeployedResources, InRootfs, Mounts, Removable
<1>5. CASE run.stage \in {9, 10}
  <2>1. Stage \in {"nspawn", "override"} /\ PostConfig
    BY <1>5, StageNumber, Zenon DEF Runs
  <2> QED
    BY <1>2, <1>5, <2>1, StageNumber, TargetValues
       DEF StageOf, DeployedResources, InRootfs, Mounts, Removable
<1> QED
  BY <1>1, <1>3, <1>4, <1>5

LEMMA SourceTyped ==
    ASSUME plan \in DeploymentPlans
    PROVE  /\ SourceResources \subseteq DeployedResources
           /\ plan.kind \in {"rootfs", "raw", "clone", "oci"}
BY PlansAreTyped DEF Plan, SourceResources, DeployedResources, Removable

LEMMA IntendedTyped ==
    ASSUME EngineTypeOK, run.stage # 0, Runs(Stage)
    PROVE  Intended \subseteq DeployedResources
BY SourceTyped, TargetOfStage DEF EngineTypeOK, Intended

States == {"Prepared", "Applying", "Committed", "CleanupPending"}

\* A manifest write moves the session when it succeeds.
LEMMA PersistType ==
    ASSUME EngineTypeOK, current # NoManifest, NEW ok \in BOOLEAN, NEW state \in States,
           NEW intended \in SUBSET DeployedResources, Persist(ok, state, intended)
    PROVE  /\ current' \in CrashManifests /\ current' # NoManifest
           /\ manifestFile' \in CrashManifests \cup {NoManifest}
           /\ ok => current'.state = state /\ current'.intended = intended
           /\ ~ ok => current' = current
<1> DEFINE next == ManifestOf(current.rev + 1, state, intended)
<1>1. /\ next \in CrashManifests /\ next.state = state /\ next.intended = intended
  BY DEF EngineTypeOK, ManifestOf, CrashManifests, States, Reports
<1>2. next # NoManifest
  BY <1>1, NoManifestIsNone
<1>3. \/ ok /\ manifestFile' = next /\ current' = next
      \/ ~ ok /\ manifestFile' \in {manifestFile, next} /\ current' = current
  BY DEF Persist
<1> HIDE DEF next
<1> QED
  BY <1>1, <1>2, <1>3 DEF EngineTypeOK

LEMMA SameStage ==
    ASSUME run'.stage = run.stage, plan' = plan
    PROVE  /\ Stage' = Stage /\ Runs(Stage)' = Runs(Stage) /\ Intended' = Intended
BY DEF Stage, Runs, Intended, SourceResources, External, PostConfig

LEMMA SamePlan ==
    ASSUME plan' = plan
    PROVE  Base' = Base /\ \A r : StageOf(r)' = StageOf(r)
BY DEF Base, StageOf, External, PostConfig

\* A stage, or the check before the first one, ends the pipeline and leaves
\* the host and the ledger alone.
LEMMA StoppingKeeps ==
    ASSUME EngineInv, engineOutcome = "none", run.pc \in ForwardPcs \cup {"preflight"},
           NEW result \in Results \ {"none"}, run' = Stopped(result),
           UNCHANGED <<plan, host, current, cancel, engineOutcome>>,
           report' \in Reports, report'.ledger = report.ledger,
           report'.storageBlocked = report.storageBlocked,
           report.extBlocked => report'.extBlocked,
           manifestFile' \in CrashManifests \cup {NoManifest}
    PROVE  EngineInv'
<1>1. /\ SamePlace(run', run) /\ run' \in Positions /\ run'.pc = "stopped" /\ run'.result = result
  BY StoppedType DEF EngineInv, EngineTypeOK, SamePlace
<1>2. EngineTypeOK'
  BY <1>1 DEF EngineInv, EngineTypeOK
<1>3. Placed'
  BY <1>1 DEF EngineInv, Placed, ForwardPcs, RollbackPcs
<1>4. Fresh' /\ RolledBack'
  BY <1>1 DEF Fresh, RolledBack, ForwardPcs, RollbackPcs
<1>5. Housed'
  BY <1>1, SamePlan DEF EngineInv, Housed, ForwardPcs
<1>6. Accounted'
  BY <1>1 DEF EngineInv, Accounted, Tracks, ForwardPcs
<1>7. MountsGuarded'
  BY <1>1 DEF EngineInv, MountsGuarded, SamePlace, ForwardPcs, UnmountPcs, AfterPcs, RollbackPcs
<1>8. Spared'
  BY <1>1 DEF EngineInv, Spared, RollbackPcs
<1>9. ReleasedIsClean'
  BY DEF ReleasedIsClean
<1> QED
  BY <1>2, <1>3, <1>4, <1>5, <1>6, <1>7, <1>8, <1>9 DEF EngineInv

\* A step of the pipeline that changes neither the host nor the ledger.
LEMMA AdvanceKeeps ==
    ASSUME EngineInv, engineOutcome = "none", run.pc \in ForwardPcs \cup {"preflight"},
           run' \in Positions, run'.pc \in {"applying", "effect", "committing", "checkpoint"},
           run'.result = "none", run'.rawMounted = run.rawMounted,
           run.mountAttempted => run'.mountAttempted,
           run'.pc = "effect" /\ Stage' = "mount" => run'.mountAttempted,
           run'.stage # 0, Runs(Stage)',
           run'.pc = "effect" => current'.state = "Applying" /\ current'.intended = Intended',
           \/ run.pc = "preflight"
           \/ run.pc = "checkpoint" /\ run'.stage > run.stage
           \/ /\ run'.stage = run.stage
              /\ <<run.pc, run'.pc>> \in {<<"applying", "effect">>, <<"effect", "committing">>,
                                          <<"finishSource", "committing">>,
                                          <<"committing", "checkpoint">>},
           \/ run'.stage = StageOf(Base) /\ run'.pc \in {"applying", "effect"}
           \/ host[Base] = "ours",
           current' \in CrashManifests, current' # NoManifest,
           UNCHANGED <<plan, report, host, cancel, engineOutcome>>,
           manifestFile' \in CrashManifests \cup {NoManifest}
    PROVE  EngineInv'
<1>1. EngineTypeOK'
  BY DEF EngineInv, EngineTypeOK
<1>2. Placed'
  BY DEF Placed, ForwardPcs, RollbackPcs
<1>3. Fresh'
  <2> SUFFICES ASSUME NEW r \in DeployedResources, report.ledger[r] # "None"
               PROVE  \/ StageOf(r) < run'.stage
                      \/ StageOf(r) = run'.stage /\ run'.pc \in {"committing", "checkpoint"}
    BY SamePlan DEF Fresh
  <2>1. run.pc # "preflight" /\ StageOf("ExternalImage") = 3
    BY DEF EngineInv, Fresh, StageOf
  <2>2. \/ StageOf(r) < run.stage
        \/ StageOf(r) = run.stage /\ run.pc \in {"committing", "checkpoint"}
        \/ run.stage = 3 /\ run.pc = "finishSource" /\ r = "ExternalImage"
    BY <2>1 DEF EngineInv, Fresh
  <2>3. StageOf(r) \in Nat /\ run.stage \in Nat /\ run'.stage \in Nat
    BY DEF StageOf, DeployedResources, InRootfs, Mounts, Removable, EngineInv, EngineTypeOK, Positions
  <2> QED
    BY <2>1, <2>2, <2>3
<1>4. Housed'
  BY SamePlan DEF EngineInv, Housed
<1>5. Accounted'
  BY DEF EngineInv, Accounted, Tracks, ForwardPcs
<1>6. MountsGuarded'
  BY DEF EngineInv, MountsGuarded, ForwardPcs, UnmountPcs, AfterPcs, RollbackPcs
<1>7. Spared' /\ RolledBack'
  BY DEF EngineInv, Spared, RolledBack, RollbackPcs
<1>8. ReleasedIsClean'
  BY DEF ReleasedIsClean
<1> QED
  BY <1>1, <1>2, <1>3, <1>4, <1>5, <1>6, <1>7, <1>8 DEF EngineInv

-----------------------------------------------------------------------------
(* The forward path. *)

LEMMA PrepareKeeps ==
    ASSUME EngineInv, engineOutcome = "none", Prepare
    PROVE  EngineInv'
<1>1. /\ run.pc = "new" /\ UNCHANGED <<plan, report, host, cancel>>
      /\ \A r \in DeployedResources : report.ledger[r] = "None" /\ host[r] # "ours"
      /\ run.stage = 0 /\ run.result = "none" /\ current = NoManifest
  BY DEF Prepare, EngineInv, Fresh, Placed
<1>2. /\ PreparedManifest \in CrashManifests /\ PreparedManifest # NoManifest
      /\ PreparedManifest' = PreparedManifest
  BY <1>1, NoManifestIsNone
     DEF PreparedManifest, ManifestOf, CrashManifests, EngineInv, EngineTypeOK, Reports
<1>3. PICK p \in {"preflight", "done"} :
        /\ run' = Goto(p)
        /\ manifestFile' \in {NoManifest, PreparedManifest}
        /\ p = "preflight" => current' = PreparedManifest /\ engineOutcome' = engineOutcome
        /\ p = "done" => current' = current /\ engineOutcome' = "failed"
  BY DEF Prepare
<1>4. /\ SamePlace(run', run) /\ run' \in Positions /\ run'.pc = p /\ run'.result = "none"
      /\ run'.stage = 0
  BY <1>1, <1>3, GotoType DEF EngineInv, EngineTypeOK, SamePlace, Pcs
<1>5. EngineTypeOK'
  BY <1>1, <1>2, <1>3, <1>4 DEF EngineInv, EngineTypeOK
<1>6. Placed'
  BY <1>1, <1>2, <1>3, <1>4 DEF Placed, ForwardPcs, RollbackPcs
<1>7. Fresh' /\ RolledBack'
  BY <1>1, <1>4 DEF Fresh, RolledBack, ForwardPcs, RollbackPcs
<1>8. Accounted'
  BY <1>1 DEF Accounted
<1>9. InRootfs \cup Mounts \subseteq DeployedResources
  BY DEF DeployedResources
<1>10. Housed' /\ MountsGuarded'
  <2>1. Housed'
    BY <1>1, <1>4, <1>9 DEF Housed, ForwardPcs
  <2>2. MountsGuarded'
    BY <1>1, <1>4, <1>9 DEF MountsGuarded, Mounts
  <2> QED
    BY <2>1, <2>2
<1>11. Spared'
  BY <1>1, <1>4 DEF Spared, RollbackPcs
<1>12. ReleasedIsClean'
  BY <1>1, <1>2, <1>3 DEF ReleasedIsClean
<1> QED
  BY <1>5, <1>6, <1>7, <1>8, <1>10, <1>11, <1>12 DEF EngineInv

\* The first stage makes the root file system, or mounts nothing before it.
LEMMA NextStageKeeps ==
    ASSUME EngineInv, engineOutcome = "none", run.pc \in {"preflight", "checkpoint"}, NextStage,
           UNCHANGED <<plan, report, current, manifestFile, host, cancel, engineOutcome>>
    PROVE  EngineInv'
<1> USE DEF EngineInv
<1>1. CASE run' = Stopped("ok")
  BY <1>1, StoppingKeeps DEF EngineTypeOK, ForwardPcs, Results
<1>2. CASE \E n \in Later : /\ \A m \in Later : n <= m
                            /\ run' = [Goto("applying") EXCEPT !.stage = n]
  <2>1. PICK n \in Later : /\ \A m \in Later : n <= m
                           /\ run' = [Goto("applying") EXCEPT !.stage = n]
    BY <1>2
  <2> DEFINE g == Goto("applying")
  <2>2. SamePlace(g, run) /\ g.pc = "applying" /\ g.result = run.result
    BY GotoType DEF EngineTypeOK, Pcs
  <2>3. run' = [g EXCEPT !.stage = n]
    BY <2>1
  <2> HIDE DEF g
  <2>4. n \in 1 .. 11 /\ n > run.stage /\ Runs(Stages[n]) /\ Len(Stages) = 11
    BY DEF Later, Stages, EngineTypeOK, Positions
  <2>5. /\ run' \in Positions /\ run'.pc = "applying" /\ run'.result = run.result
        /\ run'.stage = n /\ run'.rawMounted = run.rawMounted
        /\ run'.mountAttempted = run.mountAttempted
    BY <2>2, <2>3, <2>4 DEF SamePlace, Positions
  <2>6. run.result = "none"
    BY DEF Placed, ForwardPcs
  <2>7. Stage' = Stages[n] /\ Runs(Stage)'
    BY <2>4, <2>5, Zenon DEF Stage, Runs, External, PostConfig
  <2>8. run'.stage = StageOf(Base) \/ host[Base] = "ours"
    <3>1. CASE run.pc = "preflight"
      <4>1. run.stage = 0
        BY <3>1 DEF Placed
      <4>a. Stages[1] = "storage" /\ Stages[2] = "mount" /\ Stages[3] = "source"
        BY DEF Stages
      <4>b. /\ Runs("storage") <=> ~ External
            /\ Runs("mount") <=> ~ External
            /\ Runs("source")
        BY DEF Runs
      <4>2. CASE External
        <5>1. n \notin {1, 2} /\ 3 \in Later
          BY <2>4, <4>1, <4>2, <4>a, <4>b DEF Later
        <5> QED
          BY <2>1, <2>4, <2>5, <4>2, <5>1 DEF Base, StageOf
      <4>3. CASE ~ External
        <5>1. 1 \in Later
          BY <2>4, <4>1, <4>3, <4>a, <4>b DEF Later
        <5> QED
          BY <2>1, <2>4, <2>5, <4>3, <5>1 DEF Base, StageOf
      <4> QED
        BY <4>2, <4>3
    <3>2. CASE run.pc = "checkpoint"
      <4>1. run.stage # 0 /\ Runs(Stage)
        BY <3>2 DEF Placed, ForwardPcs
      <4>2. run.stage \in 1 .. 11 /\ (External => run.stage \notin {1, 2})
        BY <4>1, StageNumber, Zenon DEF EngineTypeOK, Runs
      <4>3. ~ (run.stage < StageOf(Base))
        BY <4>2 DEF Base, StageOf
      <4> QED
        BY <3>2, <4>3 DEF Housed, ForwardPcs
    <3> QED
      BY <3>1, <3>2
  <2>9. current \in CrashManifests /\ current # NoManifest
    BY DEF EngineTypeOK, Placed
  <2> QED
    BY <2>4, <2>5, <2>6, <2>7, <2>8, <2>9, AdvanceKeeps DEF EngineTypeOK, ForwardPcs
<1> QED
  BY <1>1, <1>2 DEF NextStage

LEMMA PreflightKeeps ==
    ASSUME EngineInv, engineOutcome = "none", Preflight
    PROVE  EngineInv'
<1>1. /\ run.pc = "preflight"
      /\ UNCHANGED <<plan, report, current, manifestFile, host, cancel, engineOutcome>>
      /\ NextStage \/ \E result \in {"cancelled", "failed", "timedOut"} : run' = Stopped(result)
  BY DEF Preflight, HostError
<1> QED
  BY <1>1, NextStageKeeps, StoppingKeeps DEF EngineInv, EngineTypeOK, Results

LEMMA ProbeKeeps ==
    ASSUME EngineInv, engineOutcome = "none", ProbeStops
    PROVE  EngineInv'
<1>1. /\ run.pc = "applying"
      /\ UNCHANGED <<plan, report, current, manifestFile, host, cancel, engineOutcome>>
      /\ \E result \in {"cancelled", "failed", "timedOut"} : run' = Stopped(result)
  BY DEF ProbeStops, HostError
<1> QED
  BY <1>1, StoppingKeeps DEF EngineInv, EngineTypeOK, Results, ForwardPcs

LEMMA CheckpointKeeps ==
    ASSUME EngineInv, engineOutcome = "none", Checkpoint
    PROVE  EngineInv'
<1>1. /\ run.pc = "checkpoint"
      /\ UNCHANGED <<plan, report, current, manifestFile, host, cancel, engineOutcome>>
      /\ NextStage \/ \E result \in {"cancelled", "failed", "timedOut"} : run' = Stopped(result)
  BY DEF Checkpoint, HostError
<1> QED
  BY <1>1, NextStageKeeps, StoppingKeeps DEF EngineInv, EngineTypeOK, Results, ForwardPcs

LEMMA PersistApplyingKeeps ==
    ASSUME EngineInv, engineOutcome = "none", PersistApplying
    PROVE  EngineInv'
<1> USE DEF EngineInv
<1>1. /\ run.pc = "applying" /\ UNCHANGED <<plan, report, host, cancel, engineOutcome>>
      /\ run.stage # 0 /\ Runs(Stage) /\ run.result = "none"
      /\ current # NoManifest /\ Intended \subseteq DeployedResources
  BY IntendedTyped DEF PersistApplying, Placed, ForwardPcs
<1>2. PICK ok \in BOOLEAN :
        /\ Persist(ok, "Applying", Intended)
        /\ run' = IF ok THEN [Goto("effect") EXCEPT !.mountAttempted = @ \/ Stage = "mount"]
                  ELSE Stopped("failed")
  BY DEF PersistApplying
<1>3. /\ current' \in CrashManifests /\ current' # NoManifest
      /\ manifestFile' \in CrashManifests \cup {NoManifest}
      /\ ok => current'.state = "Applying" /\ current'.intended = Intended
      /\ ~ ok => current' = current
  BY <1>1, <1>2, PersistType DEF States
<1>4. CASE ok
  <2> DEFINE g == Goto("effect")
  <2>1. SamePlace(g, run) /\ g.pc = "effect" /\ g.result = run.result
    BY GotoType DEF EngineTypeOK, Pcs
  <2>2. PICK b \in BOOLEAN : b = (g.mountAttempted \/ Stage = "mount")
    BY Zenon
  <2>3. run' = [g EXCEPT !.mountAttempted = b]
    BY <1>2, <1>4, <2>2
  <2> HIDE DEF g
  <2>4. /\ run' \in Positions /\ run'.pc = "effect" /\ run'.result = "none"
        /\ run'.stage = run.stage /\ run'.rawMounted = run.rawMounted /\ run'.mountAttempted = b
    BY <1>1, <2>1, <2>3 DEF SamePlace, Positions
  <2>5. /\ run.mountAttempted => b
        /\ Stage = "mount" => b
    BY <2>1, <2>2, Zenon DEF SamePlace
  <2>6. Stage' = Stage /\ Runs(Stage)' /\ Intended' = Intended
    BY <1>1, <2>4, SameStage
  <2>7. run.stage = StageOf(Base) \/ host[Base] = "ours"
    <3>1. run.stage \in 1 .. 11 /\ (External => run.stage \notin {1, 2})
      BY <1>1, StageNumber, Zenon DEF EngineTypeOK, Runs
    <3>2. ~ (run.stage < StageOf(Base))
      BY <3>1 DEF Base, StageOf
    <3> QED
      BY <1>1, <3>2 DEF Housed, ForwardPcs
  <2> QED
    BY <1>1, <1>3, <1>4, <2>4, <2>5, <2>6, <2>7, AdvanceKeeps DEF ForwardPcs
<1>5. CASE ~ ok
  BY <1>1, <1>2, <1>3, <1>5, StoppingKeeps DEF ForwardPcs, Results, EngineTypeOK
<1> QED
  BY <1>4, <1>5

\* After the stage that makes it, the root file system is there.
LEMMA BaseIsThere ==
    ASSUME EngineInv, run.pc \in ForwardPcs,
           run.stage # StageOf(Base) \/ run.pc \notin {"applying", "effect"}
    PROVE  host[Base] = "ours"
<1>1. run.stage # 0 /\ Runs(Stage)
  BY DEF EngineInv, Placed
<1>2. run.stage \in 1 .. 11 /\ (External => run.stage \notin {1, 2})
  BY <1>1, StageNumber, Zenon DEF EngineInv, EngineTypeOK, Runs
<1>3. ~ (run.stage < StageOf(Base))
  BY <1>2 DEF Base, StageOf
<1> QED
  BY <1>3 DEF EngineInv, Housed

LEMMA PersistCommittedKeeps ==
    ASSUME EngineInv, engineOutcome = "none", PersistCommitted
    PROVE  EngineInv'
<1> USE DEF EngineInv
<1>1. /\ run.pc = "committing" /\ UNCHANGED <<plan, report, host, cancel, engineOutcome>>
      /\ run.stage # 0 /\ Runs(Stage) /\ run.result = "none" /\ current # NoManifest
  BY DEF PersistCommitted, Placed, ForwardPcs
<1>2. PICK ok \in BOOLEAN :
        /\ Persist(ok, "Committed", {})
        /\ run' = IF ok THEN Goto("checkpoint") ELSE Stopped("failed")
  BY DEF PersistCommitted
<1>3. /\ current' \in CrashManifests /\ current' # NoManifest
      /\ manifestFile' \in CrashManifests \cup {NoManifest}
      /\ ~ ok => current' = current
  BY <1>1, <1>2, PersistType DEF States
<1>4. CASE ok
  <2>1. SamePlace(run', run) /\ run'.pc = "checkpoint" /\ run'.result = "none"
    BY <1>1, <1>2, <1>4, GotoType DEF EngineTypeOK, Pcs
  <2>2. Runs(Stage)' /\ Stage' = Stage
    BY <1>1, <2>1, SameStage DEF SamePlace
  <2>3. host[Base] = "ours"
    BY <1>1, BaseIsThere DEF ForwardPcs
  <2> QED
    BY <1>1, <1>3, <2>1, <2>2, <2>3, AdvanceKeeps DEF ForwardPcs, SamePlace
<1>5. CASE ~ ok
  BY <1>1, <1>2, <1>3, <1>5, StoppingKeeps DEF ForwardPcs, Results, EngineTypeOK
<1> QED
  BY <1>4, <1>5

\* A stage may find nothing to do: tar import and bootstrap fill what is there,
\* and a raw image may need no mount.
LEMMA IdleKeeps ==
    ASSUME EngineInv, engineOutcome = "none", run.pc = "effect", run.stage # StageOf(Base),
           run' = Goto("committing"), UNCHANGED <<host, report>>, EffectKeeps
    PROVE  EngineInv'
<1> USE DEF EngineInv
<1>1. /\ UNCHANGED <<plan, current, manifestFile, cancel, engineOutcome>>
      /\ run.stage # 0 /\ Runs(Stage) /\ run.result = "none"
      /\ current \in CrashManifests /\ current # NoManifest
  BY DEF EffectKeeps, Placed, ForwardPcs, EngineTypeOK
<1>2. SamePlace(run', run) /\ run'.pc = "committing" /\ run'.result = "none"
  BY <1>1, GotoType DEF EngineTypeOK, Pcs
<1>3. Runs(Stage)' /\ Stage' = Stage
  BY <1>1, <1>2, SameStage DEF SamePlace
<1>4. host[Base] = "ours"
  BY BaseIsThere DEF ForwardPcs
<1> QED
  BY <1>1, <1>2, <1>3, <1>4, AdvanceKeeps DEF ForwardPcs, SamePlace, EngineTypeOK

LEMMA FillRootfsKeeps ==
    ASSUME EngineInv, engineOutcome = "none", FillRootfs
    PROVE  EngineInv'
<1>1. run.pc = "effect" /\ Stage = "source" /\ ~ External
  BY DEF FillRootfs, External
<1>2. run.stage = 3 /\ StageOf(Base) = 1
  BY <1>1, StageNumber DEF EngineInv, EngineTypeOK, Placed, ForwardPcs, Base, StageOf
<1> QED
  BY <1>1, <1>2, IdleKeeps DEF FillRootfs

-----------------------------------------------------------------------------
\* A stage records its resource and puts it on the host, or finds it there.
LEMMA RecordingKeeps ==
    ASSUME EngineInv, engineOutcome = "none", run.pc \in {"effect", "finishSource"},
           NEW r \in DeployedResources, NEW d \in Owned \cup {"PreExisting"},
           StageOf(r) = run.stage, r # "ExternalImage",
           (r = Base /\ d \in Owned) \/ host[Base] = "ours",
           report' \in Reports, report'.ledger = [report.ledger EXCEPT ![r] = d],
           report'.storageBlocked = report.storageBlocked,
           report.extBlocked => report'.extBlocked,
           \/ d \in Owned /\ host' = [host EXCEPT ![r] = "ours"]
           \/ /\ d = "PreExisting" /\ host' = host /\ host[r] \notin {"absent", "ours"}
              /\ r \in {"NvidiaState", "NspawnConfig", "SystemdOverride"}
              /\ r = "NspawnConfig" => report'.extBlocked,
           run' \in Positions, run'.pc \in {"committing", "stopped"},
           run'.result = IF run'.pc = "committing" THEN "none" ELSE run'.result,
           run'.pc = "stopped" => run'.result \in {"failed", "timedOut", "cancelled"},
           run'.stage = run.stage, run'.mountAttempted = run.mountAttempted,
           \/ run'.rawMounted = run.rawMounted /\ r # "RawConfigurationMount"
           \/ run'.rawMounted /\ r = "RawConfigurationMount",
           EffectKeeps
    PROVE  EngineInv'
<1> USE DEF EngineInv
<1>1. /\ UNCHANGED <<plan, current, manifestFile, cancel, engineOutcome>>
      /\ run.stage # 0 /\ Runs(Stage) /\ run.result = "none" /\ current # NoManifest
  BY DEF EffectKeeps, Placed, ForwardPcs
<1>2. Stage' = Stage /\ Runs(Stage)' /\ Base' = Base /\ \A x : StageOf(x)' = StageOf(x)
  BY <1>1, SameStage, SamePlan
<1>3. /\ host' \in [DeployedResources -> Presence]
      /\ \A x \in DeployedResources : x # r => host'[x] = host[x]
      /\ \A x \in DeployedResources : host[x] = "ours" => host'[x] = "ours"
      /\ host'[r] = "ours" => d \in Owned
      /\ host'[r] \in {"ours", host[r]}
  BY DEF EngineTypeOK, Presence, Owned
<1>4. /\ \A x \in DeployedResources : x # r => report'.ledger[x] = report.ledger[x]
      /\ report'.ledger[r] = d
  BY DEF EngineTypeOK, Reports
<1>5. EngineTypeOK'
  <2>1. InRootfs \cup Mounts \subseteq DeployedResources
    BY DEF DeployedResources
  <2> QED
    BY <1>1, <1>3, <2>1 DEF EngineTypeOK
<1>6. Placed'
  BY <1>1, <1>2 DEF Placed, ForwardPcs, RollbackPcs
<1>7. Fresh'
  <2> SUFFICES ASSUME NEW x \in DeployedResources, report'.ledger[x] # "None",
                      run'.pc = "committing"
               PROVE  StageOf(x) <= run.stage
    <3>1. \A x \in DeployedResources : StageOf(x) \in Nat
      BY DEF StageOf, DeployedResources, InRootfs, Mounts, Removable
    <3>2. run.stage \in Nat
      BY DEF EngineTypeOK, Positions
    <3> QED
      BY <1>2, <3>1, <3>2 DEF Fresh, ForwardPcs
  <2>1. CASE x = r
    BY <2>1 DEF EngineTypeOK, Positions
  <2>2. CASE x # r
    <3>1. report.ledger[x] # "None"
      BY <1>4, <2>2
    <3>2. StageOf(x) < run.stage \/ (run.stage = 3 /\ x = "ExternalImage")
      BY <3>1 DEF Fresh, ForwardPcs
    <3>3. StageOf("ExternalImage") = 3
      BY DEF StageOf
    <3>4. StageOf(x) \in Nat /\ run.stage \in Nat
      BY DEF StageOf, DeployedResources, InRootfs, Mounts, Removable, EngineTypeOK, Positions
    <3> QED
      BY <3>2, <3>3, <3>4
  <2> QED
    BY <2>1, <2>2
<1>8. host'[Base] = "ours"
  <2>1. Base \in DeployedResources
    BY DEF Base, DeployedResources, Removable
  <2> QED
    BY <1>3, <2>1 DEF EngineTypeOK, Owned
<1>9. Housed'
  BY <1>2, <1>8 DEF Housed
<1>10. Accounted'
  <2> SUFFICES ASSUME NEW x \in DeployedResources, host'[x] = "ours"
               PROVE  \/ report'.ledger[x] \in Owned \cup {"OutcomeUnknown"}
                      \/ plan.kind = "clone" /\ x = "NspawnConfig" /\ host'["ExternalImage"] = "ours"
    BY <1>1 DEF Accounted, Tracks
  <2>1. CASE x = r
    BY <1>3, <1>4, <2>1
  <2>2. CASE x # r
    <3>1. "ExternalImage" \in DeployedResources
      BY DEF DeployedResources, Removable
    <3>2. host[x] = "ours" /\ report'.ledger[x] = report.ledger[x]
      BY <1>3, <1>4, <2>2
    <3>3. \/ report.ledger[x] \in Owned \cup {"OutcomeUnknown"}
          \/ plan.kind = "clone" /\ x = "NspawnConfig" /\ host["ExternalImage"] = "ours"
      BY <3>2 DEF Accounted, Tracks
    <3> QED
      BY <1>3, <3>1, <3>2, <3>3, Zenon
  <2> QED
    BY <2>1, <2>2
<1>11. MountsGuarded'
  <2>1. Mounts \subseteq DeployedResources
    BY DEF DeployedResources
  <2>2. host'["StorageMount"] = "ours" => run.mountAttempted
    <3>1. CASE r = "StorageMount"
      <4>1. run.stage = 2
        BY <3>1 DEF StageOf
      <4>2. Stage = "mount"
        BY <1>1, <4>1, StageNumber DEF EngineTypeOK
      <4> QED
        BY <4>2 DEF MountsGuarded, Placed
    <3>2. CASE r # "StorageMount"
      BY <1>3, <2>1, <3>2 DEF MountsGuarded, Mounts
    <3> QED
      BY <3>1, <3>2
  <2>3. host'["RawConfigurationMount"] = "ours" => report'.storageBlocked \/ run'.rawMounted
    BY <1>3, <2>1 DEF MountsGuarded, Mounts
  <2> QED
    BY <2>2, <2>3 DEF MountsGuarded, UnmountPcs, AfterPcs, RollbackPcs
<1>12. Spared'
  <2>1. ASSUME NEW x \in DeployedResources, report'.ledger[x] = "PreExisting"
        PROVE  /\ host'[x] \notin {"absent", "ours"}
               /\ x \in {"NvidiaState", "NspawnConfig", "SystemdOverride"}
               /\ x = "NspawnConfig" => report'.extBlocked
    <3>1. CASE x = r
      BY <1>4, <2>1, <3>1 DEF Owned
    <3>2. CASE x # r
      BY <1>3, <1>4, <2>1, <3>2 DEF Spared
    <3> QED
      BY <3>1, <3>2
  <2>2. run'.pc \notin RollbackPcs /\ run'.pc \notin {"remove", "removed"}
    BY DEF RollbackPcs
  <2> QED
    BY <2>1, <2>2, Zenon DEF Spared
<1>13. RolledBack' /\ ReleasedIsClean'
  BY <1>1 DEF RolledBack, RollbackPcs, ReleasedIsClean
<1> QED
  BY <1>5, <1>6, <1>7, <1>9, <1>10, <1>11, <1>12, <1>13

\* A resource whose stage has not recorded it yet is not on the host.
LEMMA NotYet ==
    ASSUME EngineInv, run.pc \in {"effect", "finishSource"}, NEW r \in DeployedResources,
           StageOf(r) = run.stage, run.pc = "effect" \/ r # "ExternalImage"
    PROVE  /\ report.ledger[r] = "None"
           /\ plan.kind # "clone" \/ r # "NspawnConfig" => host[r] # "ours"
<1>1. run.stage \in Nat
  BY DEF EngineInv, EngineTypeOK, Positions
<1>2. report.ledger[r] = "None"
  BY <1>1 DEF EngineInv, Fresh, ForwardPcs
<1>3. ~ Tracks(r)
  BY <1>2 DEF Tracks, Owned
<1> QED
  BY <1>2, <1>3 DEF EngineInv, Accounted

LEMMA CreateStorageKeeps ==
    ASSUME EngineInv, engineOutcome = "none", CreateStorage
    PROVE  EngineInv'
<1>1. /\ run.pc = "effect" /\ Stage = "storage" /\ EffectKeeps /\ run' = Goto("committing")
      /\ host' = [host EXCEPT !["LocalStorage"] = "ours"]
      /\ report' = RecordIn(report, "LocalStorage", "Created")
  BY DEF CreateStorage, Applied
<1>2. run.stage # 0 /\ Runs(Stage) /\ run.result = "none" /\ run \in Positions /\ report \in Reports
  BY <1>1 DEF EngineInv, EngineTypeOK, Placed, ForwardPcs
<1>3. run.stage = 1 /\ Base = "LocalStorage" /\ StageOf("LocalStorage") = 1
  BY <1>1, <1>2, StageNumber DEF Runs, Base, StageOf
<1>4. "LocalStorage" \in DeployedResources /\ "Created" \in Dispositions /\ "Created" \in Owned
  BY DEF DeployedResources, Removable, Dispositions, Owned
<1>5. /\ SamePlace(run', run) /\ run'.pc = "committing" /\ run'.result = "none"
  BY <1>1, <1>2, GotoType DEF Pcs
<1>6. /\ report' \in Reports /\ report'.ledger = [report.ledger EXCEPT !["LocalStorage"] = "Created"]
      /\ report'.extBlocked = report.extBlocked /\ report'.storageBlocked = report.storageBlocked
  BY <1>1, <1>2, <1>4, RecordType
<1> QED
  BY <1>1, <1>3, <1>4, <1>5, <1>6, RecordingKeeps, Zenon DEF SamePlace

\* The stages that come after the root file system and own what they record.
LEMMA OwnedKeeps ==
    ASSUME EngineInv, engineOutcome = "none", run.pc = "effect",
           Stage \in {"mount", "rawMount", "hostname", "accounts", "rootfsNvidia", "network"},
           NEW d \in Owned,
           host' = [host EXCEPT ![Target[Stage]] = "ours"],
           report' = RecordIn(report, Target[Stage], d),
           run' \in Positions, run'.pc = "committing", run'.result = run.result,
           run'.stage = run.stage, run'.mountAttempted = run.mountAttempted,
           run'.rawMounted = (run.rawMounted \/ Stage = "rawMount"),
           EffectKeeps
    PROVE  EngineInv'
<1> DEFINE r == Target[Stage]
<1>1. run.stage # 0 /\ Runs(Stage) /\ run.result = "none" /\ run \in Positions /\ report \in Reports
  BY DEF EngineInv, EngineTypeOK, Placed, ForwardPcs
<1>2. /\ r \in DeployedResources /\ StageOf(r) = run.stage /\ r # "ExternalImage"
  BY <1>1, TargetOfStage
<1>3. r = "RawConfigurationMount" <=> Stage = "rawMount"
  BY TargetValues
<1>4. run.stage # StageOf(Base)
  BY <1>1, StageNumber DEF Base, StageOf
<1>5. host[Base] = "ours"
  BY <1>4, BaseIsThere DEF ForwardPcs
<1>6. d \in Dispositions
  BY DEF Dispositions
<1> HIDE DEF r
<1>7. /\ report' \in Reports /\ report'.ledger = [report.ledger EXCEPT ![r] = d]
      /\ report'.extBlocked = report.extBlocked /\ report'.storageBlocked = report.storageBlocked
  BY <1>1, <1>2, <1>6, RecordType DEF r
<1>8. host' = [host EXCEPT ![r] = "ours"]
  BY DEF r
<1>9. \/ run'.rawMounted = run.rawMounted /\ r # "RawConfigurationMount"
      \/ run'.rawMounted /\ r = "RawConfigurationMount"
  <2>1. CASE Stage = "rawMount"
    BY <1>3, <2>1
  <2>2. CASE Stage # "rawMount"
    <3>1. run.rawMounted \in BOOLEAN
      BY <1>1 DEF Positions
    <3> QED
      BY <1>3, <2>2, <3>1
  <2> QED
    BY <2>1, <2>2
<1>10. /\ run.pc \in {"effect", "finishSource"} /\ d \in Owned \cup {"PreExisting"}
       /\ report.extBlocked => report'.extBlocked
       /\ run'.pc \in {"committing", "stopped"}
       /\ run'.result = IF run'.pc = "committing" THEN "none" ELSE run'.result
       /\ run'.pc = "stopped" => run'.result \in {"failed", "timedOut", "cancelled"}
  BY <1>1, <1>7
<1> QED
  BY <1>2, <1>5, <1>7, <1>8, <1>9, <1>10, RecordingKeeps, Zenon

LEMMA MountStorageKeeps ==
    ASSUME EngineInv, engineOutcome = "none", MountStorage
    PROVE  EngineInv'
<1>1. /\ run.pc = "effect" /\ Stage = "mount" /\ EffectKeeps /\ run' = Goto("committing")
      /\ host' = [host EXCEPT !["StorageMount"] = "ours"]
      /\ report' = RecordIn(report, "StorageMount", "Created")
  BY DEF MountStorage, Applied
<1>2. Target[Stage] = "StorageMount" /\ "Created" \in Owned /\ run \in Positions
  BY <1>1, TargetValues DEF Owned, EngineInv, EngineTypeOK
<1>3. /\ SamePlace(run', run) /\ run'.pc = "committing" /\ run'.result = run.result
  BY <1>1, <1>2, GotoType DEF Pcs
<1>4. run'.rawMounted = (run.rawMounted \/ Stage = "rawMount")
  BY <1>1, <1>2, <1>3 DEF SamePlace, Positions
<1> QED
  BY <1>1, <1>2, <1>3, <1>4, OwnedKeeps DEF SamePlace

LEMMA MountRawKeeps ==
    ASSUME EngineInv, engineOutcome = "none", MountRaw
    PROVE  EngineInv'
<1>1. run.pc = "effect" /\ Stage = "rawMount" /\ EffectKeeps
  BY DEF MountRaw
<1>2. Target[Stage] = "RawConfigurationMount" /\ "Created" \in Owned /\ run \in Positions
  BY <1>1, TargetValues DEF Owned, EngineInv, EngineTypeOK
<1>3. CASE run' = Goto("committing") /\ UNCHANGED <<host, report>>
  <2>1. run.stage # StageOf(Base)
    BY <1>1, <1>2, StageNumber DEF EngineInv, Placed, ForwardPcs, Base, StageOf
  <2> QED
    BY <1>1, <1>3, <2>1, IdleKeeps
<1>4. CASE /\ Applied([host EXCEPT !["RawConfigurationMount"] = "ours"],
                      RecordIn(report, "RawConfigurationMount", "Created"))
           /\ run' = [Goto("committing") EXCEPT !.rawMounted = TRUE]
  <2> DEFINE g == Goto("committing")
  <2>1. SamePlace(g, run) /\ g.pc = "committing" /\ g.result = run.result
    BY <1>2, GotoType DEF Pcs
  <2>2. run' = [g EXCEPT !.rawMounted = TRUE]
    BY <1>4
  <2> HIDE DEF g
  <2>3. /\ run' \in Positions /\ run'.pc = "committing" /\ run'.result = run.result
        /\ run'.stage = run.stage /\ run'.mountAttempted = run.mountAttempted /\ run'.rawMounted = TRUE
    BY <2>1, <2>2, Zenon DEF SamePlace, Positions
  <2>4. run'.rawMounted = (run.rawMounted \/ Stage = "rawMount")
    BY <1>1, <2>3, Zenon
  <2> QED
    BY <1>1, <1>2, <1>4, <2>3, <2>4, OwnedKeeps, Zenon DEF Applied
<1> QED
  BY <1>3, <1>4 DEF MountRaw

LEMMA MutateRootfsKeeps ==
    ASSUME EngineInv, engineOutcome = "none", MutateRootfs
    PROVE  EngineInv'
<1>1. /\ run.pc = "effect" /\ Stage \in {"hostname", "accounts", "rootfsNvidia", "network"}
      /\ EffectKeeps /\ run' = Goto("committing")
      /\ host' = [host EXCEPT ![Target[Stage]] = "ours"]
      /\ report' = RecordIn(report, Target[Stage], "Committed")
  BY DEF MutateRootfs, Applied
<1>2. "Committed" \in Owned /\ run \in Positions
  BY DEF Owned, EngineInv, EngineTypeOK
<1>3. /\ SamePlace(run', run) /\ run'.pc = "committing" /\ run'.result = run.result
  BY <1>1, <1>2, GotoType DEF Pcs
<1>4. run'.rawMounted = (run.rawMounted \/ Stage = "rawMount")
  BY <1>1, <1>2, <1>3 DEF SamePlace, Positions
<1> QED
  BY <1>1, <1>2, <1>3, <1>4, OwnedKeeps DEF SamePlace

\* What record_apply writes for each status of a sidecar.
LEMMA ApplyType ==
    ASSUME NEW rep \in Reports, NEW r \in DeployedResources,
           NEW status \in {"Created", "ReplacedOwned", "Unchanged", "ConflictUnknownOwner"}
    PROVE  \E d \in {"Created", "Adopted", "PreExisting"} :
              /\ RecordApply(rep, r, status) \in Reports
              /\ RecordApply(rep, r, status).ledger = [rep.ledger EXCEPT ![r] = d]
              /\ RecordApply(rep, r, status).storageBlocked = rep.storageBlocked
              /\ rep.extBlocked => RecordApply(rep, r, status).extBlocked
              /\ r = "NspawnConfig" /\ status # "Created" => RecordApply(rep, r, status).extBlocked
              /\ d = "PreExisting" <=> status \in {"Unchanged", "ConflictUnknownOwner"}
<1> DEFINE d == CASE status = "Created" -> "Created"
                  [] status = "ReplacedOwned" -> "Adopted"
                  [] OTHER -> "PreExisting"
           q == RecordIn(rep, r, d)
<1>1. /\ d \in {"Created", "Adopted", "PreExisting"}
      /\ d = "PreExisting" <=> status \in {"Unchanged", "ConflictUnknownOwner"}
  OBVIOUS
<1>2. RecordApply(rep, r, status) =
        [q EXCEPT !.extBlocked = @ \/ (r = "NspawnConfig" /\ status # "Created")]
  BY DEF RecordApply
<1> HIDE DEF d
<1>3. d \in Dispositions
  BY <1>1 DEF Dispositions, Owned
<1>4. /\ q \in Reports /\ q.ledger = [rep.ledger EXCEPT ![r] = d]
      /\ q.extBlocked = rep.extBlocked /\ q.storageBlocked = rep.storageBlocked
  BY <1>3, RecordType
<1> HIDE DEF q
<1>5. PICK b \in BOOLEAN : b = (q.extBlocked \/ (r = "NspawnConfig" /\ status # "Created"))
  BY Zenon
<1>6. RecordApply(rep, r, status) = [q EXCEPT !.extBlocked = b]
  BY <1>2, <1>5
<1>7. /\ RecordApply(rep, r, status) \in Reports
      /\ RecordApply(rep, r, status).ledger = q.ledger
      /\ RecordApply(rep, r, status).storageBlocked = q.storageBlocked
      /\ RecordApply(rep, r, status).extBlocked = b
  BY <1>4, <1>6 DEF Reports
<1> QED
  BY <1>1, <1>4, <1>5, <1>7, Zenon

\* A sidecar is written, replaced or left as it is.
LEMMA SidecarKeeps ==
    ASSUME EngineInv, engineOutcome = "none", run.pc \in {"effect", "finishSource"},
           NEW r \in {"NvidiaState", "NspawnConfig", "SystemdOverride"},
           StageOf(r) = run.stage, plan.kind # "clone" \/ r # "NspawnConfig",
           host[Base] = "ours",
           NEW status \in Statuses(r), host' = WrittenBy(r, status),
           report' = RecordApply(report, r, status),
           run' \in {Goto("committing"), Stopped("failed"), Stopped("cancelled")},
           EffectKeeps
    PROVE  EngineInv'
<1>1. r \in DeployedResources /\ r # "ExternalImage" /\ r # "RawConfigurationMount"
  BY DEF DeployedResources, Removable
<1>2. host[r] # "ours" /\ report.ledger[r] = "None"
  BY <1>1, NotYet
<1>3. /\ run \in Positions /\ report \in Reports /\ host[r] \in Presence /\ run.result = "none"
  BY <1>1 DEF EngineInv, EngineTypeOK, Placed, ForwardPcs
<1>4. /\ status \in {"Created", "ReplacedOwned", "Unchanged", "ConflictUnknownOwner"}
      /\ status \in {"Unchanged", "ConflictUnknownOwner"} => host[r] \notin {"absent", "ours"}
  BY <1>2, <1>3 DEF Statuses, Presence
<1>5. PICK d \in {"Created", "Adopted", "PreExisting"} :
        /\ report' \in Reports /\ report'.ledger = [report.ledger EXCEPT ![r] = d]
        /\ report'.storageBlocked = report.storageBlocked
        /\ report.extBlocked => report'.extBlocked
        /\ r = "NspawnConfig" /\ status # "Created" => report'.extBlocked
        /\ d = "PreExisting" <=> status \in {"Unchanged", "ConflictUnknownOwner"}
  <2>1. /\ r \in DeployedResources /\ report \in Reports
        /\ status \in {"Created", "ReplacedOwned", "Unchanged", "ConflictUnknownOwner"}
        /\ report' = RecordApply(report, r, status)
    BY <1>1, <1>3, <1>4
  <2> QED
    BY ONLY <2>1, ApplyType
<1>6. d \in Owned \/ d = "PreExisting"
  BY DEF Owned
<1>7. \/ d \in Owned /\ host' = [host EXCEPT ![r] = "ours"]
      \/ /\ d = "PreExisting" /\ host' = host /\ host[r] \notin {"absent", "ours"}
         /\ r \in {"NvidiaState", "NspawnConfig", "SystemdOverride"}
         /\ r = "NspawnConfig" => report'.extBlocked
  <2>1. CASE d = "PreExisting"
    BY <1>4, <1>5, <2>1 DEF WrittenBy
  <2>2. CASE d # "PreExisting"
    BY <1>4, <1>5, <1>6, <2>2 DEF WrittenBy
  <2> QED
    BY <2>1, <2>2
<1>8. /\ SamePlace(run', run) /\ run'.pc \in {"committing", "stopped"}
      /\ run'.pc = "committing" => run'.result = "none"
      /\ run'.pc = "stopped" => run'.result \in {"failed", "cancelled"}
  BY <1>3, GotoType, StoppedType DEF Pcs, Results
<1>9. run'.result = IF run'.pc = "committing" THEN "none" ELSE run'.result
  BY <1>8
<1>10. /\ d \in Owned \cup {"PreExisting"}
       /\ run'.pc = "stopped" => run'.result \in {"failed", "timedOut", "cancelled"}
  BY <1>6, <1>8
<1> QED
  BY <1>1, <1>5, <1>6, <1>7, <1>8, <1>9, <1>10, RecordingKeeps DEF SamePlace

LEMMA WriteSidecarKeeps ==
    ASSUME EngineInv, engineOutcome = "none", WriteSidecar
    PROVE  EngineInv'
<1> DEFINE r == Target[Stage]
<1>1. run.pc = "effect" /\ Stage \in {"nvidia", "nspawn", "override"} /\ EffectKeeps
  BY DEF WriteSidecar
<1>2. PICK status \in Statuses(r) :
        /\ host' = WrittenBy(r, status) /\ report' = RecordApply(report, r, status)
        /\ run' = IF Refused(r, status) THEN Stopped("failed") ELSE Goto("committing")
  BY DEF WriteSidecar, Applied
<1>3. run.stage # 0 /\ Runs(Stage) /\ run \in Positions
  BY <1>1 DEF EngineInv, EngineTypeOK, Placed, ForwardPcs
<1>4. StageOf(r) = run.stage
  BY <1>1, <1>3, TargetOfStage
<1>5. r \in {"NvidiaState", "NspawnConfig", "SystemdOverride"}
  BY <1>1, TargetValues
<1>6. plan.kind # "clone"
  BY <1>1, <1>3, Zenon DEF Runs, PostConfig
<1>7. host[Base] = "ours"
  <2>1. run.stage # StageOf(Base)
    BY <1>1, <1>3, StageNumber DEF Base, StageOf
  <2> QED
    BY <1>1, <2>1, BaseIsThere DEF ForwardPcs
<1> HIDE DEF r
<1> QED
  BY <1>1, <1>2, <1>4, <1>5, <1>6, <1>7, SidecarKeeps

\* In the second part of the source stage the image is there.
LEMMA SecondPart ==
    ASSUME EngineInv, run.pc = "finishSource"
    PROVE  /\ run.stage = 3 /\ Base = "ExternalImage" /\ host[Base] = "ours"
           /\ run.result = "none" /\ run.stage # 0 /\ Runs(Stage) /\ ~ PostConfig
           /\ current \in CrashManifests /\ current # NoManifest
<1>1. Stage = "source" /\ plan.kind \in {"clone", "oci"} /\ run.stage # 0 /\ Runs(Stage)
  BY DEF EngineInv, Placed, ForwardPcs
<1>2. run.stage = 3 /\ Base = "ExternalImage" /\ ~ PostConfig
  BY <1>1, StageNumber DEF EngineInv, EngineTypeOK, Base, External, PostConfig
<1>3. host[Base] = "ours"
  BY BaseIsThere DEF ForwardPcs
<1> QED
  BY <1>1, <1>2, <1>3 DEF EngineInv, EngineTypeOK, Placed, ForwardPcs

LEMMA PromoteOciKeeps ==
    ASSUME EngineInv, engineOutcome = "none", PromoteOci
    PROVE  EngineInv'
<1>1. run.pc = "finishSource" /\ plan.kind = "oci" /\ EffectKeeps
  BY DEF PromoteOci
<1>2. PICK status \in Statuses("NspawnConfig") :
        /\ host' = WrittenBy("NspawnConfig", status)
        /\ report' = RecordApply(report, "NspawnConfig", status)
        /\ run' \in {Goto("committing"), Stopped("failed"), Stopped("cancelled")}
  BY DEF PromoteOci, Applied
<1>3. StageOf("NspawnConfig") = run.stage /\ host[Base] = "ours"
  BY <1>1, SecondPart DEF StageOf
<1> QED
  BY <1>1, <1>2, <1>3, SidecarKeeps

LEMMA FinishCloneKeeps ==
    ASSUME EngineInv, engineOutcome = "none", FinishClone
    PROVE  EngineInv'
<1>1. /\ run.pc = "finishSource" /\ plan.kind = "clone" /\ EffectKeeps
      /\ run' \in {Goto("committing"), Stopped("failed"), Stopped("cancelled")}
  BY DEF FinishClone
<1>2. /\ StageOf("SystemdOverride") = run.stage /\ host[Base] = "ours" /\ run.result = "none"
      /\ run.stage # 0 /\ Runs(Stage) /\ current \in CrashManifests /\ current # NoManifest
  BY <1>1, SecondPart DEF StageOf
<1>3. CASE plan.override
  <2>1. PICK status \in Statuses("SystemdOverride") :
          /\ host' = WrittenBy("SystemdOverride", status)
          /\ report' = RecordApply(report, "SystemdOverride", status)
    BY <1>3 DEF FinishClone, Applied
  <2> QED
    BY <1>1, <1>2, <2>1, SidecarKeeps
<1>4. CASE ~ plan.override
  <2>1. UNCHANGED <<plan, host, report, current, manifestFile, cancel, engineOutcome>>
    BY <1>1, <1>4 DEF FinishClone, EffectKeeps
  <2>2. CASE run' = Goto("committing")
    <3>1. SamePlace(run', run) /\ run'.pc = "committing" /\ run'.result = "none"
      BY <1>2, <2>2, GotoType DEF EngineInv, EngineTypeOK, Pcs
    <3>2. Runs(Stage)' /\ Stage' = Stage
      BY <1>2, <2>1, <3>1, SameStage DEF SamePlace
    <3> QED
      BY <1>1, <1>2, <2>1, <3>1, <3>2, AdvanceKeeps
         DEF ForwardPcs, SamePlace, EngineInv, EngineTypeOK
  <2>3. CASE run' # Goto("committing")
    BY <1>1, <2>1, <2>3, StoppingKeeps DEF ForwardPcs, Results, EngineInv, EngineTypeOK
  <2> QED
    BY <2>2, <2>3
<1> QED
  BY <1>3, <1>4

LEMMA RejectClonedConfigKeeps ==
    ASSUME EngineInv, engineOutcome = "none", RejectClonedConfig
    PROVE  EngineInv'
<1>1. /\ run.pc = "finishSource" /\ run' = Stopped("failed")
      /\ UNCHANGED <<plan, host, current, manifestFile, cancel, engineOutcome>>
  BY DEF RejectClonedConfig, EffectKeeps
<1>2. PICK b \in BOOLEAN : b = (report.extBlocked \/ host["NspawnConfig"] # "absent")
  BY Zenon
<1>3. report' = [report EXCEPT !.extBlocked = b] /\ report \in Reports
  BY <1>2 DEF RejectClonedConfig, EngineInv, EngineTypeOK
<1>4. /\ report' \in Reports /\ report'.ledger = report.ledger
      /\ report'.storageBlocked = report.storageBlocked /\ report'.extBlocked = b
  BY <1>3 DEF Reports
<1> QED
  BY <1>1, <1>2, <1>4, StoppingKeeps, Zenon DEF ForwardPcs, Results, EngineInv, EngineTypeOK

LEMMA ObtainImageKeeps ==
    ASSUME EngineInv, engineOutcome = "none", ObtainImage
    PROVE  EngineInv'
<1> USE DEF EngineInv
<1>1. /\ run.pc = "effect" /\ Stage = "source" /\ External
      /\ UNCHANGED <<plan, current, manifestFile, cancel, engineOutcome>>
  BY DEF ObtainImage, EffectKeeps
<1>2. PICK copied \in BOOLEAN :
        /\ copied => plan.kind = "clone" /\ host["NspawnConfig"] = "absent"
        /\ host' = [host EXCEPT !["ExternalImage"] = "ours",
                                !["NspawnConfig"] = IF copied THEN "ours" ELSE @]
        /\ report' = RecordIn(report, "ExternalImage", "Created")
  BY Zenon DEF ObtainImage, Applied
<1>3. /\ run.stage = 3 /\ Runs(Stage) /\ run.result = "none" /\ current # NoManifest
      /\ run \in Positions /\ current.state = "Applying" /\ current.intended = Intended
      /\ plan.kind \in {"raw", "clone", "oci"}
  BY <1>1, StageNumber, SourceTyped DEF Placed, ForwardPcs, EngineTypeOK, External
<1>4. PICK p \in {"committing", "finishSource", "stopped"} :
        /\ SamePlace(run', run) /\ run'.pc = p
        /\ run'.result = IF p = "stopped" THEN "cancelled" ELSE "none"
        /\ p = "finishSource" => plan.kind \in {"clone", "oci"}
  <2>1. CASE Cancelled
    BY <1>3, <2>1, StoppedType DEF ObtainImage, Results
  <2>2. CASE ~ Cancelled /\ plan.kind = "raw"
    BY <1>3, <2>2, GotoType DEF ObtainImage, Pcs
  <2>3. CASE ~ Cancelled /\ plan.kind # "raw"
    BY <1>3, <2>3, GotoType DEF ObtainImage, Pcs
  <2> QED
    BY <2>1, <2>2, <2>3
<1>5. /\ Stage' = Stage /\ Runs(Stage)' /\ Intended' = Intended /\ Base' = Base
      /\ \A x : StageOf(x)' = StageOf(x)
  BY <1>1, <1>3, <1>4, SameStage, SamePlan DEF SamePlace
<1>6. /\ "ExternalImage" \in DeployedResources /\ "NspawnConfig" \in DeployedResources
      /\ "Created" \in Dispositions /\ "Created" \in Owned
      /\ Base = "ExternalImage" /\ StageOf("ExternalImage") = 3
  BY <1>1 DEF DeployedResources, Removable, Dispositions, Owned, Base, StageOf
<1>7. /\ report' \in Reports /\ report'.ledger = [report.ledger EXCEPT !["ExternalImage"] = "Created"]
      /\ report'.extBlocked = report.extBlocked /\ report'.storageBlocked = report.storageBlocked
  BY <1>2, <1>6, RecordType DEF EngineTypeOK
<1>8. /\ \A x \in DeployedResources : x # "ExternalImage" => report'.ledger[x] = report.ledger[x]
      /\ report'.ledger["ExternalImage"] = "Created"
  BY <1>6, <1>7 DEF EngineTypeOK, Reports
<1>9. /\ host' \in [DeployedResources -> Presence]
      /\ host'["ExternalImage"] = "ours"
      /\ host'["NspawnConfig"] = (IF copied THEN "ours" ELSE host["NspawnConfig"])
      /\ \A x \in DeployedResources :
            x \notin {"ExternalImage", "NspawnConfig"} => host'[x] = host[x]
  <2>1. host' \in [DeployedResources -> Presence]
    BY <1>2, Zenon DEF EngineTypeOK, Presence
  <2>2. host'["ExternalImage"] = "ours"
    BY <1>2, <1>6 DEF EngineTypeOK
  <2>3. host'["NspawnConfig"] = (IF copied THEN "ours" ELSE host["NspawnConfig"])
    BY <1>2, <1>6 DEF EngineTypeOK
  <2> QED
    BY <1>2, <2>1, <2>2, <2>3 DEF EngineTypeOK
<1>10. EngineTypeOK'
  <2>1. \A x \in InRootfs \cup Mounts : x \in DeployedResources \ {"ExternalImage", "NspawnConfig"}
    BY DEF DeployedResources, InRootfs, Mounts
  <2> QED
    BY <1>1, <1>4, <1>7, <1>9, <2>1 DEF EngineTypeOK, SamePlace
<1>11. Placed'
  BY <1>1, <1>3, <1>4, <1>5 DEF Placed, ForwardPcs, RollbackPcs, SamePlace
<1>12. Fresh'
  <2>1. run'.stage = 3 /\ run'.pc \in {"committing", "finishSource", "stopped"}
    BY <1>3, <1>4 DEF SamePlace
  <2> SUFFICES ASSUME NEW x \in DeployedResources, report'.ledger[x] # "None", run'.pc # "stopped"
               PROVE  StageOf(x) < 3 \/ (StageOf(x) = 3 /\ run'.pc = "committing") \/ x = "ExternalImage"
    BY <1>5, <1>6, <2>1 DEF Fresh, ForwardPcs
  <2> QED
    BY <1>1, <1>3, <1>8 DEF Fresh, ForwardPcs
<1>13. Housed'
  BY <1>5, <1>6, <1>9 DEF Housed
<1>14. Accounted'
  <2> SUFFICES ASSUME NEW x \in DeployedResources, host'[x] = "ours"
               PROVE  \/ report'.ledger[x] \in Owned \cup {"OutcomeUnknown"}
                      \/ plan.kind = "clone" /\ x = "NspawnConfig"
    BY <1>1, <1>9 DEF Accounted, Tracks
  <2>1. CASE x = "ExternalImage"
    BY <1>6, <1>8, <2>1
  <2>2. CASE x # "ExternalImage"
    BY <1>1, <1>2, <1>8, <1>9, <2>2 DEF Accounted, Tracks
  <2> QED
    BY <2>1, <2>2
<1>15. MountsGuarded'
  <2>1. host'["StorageMount"] = host["StorageMount"]
        /\ host'["RawConfigurationMount"] = host["RawConfigurationMount"]
    BY <1>9 DEF DeployedResources, Mounts
  <2> QED
    BY <1>1, <1>4, <1>7, <2>1
       DEF MountsGuarded, SamePlace, UnmountPcs, AfterPcs, RollbackPcs
<1>16. Spared'
  <2>1. \A x \in DeployedResources :
            report'.ledger[x] = "PreExisting" => host'[x] \notin {"absent", "ours"}
    BY <1>2, <1>8, <1>9 DEF Spared
  <2> QED
    BY <1>4, <1>7, <1>8, <2>1 DEF Spared, RollbackPcs
<1>17. RolledBack' /\ ReleasedIsClean'
  BY <1>1, <1>4 DEF RolledBack, RollbackPcs, ReleasedIsClean
<1> QED
  BY <1>10, <1>11, <1>12, <1>13, <1>14, <1>15, <1>16, <1>17

\* A step touches what its stage announced.
LEMMA TouchableIntended ==
    ASSUME EngineInv, run.pc \in {"effect", "finishSource"}
    PROVE  /\ Touchable \subseteq Intended /\ Intended \subseteq DeployedResources
           /\ Stage = "source" => Touchable \cap (InRootfs \cup Mounts) = {}
<1>1. /\ run.stage # 0 /\ Runs(Stage)
      /\ run.pc = "finishSource" => Stage = "source" /\ plan.kind \in {"clone", "oci"}
  BY DEF EngineInv, Placed, ForwardPcs
<1>2. Intended \subseteq DeployedResources
  BY <1>1, IntendedTyped DEF EngineInv
<1>3. Touchable \subseteq Intended
  <2>1. CASE run.pc = "finishSource" /\ plan.kind = "oci"
    BY <1>1, <2>1 DEF Touchable, Intended, SourceResources
  <2>2. CASE run.pc = "finishSource" /\ plan.kind = "clone"
    BY <1>1, <2>2 DEF Touchable, Intended, SourceResources
  <2>3. CASE run.pc = "effect" /\ Stage = "source" /\ plan.kind = "oci"
    BY <2>3 DEF Touchable, Intended, SourceResources
  <2>4. CASE run.pc = "effect" /\ Stage = "source" /\ plan.kind = "clone"
    BY <2>4 DEF Touchable, Intended, SourceResources
  <2>5. CASE run.pc = "effect" /\ ~ (Stage = "source" /\ plan.kind \in {"clone", "oci"})
    BY <2>5 DEF Touchable
  <2> QED
    BY <1>1, <2>1, <2>2, <2>3, <2>4, <2>5
<1>4. Stage = "source" => Intended \cap (InRootfs \cup Mounts) = {}
  <2>1. plan.kind \in {"rootfs", "raw", "clone", "oci"}
    BY SourceTyped DEF EngineInv, EngineTypeOK
  <2> QED
    BY <2>1 DEF Intended, SourceResources, InRootfs, Mounts
<1> QED
  BY <1>2, <1>3, <1>4

\* A step that has not recorded a file yet has not found it there.
LEMMA TouchableIsNew ==
    ASSUME EngineInv, run.pc \in {"effect", "finishSource"}, NEW r \in Touchable
    PROVE  report.ledger[r] # "PreExisting"
<1> USE DEF EngineInv
<1>1. r \in Intended /\ r \in DeployedResources
  BY TouchableIntended
<1>2. run.stage # 0 /\ Runs(Stage) /\ run \in Positions
  BY DEF Placed, ForwardPcs, EngineTypeOK
<1> SUFFICES ASSUME r \in {"NvidiaState", "NspawnConfig", "SystemdOverride"}
             PROVE  report.ledger[r] # "PreExisting"
  BY <1>1 DEF Spared
<1>3. CASE Stage # "source"
  <2>1. r = Target[Stage]
    BY <1>1, <1>3 DEF Intended
  <2> QED
    BY <1>1, <1>2, <1>3, <2>1, TargetOfStage, NotYet
<1>4. CASE Stage = "source"
  <2>1. r \in SourceResources /\ run.stage = 3
    BY <1>1, <1>2, <1>4, StageNumber DEF Intended
  <2>2. plan.kind \in {"clone", "oci"}
    BY <2>1, SourceTyped DEF SourceResources, EngineTypeOK
  <2>3. StageOf(r) = 3
    BY <2>1, <2>2 DEF StageOf, PostConfig, SourceResources
  <2> QED
    BY <1>1, <2>1, <2>3, NotYet
<1> QED
  BY <1>3, <1>4

LEMMA StageFailsKeeps ==
    ASSUME EngineInv, engineOutcome = "none", StageFails
    PROVE  EngineInv'
<1> USE DEF EngineInv
<1>1. /\ run.pc \in {"effect", "finishSource"}
      /\ UNCHANGED <<plan, report, current, manifestFile, cancel, engineOutcome>>
      /\ run.stage # 0 /\ Runs(Stage) /\ current # NoManifest
      /\ current.state = "Applying" /\ current.intended = Intended
  BY DEF StageFails, EffectKeeps, Placed, ForwardPcs
<1>2. PICK touched \in SUBSET Touchable :
          host' = [r \in DeployedResources |-> IF r \in touched THEN "ours" ELSE host[r]]
  BY DEF StageFails
<1>3. PICK result \in Failures : run' = Stopped(result)
  BY DEF StageFails
<1>4. result \in {"failed", "timedOut", "cancelled", "unknown"}
  BY DEF Failures, HostError
<1>5. SamePlace(run', run) /\ run'.pc = "stopped" /\ run'.result = result
  BY <1>3, <1>4, StoppedType DEF EngineTypeOK, Results
<1>6. /\ touched \subseteq Intended /\ Intended \subseteq DeployedResources
      /\ Stage = "source" => touched \cap (InRootfs \cup Mounts) = {}
  BY <1>1, TouchableIntended
<1>7. /\ host' \in [DeployedResources -> Presence]
      /\ \A x \in DeployedResources : host'[x] = IF x \in touched THEN "ours" ELSE host[x]
      /\ \A x \in touched : x \in DeployedResources
  BY <1>2, <1>6 DEF EngineTypeOK, Presence
<1>8. EngineTypeOK'
  <2>1. InRootfs \cup Mounts \subseteq DeployedResources
    BY DEF DeployedResources
  <2>2. \A r \in InRootfs \cup Mounts : host'[r] \in {"absent", "ours"}
    BY <1>7, <2>1 DEF EngineTypeOK
  <2> QED
    BY <1>1, <1>5, <1>7, <2>2 DEF EngineTypeOK, SamePlace
<1>9. Placed'
  BY <1>1, <1>4, <1>5 DEF Placed, ForwardPcs, RollbackPcs
<1>10. Fresh' /\ RolledBack' /\ ReleasedIsClean'
  BY <1>1, <1>5 DEF Fresh, RolledBack, ForwardPcs, RollbackPcs, ReleasedIsClean
<1>11. Housed'
  <2>1. Base \in DeployedResources /\ InRootfs \cup Mounts \subseteq DeployedResources
    BY DEF Base, DeployedResources, Removable
  <2>2. ASSUME NEW r \in InRootfs \cup Mounts, host'[r] = "ours"
        PROVE  host'[Base] = "ours"
    <3>1. CASE r \notin touched
      BY <1>7, <2>1, <2>2, <3>1 DEF Housed
    <3>2. CASE r \in touched
      <4>1. Stage # "source" /\ Target[Stage] = r
        BY <1>6, <3>2 DEF Intended
      <4>2. run.stage # StageOf(Base)
        <5>1. run.stage # 1
          BY <1>1, <4>1, StageNumber, TargetValues DEF InRootfs, Mounts, EngineTypeOK
        <5>2. run.stage # 3
          BY <1>1, <4>1, StageNumber DEF EngineTypeOK
        <5> QED
          BY <5>1, <5>2 DEF Base, StageOf
      <4>3. host[Base] = "ours"
        BY <1>1, <4>2, BaseIsThere DEF ForwardPcs
      <4> QED
        BY <1>7, <2>1, <4>3
    <3> QED
      BY <3>1, <3>2
  <2> QED
    BY <1>1, <1>5, <2>2, SamePlan DEF Housed, ForwardPcs
<1>12. Accounted'
  <2>1. Announced' = Intended
    BY <1>1 DEF Announced
  <2>2. "ExternalImage" \in DeployedResources
    BY DEF DeployedResources, Removable
  <2> QED
    BY <1>1, <1>4, <1>5, <1>6, <1>7, <2>1, <2>2 DEF Accounted, Tracks
<1>13. MountsGuarded'
  <2>1. Mounts \subseteq DeployedResources
    BY DEF DeployedResources
  <2>2. host'["StorageMount"] = "ours" => run.mountAttempted
    <3>1. CASE "StorageMount" \notin touched
      BY <1>7, <2>1, <3>1 DEF MountsGuarded, Mounts
    <3>2. CASE "StorageMount" \in touched
      <4>1. Stage # "source" /\ Target[Stage] = "StorageMount"
        BY <1>6, <3>2 DEF Intended, Mounts
      <4>2. Stage = "mount" /\ run.pc = "effect"
        <5>1. run.stage \in 1 .. 11 /\ run \in Positions
          BY <1>1, StageNumber DEF EngineTypeOK
        <5>2. Stage = "mount"
          BY <1>1, <4>1, <5>1, StageNumber, TargetValues
        <5> QED
          BY <1>1, <5>2 DEF Placed
      <4> QED
        BY <4>2 DEF MountsGuarded
    <3> QED
      BY <3>1, <3>2
  <2>3. host'["RawConfigurationMount"] = "ours" =>
            report.storageBlocked \/ run.rawMounted \/ "RawConfigurationMount" \in Unclassified'
    <3>1. CASE "RawConfigurationMount" \notin touched
      BY <1>1, <1>7, <2>1, <3>1 DEF MountsGuarded, Mounts
    <3>2. CASE "RawConfigurationMount" \in touched
      <4>1. Stage # "source" /\ Target[Stage] = "RawConfigurationMount"
        BY <1>6, <3>2 DEF Intended, Mounts
      <4>2. StageOf("RawConfigurationMount") = run.stage
        BY <1>1, <4>1, TargetOfStage DEF EngineTypeOK
      <4>3. report.ledger["RawConfigurationMount"] = "None"
        BY <1>1, <1>6, <3>2, <4>2, NotYet
      <4> QED
        BY <1>1, <1>6, <3>2, <4>3 DEF Unclassified, Announced
    <3> QED
      BY <3>1, <3>2
  <2> QED
    BY <1>1, <1>4, <1>5, <2>2, <2>3, Zenon
       DEF MountsGuarded, SamePlace, UnmountPcs, AfterPcs, RollbackPcs
<1>14. Spared'
  <2>1. \A r \in touched : report.ledger[r] # "PreExisting"
    BY <1>1, TouchableIsNew
  <2> QED
    BY <1>1, <1>5, <1>7, <2>1 DEF Spared, RollbackPcs
<1> QED
  BY <1>8, <1>9, <1>10, <1>11, <1>12, <1>13, <1>14

-----------------------------------------------------------------------------
(* After the pipeline. *)

LEMMA CaptureKeeps ==
    ASSUME EngineInv, engineOutcome = "none", Capture
    PROVE  EngineInv'
<1> USE DEF EngineInv
<1>1. /\ run.pc = "stopped" /\ UNCHANGED <<plan, current, manifestFile, host, cancel, engineOutcome>>
      /\ report' = IF run.result = "ok" THEN report ELSE Captured
      /\ run.result # "none" /\ current # NoManifest
  BY DEF Capture, Placed, ForwardPcs
<1>2. /\ report' \in Reports /\ report'.extBlocked = report.extBlocked
      /\ report.storageBlocked => report'.storageBlocked
      /\ run.result # "ok" /\ "RawConfigurationMount" \in Unclassified => report'.storageBlocked
      /\ \A r \in DeployedResources :
            report'.ledger[r] = IF run.result # "ok" /\ r \in Unclassified THEN "OutcomeUnknown"
                                ELSE report.ledger[r]
  <2>1. CASE run.result = "ok"
    BY <1>1, <2>1 DEF EngineTypeOK
  <2>2. CASE run.result # "ok"
    <3>1. PICK l \in [DeployedResources -> Dispositions] :
            l = [r \in DeployedResources |->
                    IF r \in Unclassified THEN "OutcomeUnknown" ELSE report.ledger[r]]
      BY Zenon DEF EngineTypeOK, Reports, Dispositions
    <3>2. PICK b \in BOOLEAN : b = (report.storageBlocked \/ "RawConfigurationMount" \in Unclassified)
      BY Zenon
    <3>3. report' = [report EXCEPT !.ledger = l, !.storageBlocked = b]
      BY <1>1, <2>2, <3>1, <3>2 DEF Captured, EngineTypeOK, Reports
    <3>4. report' \in Reports /\ report'.ledger = l /\ report'.storageBlocked = b
          /\ report'.extBlocked = report.extBlocked
      BY <3>3, Zenon DEF EngineTypeOK, Reports
    <3> QED
      BY <2>2, <3>1, <3>2, <3>4, Zenon
  <2> QED
    BY <2>1, <2>2
<1>3. /\ run' \in Positions /\ run'.pc \in {"preserve", "unmountApplying"} /\ run'.result = run.result
      /\ run'.pc = "preserve" <=> run.result = "unknown"
      /\ run'.pc = "unmountApplying" => run'.mount = "RawConfigurationMount"
      /\ run'.mountAttempted = run.mountAttempted /\ run'.rawMounted = run.rawMounted
  <2>1. CASE run.result = "unknown"
    BY <2>1, GotoType DEF Capture, EngineTypeOK, Pcs, SamePlace
  <2>2. CASE run.result # "unknown"
    <3> DEFINE g == Goto("unmountApplying")
    <3>1. SamePlace(g, run) /\ g.pc = "unmountApplying" /\ g.result = run.result
      BY GotoType DEF EngineTypeOK, Pcs
    <3>2. run' = [g EXCEPT !.mount = "RawConfigurationMount"]
      BY <2>2 DEF Capture
    <3> HIDE DEF g
    <3> QED
      BY <2>2, <3>1, <3>2 DEF SamePlace, Positions, Mounts
  <2> QED
    BY <2>1, <2>2
<1>4. EngineTypeOK'
  BY <1>1, <1>2, <1>3 DEF EngineTypeOK
<1>5. Placed'
  BY <1>1, <1>3 DEF Placed, ForwardPcs, RollbackPcs
<1>6. Fresh' /\ RolledBack' /\ ReleasedIsClean'
  BY <1>1, <1>3 DEF Fresh, RolledBack, ReleasedIsClean, ForwardPcs, RollbackPcs
<1>7. Housed'
  BY <1>1, <1>3, SamePlan DEF Housed, ForwardPcs
<1>8. Accounted'
  <2> SUFFICES ASSUME NEW r \in DeployedResources, host[r] = "ours"
               PROVE  \/ report'.ledger[r] \in Owned \cup {"OutcomeUnknown"}
                      \/ plan.kind = "clone" /\ r = "NspawnConfig" /\ host["ExternalImage"] = "ours"
    BY <1>1 DEF Accounted, Tracks
  <2>1. CASE Tracks(r)
    BY <1>2, <2>1 DEF Tracks
  <2>2. CASE run.result # "ok" /\ r \in Announced /\ ~ Tracks(r)
    <3>1. report.ledger[r] # "PreExisting"
      BY DEF Spared
    <3>2. report.ledger[r] = "None"
      BY <2>2, <3>1 DEF Tracks, EngineTypeOK, Reports, Dispositions
    <3> QED
      BY <1>2, <2>2, <3>2 DEF Unclassified
  <2> QED
    BY <1>1, <2>1, <2>2 DEF Accounted
<1>9. MountsGuarded'
  BY <1>1, <1>2, <1>3 DEF MountsGuarded, UnmountPcs, AfterPcs, RollbackPcs
<1>10. Spared'
  BY <1>1, <1>2, <1>3 DEF Spared, RollbackPcs
<1> QED
  BY <1>4, <1>5, <1>6, <1>7, <1>8, <1>9, <1>10

\* The executor returns.
LEMMA ReturningKeeps ==
    ASSUME EngineInv, engineOutcome = "none", run.pc \in {"preserve", "pending", "finishing"},
           UNCHANGED <<plan, report, host, cancel>>, run' = Goto("done"),
           current' \in CrashManifests \cup {NoManifest},
           manifestFile' \in CrashManifests \cup {NoManifest},
           engineOutcome' \in {"succeeded", "failed", "cancelled", "reconcile"},
           ReleasedIsClean'
    PROVE  EngineInv'
<1> USE DEF EngineInv
<1>1. SamePlace(run', run) /\ run'.pc = "done" /\ run'.result = run.result
  BY GotoType DEF EngineTypeOK, Pcs
<1>2. EngineTypeOK'
  BY <1>1 DEF EngineTypeOK, SamePlace
<1>3. Placed'
  BY <1>1 DEF Placed, ForwardPcs, RollbackPcs
<1>4. Fresh' /\ RolledBack'
  BY <1>1 DEF Fresh, RolledBack, ForwardPcs, RollbackPcs
<1>5. Housed'
  BY <1>1, SamePlan, Zenon DEF Housed, ForwardPcs
<1>6. Accounted'
  BY DEF Accounted, Tracks
<1>7. MountsGuarded'
  BY <1>1, Zenon DEF MountsGuarded, SamePlace, UnmountPcs, AfterPcs, RollbackPcs
<1>8. Spared'
  BY <1>1, Zenon DEF Spared, RollbackPcs
<1> QED
  BY <1>2, <1>3, <1>4, <1>5, <1>6, <1>7, <1>8

LEMMA PreservingKeeps ==
    ASSUME EngineInv, engineOutcome = "none", Preserve \/ PersistPending
    PROVE  EngineInv'
<1>1. /\ run.pc \in {"preserve", "pending"} /\ run' = Goto("done") /\ engineOutcome' = "reconcile"
      /\ UNCHANGED <<plan, report, host, cancel>>
  BY DEF Preserve, PersistPending
<1>2. PICK ok \in BOOLEAN : Persist(ok, "CleanupPending", {})
  BY DEF Preserve, PersistPending
<1>3. current # NoManifest /\ EngineTypeOK
  BY <1>1 DEF EngineInv, Placed
<1>4. current' \in CrashManifests /\ manifestFile' \in CrashManifests \cup {NoManifest}
  BY <1>2, <1>3, PersistType DEF States
<1>5. ReleasedIsClean'
  BY <1>1 DEF ReleasedIsClean
<1> QED
  BY <1>1, <1>4, <1>5, ReturningKeeps

LEMMA EngineFinishKeeps ==
    ASSUME EngineInv, engineOutcome = "none", EngineFinish
    PROVE  EngineInv'
<1> USE DEF EngineInv
<1>1. /\ run.pc = "finishing" /\ UNCHANGED <<plan, report, current, host, cancel>>
      /\ run' = Goto("done") /\ current \in CrashManifests \cup {NoManifest}
      /\ manifestFile' \in {manifestFile, NoManifest}
      /\ \/ engineOutcome' = "reconcile"
         \/ engineOutcome' = Reported(run.result) /\ manifestFile' = NoManifest
  BY DEF EngineFinish, EngineTypeOK
<1>2. run.result \in {"ok", "failed", "timedOut", "cancelled"}
  BY <1>1 DEF Placed, ForwardPcs, EngineTypeOK, Positions
<1>3. /\ engineOutcome' \in {"succeeded", "failed", "cancelled", "reconcile"}
      /\ engineOutcome' = "succeeded" => run.result = "ok" /\ manifestFile' = NoManifest
      /\ engineOutcome' \in {"failed", "cancelled"} => run.result # "ok" /\ manifestFile' = NoManifest
  BY <1>1, <1>2 DEF Reported
<1>4. ReleasedIsClean'
  BY <1>1, <1>3 DEF ReleasedIsClean, RolledBack, Placed
<1> QED
  BY <1>1, <1>3, <1>4, ReturningKeeps DEF EngineTypeOK

-----------------------------------------------------------------------------
(* Unmounting. *)

\* The step after a mount: the next one, or the decision.
MovesOn(q) ==
    /\ q \in Positions /\ q.result = run.result
    /\ q.mountAttempted = run.mountAttempted /\ q.rawMounted = run.rawMounted
    /\ run.mount = "RawConfigurationMount" => q.pc = "unmountApplying" /\ q.mount = "StorageMount"
    /\ run.mount = "StorageMount" => q.pc = "decide"

LEMMA AfterMountType ==
    ASSUME run \in Positions,
           NEW q \in Positions, q.result = run.result, q.mountAttempted = run.mountAttempted,
           q.rawMounted = run.rawMounted
    PROVE  MovesOn(AfterMount(q))
<1>1. CASE run.mount = "RawConfigurationMount"
  <2>1. AfterMount(q) = [q EXCEPT !.pc = "unmountApplying", !.mount = "StorageMount"]
    BY <1>1 DEF AfterMount
  <2>2. "StorageMount" \in Mounts
    BY DEF Mounts
  <2>3. /\ AfterMount(q) \in Positions /\ AfterMount(q).pc = "unmountApplying"
        /\ AfterMount(q).mount = "StorageMount"
        /\ AfterMount(q).result = q.result /\ AfterMount(q).mountAttempted = q.mountAttempted
        /\ AfterMount(q).rawMounted = q.rawMounted
    BY <2>1, <2>2, Zenon DEF Positions
  <2> QED
    BY <1>1, <2>3, Zenon DEF MovesOn
<1>2. CASE run.mount # "RawConfigurationMount"
  <2>1. AfterMount(q) = [q EXCEPT !.pc = "decide"]
    BY <1>2 DEF AfterMount
  <2>2. /\ AfterMount(q) \in Positions /\ AfterMount(q).pc = "decide"
        /\ AfterMount(q).result = q.result /\ AfterMount(q).mountAttempted = q.mountAttempted
        /\ AfterMount(q).rawMounted = q.rawMounted
    BY <2>1, Zenon DEF Positions
  <2> QED
    BY <1>2, <2>2, Zenon DEF MovesOn
<1> QED
  BY <1>1, <1>2

LEMMA MoveTypes ==
    ASSUME run \in Positions
    PROVE  /\ MovesOn(AfterMount(run))
           /\ MovesOn(AfterMount([run EXCEPT !.errors = TRUE]))
           /\ MovesOn(AfterMount([run EXCEPT !.errors = TRUE, !.durableFailed = TRUE]))
<1>1. MovesOn(AfterMount(run))
  BY AfterMountType
<1>2. MovesOn(AfterMount([run EXCEPT !.errors = TRUE]))
  <2> DEFINE q == [run EXCEPT !.errors = TRUE]
  <2>1. /\ q \in Positions /\ q.result = run.result /\ q.mountAttempted = run.mountAttempted
        /\ q.rawMounted = run.rawMounted
    BY Zenon DEF Positions
  <2> HIDE DEF q
  <2>2. MovesOn(AfterMount(q))
    BY <2>1, AfterMountType
  <2> QED
    BY <2>2 DEF q
<1>3. MovesOn(AfterMount([run EXCEPT !.errors = TRUE, !.durableFailed = TRUE]))
  <2> DEFINE q == [run EXCEPT !.errors = TRUE, !.durableFailed = TRUE]
  <2>1. /\ q \in Positions /\ q.result = run.result /\ q.mountAttempted = run.mountAttempted
        /\ q.rawMounted = run.rawMounted
    BY Zenon DEF Positions
  <2> HIDE DEF q
  <2>2. MovesOn(AfterMount(q))
    BY <2>1, AfterMountType
  <2> QED
    BY <2>2 DEF q
<1> QED
  BY <1>1, <1>2, <1>3

LEMMA MountKeptType ==
    ASSUME EngineTypeOK
    PROVE  /\ MountKept \in Reports
           /\ MountKept.ledger = [report.ledger EXCEPT ![run.mount] = "CleanupPending"]
           /\ MountKept.extBlocked = report.extBlocked /\ MountKept.storageBlocked = TRUE
<1> DEFINE q == RecordIn(report, run.mount, "CleanupPending")
<1>1. /\ run.mount \in DeployedResources /\ "CleanupPending" \in Dispositions /\ report \in Reports
  BY DEF EngineTypeOK, Positions, DeployedResources, Dispositions, Owned
<1>2. /\ q \in Reports /\ q.ledger = [report.ledger EXCEPT ![run.mount] = "CleanupPending"]
      /\ q.extBlocked = report.extBlocked
  BY <1>1, RecordType
<1>3. MountKept = [q EXCEPT !.storageBlocked = TRUE]
  BY DEF MountKept
<1> HIDE DEF q
<1> QED
  BY <1>2, <1>3, Zenon DEF Reports

\* One step of taking a mount down.  Whoever goes on to the next mount has
\* taken this one down or protects the storage.
LEMMA UnmountingKeeps ==
    ASSUME EngineInv, engineOutcome = "none", run.pc \in UnmountPcs,
           UNCHANGED <<plan, cancel, engineOutcome>>,
           current' \in CrashManifests, current' # NoManifest,
           manifestFile' \in CrashManifests \cup {NoManifest},
           \/ SamePlace(run', run) /\ run'.result = run.result
              /\ run'.pc \in {"unmount", "unmountCommitting"}
           \/ MovesOn(run') /\ (report'.storageBlocked \/ host'[run.mount] # "ours"),
           run'.pc = "unmountCommitting" => host'[run.mount] = "absent",
           host' \in {host, [host EXCEPT ![run.mount] = "absent"]},
           report' \in Reports, report'.extBlocked = report.extBlocked,
           report.storageBlocked => report'.storageBlocked,
           \/ report'.ledger = report.ledger
           \/ report'.ledger = [report.ledger EXCEPT ![run.mount] = "CleanupPending"]
           \/ report'.ledger = Without(report.ledger, {run.mount}) /\ host'[run.mount] = "absent"
    PROVE  EngineInv'
<1> USE DEF EngineInv
<1> DEFINE m == run.mount
<1>1. m \in Mounts /\ Mounts \subseteq DeployedResources /\ run.result # "none"
      /\ run.result # "unknown" /\ run' \in Positions
  BY Zenon DEF EngineTypeOK, Positions, DeployedResources, Placed, UnmountPcs, ForwardPcs, SamePlace, MovesOn
<1>2. /\ host' \in [DeployedResources -> Presence]
      /\ \A x \in DeployedResources : x # m => host'[x] = host[x]
      /\ host'[m] \in {host[m], "absent"}
  BY <1>1, Zenon DEF EngineTypeOK, Presence
<1>3. /\ \A x \in DeployedResources : x # m => report'.ledger[x] = report.ledger[x]
      /\ \/ report'.ledger[m] \in {report.ledger[m], "CleanupPending"}
         \/ report'.ledger[m] = "None" /\ host'[m] = "absent"
  <2>1. m \in DeployedResources /\ DOMAIN report.ledger = DeployedResources
    BY <1>1 DEF EngineTypeOK, Reports
  <2>2. CASE report'.ledger = report.ledger
    BY <2>2
  <2>3. CASE report'.ledger = [report.ledger EXCEPT ![m] = "CleanupPending"]
    BY <2>1, <2>3, Zenon
  <2>4. CASE report'.ledger = Without(report.ledger, {m}) /\ host'[m] = "absent"
    BY <2>1, <2>4, Zenon DEF Without
  <2> QED
    BY <2>2, <2>3, <2>4, Zenon
<1>4. /\ run'.pc \in UnmountPcs \cup {"decide"} /\ run'.result = run.result
      /\ run'.mountAttempted = run.mountAttempted /\ run'.rawMounted = run.rawMounted
  <2>1. CASE /\ SamePlace(run', run) /\ run'.result = run.result
             /\ run'.pc \in {"unmount", "unmountCommitting"}
    BY <2>1 DEF SamePlace, UnmountPcs
  <2>2. CASE MovesOn(run')
    BY <1>1, <2>2 DEF MovesOn, UnmountPcs, Mounts
  <2> QED
    BY <2>1, <2>2
<1>5. EngineTypeOK'
  <2>1. \A r \in InRootfs \cup Mounts : host'[r] \in {"absent", "ours"}
    BY <1>1, <1>2 DEF EngineTypeOK, DeployedResources
  <2> QED
    BY <1>1, <1>2, <2>1 DEF EngineTypeOK
<1>6. Placed'
  BY <1>1, <1>4, Zenon DEF Placed, ForwardPcs, RollbackPcs, UnmountPcs
<1>7. Fresh' /\ RolledBack' /\ ReleasedIsClean'
  BY <1>4, Zenon DEF Fresh, RolledBack, ReleasedIsClean, ForwardPcs, RollbackPcs, UnmountPcs
<1>8. Housed'
  <2>1. Base \in DeployedResources /\ Base # m /\ InRootfs \cup Mounts \subseteq DeployedResources
    BY <1>1, Zenon DEF Base, DeployedResources, Removable, Mounts
  <2> QED
    BY <1>2, <1>4, <2>1, SamePlan, Zenon DEF Housed, ForwardPcs, UnmountPcs
<1>9. Accounted'
  <2>1. "CleanupPending" \in Owned /\ "ExternalImage" \in DeployedResources /\ "ExternalImage" # m
    BY <1>1 DEF Owned, DeployedResources, Removable, Mounts
  <2> SUFFICES ASSUME NEW r \in DeployedResources, host'[r] = "ours"
               PROVE  \/ report'.ledger[r] \in Owned \cup {"OutcomeUnknown"}
                      \/ plan.kind = "clone" /\ r = "NspawnConfig" /\ host["ExternalImage"] = "ours"
    BY <1>2, <2>1, Zenon DEF Accounted, Tracks
  <2>2. host[r] = "ours"
    BY <1>2, Zenon
  <2>3. \/ report.ledger[r] \in Owned \cup {"OutcomeUnknown"}
        \/ plan.kind = "clone" /\ r = "NspawnConfig" /\ host["ExternalImage"] = "ours"
    BY <2>2 DEF Accounted, Tracks, UnmountPcs
  <2> QED
    BY <1>3, <2>1, <2>3, Zenon
<1>10. MountsGuarded'
  <2>1. \A r \in Mounts : host'[r] = "ours" => host[r] = "ours"
    BY <1>1, <1>2
  <2>2. run'.pc = "decide" /\ host'["StorageMount"] = "ours" => report'.storageBlocked
    BY <1>1 DEF SamePlace, MovesOn, Mounts
  <2>3. host'["RawConfigurationMount"] = "ours" =>
          \/ report'.storageBlocked
          \/ run.rawMounted /\ run'.pc \in UnmountPcs /\ run'.mount = "RawConfigurationMount"
    <3> SUFFICES ASSUME host'["RawConfigurationMount"] = "ours", ~ report'.storageBlocked
                 PROVE  run.rawMounted /\ run'.pc \in UnmountPcs /\ run'.mount = "RawConfigurationMount"
      OBVIOUS
    <3>1. run.rawMounted /\ m = "RawConfigurationMount"
      BY <2>1 DEF MountsGuarded, UnmountPcs, Mounts
    <3> QED
      BY <3>1, Zenon DEF SamePlace, MovesOn, UnmountPcs
  <2>4. run'.pc = "unmountCommitting" => host'[run'.mount] = "absent"
    BY <1>1 DEF SamePlace, MovesOn, Mounts
  <2> QED
    BY <1>4, <2>1, <2>2, <2>3, <2>4, Zenon
       DEF MountsGuarded, UnmountPcs, AfterPcs, RollbackPcs, Mounts
<1>11. Spared'
  <2>1. m \notin {"NvidiaState", "NspawnConfig", "SystemdOverride"}
    BY <1>1 DEF Mounts
  <2>2. report.ledger[m] # "PreExisting"
    BY <1>1, <2>1, Zenon DEF Spared
  <2> QED
    BY <1>1, <1>2, <1>3, <1>4, <2>1, <2>2, Zenon DEF Spared, RollbackPcs, UnmountPcs
<1> QED
  BY <1>5, <1>6, <1>7, <1>8, <1>9, <1>10, <1>11

LEMMA SkipUnmountKeeps ==
    ASSUME EngineInv, engineOutcome = "none", SkipUnmount
    PROVE  EngineInv'
<1> USE DEF EngineInv
<1>1. /\ run.pc = "unmountApplying" /\ UNCHANGED <<plan, current, manifestFile, host, cancel, engineOutcome>>
      /\ run \in Positions /\ run.mount \in Mounts
      /\ current \in CrashManifests /\ current # NoManifest
      /\ manifestFile \in CrashManifests \cup {NoManifest}
  BY DEF SkipUnmount, EngineTypeOK, Placed, Positions
<1>2. CASE ~ NeedsUnmount /\ run' = AfterMount(run) /\ UNCHANGED report
  <2>1. MovesOn(run')
    BY <1>1, <1>2, MoveTypes
  <2>2. report.storageBlocked \/ host[run.mount] # "ours"
    BY <1>1, <1>2 DEF NeedsUnmount, MountsGuarded, Mounts
  <2>3. run'.pc # "unmountCommitting"
    BY <1>1, <2>1 DEF MovesOn, Mounts
  <2> QED
    BY <1>1, <1>2, <2>1, <2>2, <2>3, UnmountingKeeps, Zenon DEF UnmountPcs, EngineTypeOK
<1>3. CASE /\ run' = AfterMount([run EXCEPT !.errors = TRUE])
           /\ report' = MountKept
  <2>1. MovesOn(run')
    BY <1>1, <1>3, MoveTypes
  <2>2. /\ report' \in Reports /\ report'.extBlocked = report.extBlocked /\ report'.storageBlocked
        /\ report'.ledger = [report.ledger EXCEPT ![run.mount] = "CleanupPending"]
    BY <1>3, MountKeptType, Zenon
  <2>3. run'.pc # "unmountCommitting"
    BY <1>1, <2>1 DEF MovesOn, Mounts
  <2> QED
    BY <1>1, <2>1, <2>2, <2>3, UnmountingKeeps DEF UnmountPcs
<1> QED
  BY <1>2, <1>3 DEF SkipUnmount

\* A manifest write before or after an unmount.
LEMMA UnmountWriteKeeps ==
    ASSUME EngineInv, engineOutcome = "none", run.pc \in {"unmountApplying", "unmountCommitting"},
           NEW state \in States, NEW intended \in SUBSET DeployedResources, NEW ok \in BOOLEAN,
           Persist(ok, state, intended),
           UNCHANGED <<plan, host, cancel, engineOutcome>>,
           report' = IF ok THEN report ELSE MountKept,
           ok => \/ run.pc = "unmountApplying" /\ run' = Goto("unmount")
                 \/ run.pc = "unmountCommitting" /\ run' = AfterMount(run),
           ~ ok => run' = AfterMount([run EXCEPT !.errors = TRUE, !.durableFailed = TRUE])
    PROVE  EngineInv'
<1> USE DEF EngineInv
<1>1. run \in Positions /\ run.mount \in Mounts /\ current # NoManifest /\ report \in Reports
  BY DEF EngineTypeOK, Placed, Positions
<1>2. /\ current' \in CrashManifests /\ current' # NoManifest
      /\ manifestFile' \in CrashManifests \cup {NoManifest}
  BY <1>1, PersistType
<1>3. CASE ok /\ run.pc = "unmountApplying"
  <2>1. SamePlace(run', run) /\ run'.pc = "unmount" /\ run'.result = run.result
    BY <1>1, <1>3, GotoType DEF Pcs
  <2> QED
    BY <1>1, <1>2, <1>3, <2>1, UnmountingKeeps DEF UnmountPcs
<1>4. CASE ok /\ run.pc = "unmountCommitting"
  <2>1. MovesOn(run')
    BY <1>1, <1>4, MoveTypes
  <2>2. host[run.mount] = "absent"
    BY <1>4 DEF MountsGuarded
  <2>3. run'.pc # "unmountCommitting"
    BY <1>1, <2>1 DEF MovesOn, Mounts
  <2> QED
    BY <1>1, <1>2, <1>4, <2>1, <2>2, <2>3, UnmountingKeeps DEF UnmountPcs
<1>5. CASE ~ ok
  <2>1. MovesOn(run')
    BY <1>1, <1>5, MoveTypes
  <2>2. /\ report' \in Reports /\ report'.extBlocked = report.extBlocked /\ report'.storageBlocked
        /\ report'.ledger = [report.ledger EXCEPT ![run.mount] = "CleanupPending"]
    BY <1>5, MountKeptType, Zenon
  <2>3. run'.pc # "unmountCommitting"
    BY <1>1, <2>1 DEF MovesOn, Mounts
  <2> QED
    BY <1>1, <1>2, <2>1, <2>2, <2>3, UnmountingKeeps DEF UnmountPcs
<1> QED
  BY <1>3, <1>4, <1>5

LEMMA PersistUnmountingKeeps ==
    ASSUME EngineInv, engineOutcome = "none", PersistUnmounting
    PROVE  EngineInv'
<1>1. PICK ok \in BOOLEAN :
        /\ Persist(ok, "Applying", {run.mount})
        /\ run' = IF ok THEN Goto("unmount")
                  ELSE AfterMount([run EXCEPT !.errors = TRUE, !.durableFailed = TRUE])
        /\ report' = IF ok THEN report ELSE MountKept
  BY DEF PersistUnmounting
<1>2. run.pc = "unmountApplying" /\ UNCHANGED <<plan, host, cancel, engineOutcome>>
  BY DEF PersistUnmounting
<1>3. {run.mount} \in SUBSET DeployedResources /\ "Applying" \in States
  BY DEF EngineInv, EngineTypeOK, Positions, DeployedResources, States
<1> QED
  BY <1>1, <1>2, <1>3, UnmountWriteKeeps

LEMMA PersistUnmountedKeeps ==
    ASSUME EngineInv, engineOutcome = "none", PersistUnmounted
    PROVE  EngineInv'
<1>1. PICK ok \in BOOLEAN :
        /\ Persist(ok, "Committed", {})
        /\ run' = IF ok THEN AfterMount(run)
                  ELSE AfterMount([run EXCEPT !.errors = TRUE, !.durableFailed = TRUE])
        /\ report' = IF ok THEN report ELSE MountKept
  BY DEF PersistUnmounted
<1>2. run.pc = "unmountCommitting" /\ UNCHANGED <<plan, host, cancel, engineOutcome>>
  BY DEF PersistUnmounted
<1>3. {} \in SUBSET DeployedResources /\ "Committed" \in States
  BY DEF States
<1> QED
  BY <1>1, <1>2, <1>3, UnmountWriteKeeps

LEMMA UnmountKeeps ==
    ASSUME EngineInv, engineOutcome = "none", Unmount
    PROVE  EngineInv'
<1> USE DEF EngineInv
<1>1. /\ run.pc = "unmount" /\ UNCHANGED <<plan, current, manifestFile, cancel, engineOutcome>>
      /\ run \in Positions /\ run.mount \in Mounts /\ run.mount \in DeployedResources
      /\ current \in CrashManifests /\ current # NoManifest /\ report \in Reports
      /\ manifestFile \in CrashManifests \cup {NoManifest}
      /\ host \in [DeployedResources -> Presence]
  BY DEF Unmount, EngineTypeOK, Placed, Positions, DeployedResources
<1>2. CASE /\ host' = [host EXCEPT ![run.mount] = "absent"]
           /\ report' = [report EXCEPT !.ledger = Without(@, {run.mount})]
           /\ run' = Goto("unmountCommitting")
  <2>1. SamePlace(run', run) /\ run'.pc = "unmountCommitting" /\ run'.result = run.result
    BY <1>1, <1>2, GotoType DEF Pcs
  <2>2. PICK l \in [DeployedResources -> Dispositions] : l = Without(report.ledger, {run.mount})
    BY <1>1, Zenon DEF Without, Reports, Dispositions
  <2>3. report' = [report EXCEPT !.ledger = l]
    BY <1>2, <2>2
  <2>4. /\ report' \in Reports /\ report'.extBlocked = report.extBlocked
        /\ report'.storageBlocked = report.storageBlocked /\ report'.ledger = l
    BY <1>1, <2>3 DEF Reports
  <2>5. host'[run.mount] = "absent"
    BY <1>1, <1>2
  <2> QED
    BY <1>1, <1>2, <2>1, <2>2, <2>4, <2>5, UnmountingKeeps DEF UnmountPcs
<1>3. CASE /\ host' \in {host, [host EXCEPT ![run.mount] = "absent"]}
           /\ report' = MountKept
           /\ run' = AfterMount([run EXCEPT !.errors = TRUE])
  <2>1. MovesOn(run')
    BY <1>1, <1>3, MoveTypes
  <2>2. /\ report' \in Reports /\ report'.extBlocked = report.extBlocked /\ report'.storageBlocked
        /\ report'.ledger = [report.ledger EXCEPT ![run.mount] = "CleanupPending"]
    BY <1>3, MountKeptType, Zenon
  <2>3. run'.pc # "unmountCommitting"
    BY <1>1, <2>1 DEF MovesOn, Mounts
  <2> QED
    BY <1>1, <1>3, <2>1, <2>2, <2>3, UnmountingKeeps DEF UnmountPcs
<1> QED
  BY <1>2, <1>3 DEF Unmount

-----------------------------------------------------------------------------
(* Rollback. *)

LEMMA DecideKeeps ==
    ASSUME EngineInv, engineOutcome = "none", Decide
    PROVE  EngineInv'
<1> USE DEF EngineInv
<1>1. /\ run.pc = "decide" /\ UNCHANGED <<plan, report, current, manifestFile, host, cancel, engineOutcome>>
      /\ run \in Positions /\ run.result \notin {"none", "unknown"}
  BY DEF Decide, Placed, ForwardPcs, EngineTypeOK
<1>2. FinalResult \in Results \ {"none", "unknown"}
  BY <1>1 DEF FinalResult, Results, Positions
<1>3. PICK p \in {"finishing", "rollback"} :
        /\ run' \in Positions /\ run'.pc = p /\ run'.result \notin {"none", "unknown"}
        /\ run'.mountAttempted = run.mountAttempted
        /\ p = "finishing" => run'.result = "ok" /\ cancel = "no"
        /\ p = "rollback" => /\ run'.result # "ok" /\ run'.queue \subseteq OwnedIn(report.ledger)
                             /\ ~ run'.errors => run'.queue = OwnedIn(report.ledger)
  <2>1. CASE FinalResult = "ok"
    <3>1. run.result = "ok" /\ cancel = "no"
      BY <2>1 DEF FinalResult, Cancelled
    <3>2. SamePlace(run', run) /\ run'.pc = "finishing" /\ run'.result = run.result
      BY <1>1, <2>1, GotoType DEF Decide, Pcs
    <3> QED
      BY <3>1, <3>2 DEF SamePlace
  <2>2. CASE FinalResult # "ok"
    <3> DEFINE d0 == Goto("rollback")
               d1 == [d0 EXCEPT !.result = FinalResult]
               d2 == [d1 EXCEPT !.rollingBack = TRUE]
    <3>1. SamePlace(d0, run) /\ d0.pc = "rollback"
      BY <1>1, GotoType DEF Pcs
    <3>2. PICK b \in BOOLEAN : b = (run.errors \/ run.durableFailed)
      BY Zenon
    <3>3. PICK rs \in SUBSET OwnedIn(report.ledger) :
              rs = IF run.durableFailed THEN {} ELSE OwnedIn(report.ledger)
      BY Zenon
    <3>4. run' = [d0 EXCEPT !.result = FinalResult, !.rollingBack = TRUE,
                            !.errors = @ \/ run.durableFailed,
                            !.queue = IF run.durableFailed THEN {} ELSE OwnedIn(report.ledger)]
      BY <2>2 DEF Decide
    <3> HIDE DEF d0
    <3>5. d0.errors = run.errors /\ d0 \in Positions /\ d0.mountAttempted = run.mountAttempted
      BY <3>1 DEF SamePlace
    <3>6. run' = [[d2 EXCEPT !.errors = b] EXCEPT !.queue = rs]
      BY <3>2, <3>3, <3>4, <3>5 DEF Positions
    <3>7. d1 \in Positions /\ d1.pc = "rollback" /\ d1.result = FinalResult
          /\ d1.mountAttempted = run.mountAttempted
      BY <1>2, <3>1, <3>5 DEF Positions, Results
    <3> HIDE DEF d1
    <3>8. d2 \in Positions /\ d2.pc = "rollback" /\ d2.result = FinalResult
          /\ d2.mountAttempted = run.mountAttempted
      BY <3>7, Zenon DEF Positions
    <3> HIDE DEF d2
    <3>9. rs \subseteq Removable
      BY DEF OwnedIn
    <3>10. /\ run' \in Positions /\ run'.pc = "rollback" /\ run'.result = FinalResult
           /\ run'.mountAttempted = run.mountAttempted /\ run'.errors = b /\ run'.queue = rs
      BY <3>6, <3>8, <3>9, Zenon DEF Positions
    <3> QED
      BY <1>2, <2>2, <3>2, <3>3, <3>10, Zenon
  <2> QED
    BY <2>1, <2>2
<1>4. EngineTypeOK'
  BY <1>1, <1>3 DEF EngineTypeOK
<1>5. Placed'
  BY <1>1, <1>3 DEF Placed, ForwardPcs, RollbackPcs
<1>6. Fresh' /\ ReleasedIsClean'
  BY <1>1, <1>3 DEF Fresh, ReleasedIsClean, ForwardPcs
<1>7. RolledBack'
  BY <1>1, <1>3 DEF RolledBack, RollbackPcs
<1>8. Housed'
  BY <1>1, <1>3, SamePlan DEF Housed, ForwardPcs
<1>9. Accounted'
  BY <1>1 DEF Accounted, Tracks
<1>10. MountsGuarded'
  BY <1>1, <1>3 DEF MountsGuarded, UnmountPcs, AfterPcs, RollbackPcs
<1>11. Spared'
  <2>1. \A r \in OwnedIn(report.ledger) : report.ledger[r] # "PreExisting"
    BY DEF OwnedIn, Owned
  <2> QED
    BY <1>1, <1>3, <2>1 DEF Spared, RollbackPcs
<1> QED
  BY <1>4, <1>5, <1>6, <1>7, <1>8, <1>9, <1>10, <1>11

\* While storage may be removed, nothing is mounted.
LEMMA NothingMounted ==
    ASSUME EngineInv, run.pc \in AfterPcs, ~ report.storageBlocked
    PROVE  \A m \in Mounts : host[m] = "absent"
<1>1. \A m \in Mounts : host[m] # "ours"
  BY DEF EngineInv, MountsGuarded, Mounts, AfterPcs, RollbackPcs
<1> QED
  BY <1>1 DEF EngineInv, EngineTypeOK

\* What an unblocked removal takes away: nothing that was there before.
LEMMA RemovalIsSafe ==
    ASSUME EngineInv, run.pc \in RollbackPcs, NEW v \in Removable, ~ Blocked(v),
           report.ledger[v] # "PreExisting"
    PROVE  /\ HostWithout(v) \in [DeployedResources -> Presence]
           /\ \A r \in DeployedResources : HostWithout(v)[r] \in {host[r], "absent"}
           /\ \A r \in DeployedResources :
                report.ledger[r] = "PreExisting" => HostWithout(v)[r] = host[r]
           /\ \A r \in {v} \cup Dependents(v) :
                r \in DeployedResources => HostWithout(v)[r] # "ours"
           /\ \A r \in InRootfs \cup Mounts :
                HostWithout(v)[r] = "ours" => HostWithout(v)[Base] = "ours"
           /\ HostWithout(v)["NspawnConfig"] = "ours" /\ host["ExternalImage"] = "ours" =>
                HostWithout(v)["ExternalImage"] = "ours"
<1> USE DEF EngineInv
<1>1. \A r \in DeployedResources :
        HostWithout(v)[r] = IF r \in Within(v) THEN "absent" ELSE host[r]
  BY DEF HostWithout
<1>2. HostWithout(v) \in [DeployedResources -> Presence]
  BY DEF HostWithout, EngineTypeOK, Presence
<1>3. /\ "NspawnConfig" \in DeployedResources /\ "ExternalImage" \in DeployedResources
      /\ Base \in DeployedResources /\ InRootfs \cup Mounts \subseteq DeployedResources
      /\ v \in Within(v) /\ v \in DeployedResources
      /\ Base \in {"LocalStorage", "ExternalImage"}
  BY DEF DeployedResources, Removable, Base, Within
<1>4. v \in {"LocalStorage", "ExternalImage"} => \A m \in Mounts : host[m] = "absent"
  BY NothingMounted DEF Blocked, AfterPcs
<1>5. ASSUME NEW r \in DeployedResources, report.ledger[r] = "PreExisting"
      PROVE  r \notin Within(v)
  <2>1. /\ r \in {"NvidiaState", "NspawnConfig", "SystemdOverride"}
        /\ r = "NspawnConfig" => report.extBlocked
    BY <1>5 DEF Spared
  <2>2. r # v
    BY <1>5
  <2> QED
    BY <2>1, <2>2 DEF Within, InRootfs, Blocked
<1>6. ASSUME NEW r \in {v} \cup Dependents(v), r \in DeployedResources
      PROVE  HostWithout(v)[r] # "ours"
  <2>1. r \in Within(v) \/ (v \in {"LocalStorage", "ExternalImage"} /\ r \in Mounts)
    <3>1. CASE v = "LocalStorage"
      BY <1>3, <3>1 DEF Dependents, Within
    <3>2. CASE v = "ExternalImage"
      BY <1>3, <3>2 DEF Dependents, Within
    <3>3. CASE v \notin {"LocalStorage", "ExternalImage"}
      BY <1>3, <3>3 DEF Dependents
    <3> QED
      BY <3>1, <3>2, <3>3
  <2> QED
    BY <1>1, <1>4, <1>6, <2>1
<1>7. ASSUME NEW r \in InRootfs \cup Mounts, HostWithout(v)[r] = "ours"
      PROVE  HostWithout(v)[Base] = "ours"
  <2>1. r \notin Within(v) /\ host[r] = "ours" /\ host[Base] = "ours"
    BY <1>1, <1>3, <1>7, Zenon DEF Housed
  <2>2. v \notin {"LocalStorage", "ExternalImage"}
    BY <1>4, <2>1 DEF Within
  <2>3. Base \notin Within(v)
    BY <1>3, <2>2 DEF Within
  <2> QED
    BY <1>1, <1>3, <2>1, <2>3
<1>8. HostWithout(v)["NspawnConfig"] = "ours" /\ host["ExternalImage"] = "ours" =>
        HostWithout(v)["ExternalImage"] = "ours"
  BY <1>1, <1>3 DEF Within, InRootfs
<1> QED
  BY <1>1, <1>2, <1>5, <1>6, <1>7, <1>8

\* One step of the rollback of a resource v.
LEMMA RollingKeeps ==
    ASSUME EngineInv, engineOutcome = "none", run.pc \in RollbackPcs,
           UNCHANGED <<plan, cancel, engineOutcome>>,
           current' \in CrashManifests, current' # NoManifest,
           manifestFile' \in CrashManifests \cup {NoManifest},
           NEW v \in Removable, report.ledger[v] # "PreExisting",
           run' \in Positions, run'.pc \in RollbackPcs, run'.result = run.result,
           run'.mountAttempted = run.mountAttempted, run'.queue \subseteq run.queue,
           run'.pc \in {"remove", "removed"} => run'.victim = v,
           report' \in Reports, report'.extBlocked = report.extBlocked,
           report'.storageBlocked = report.storageBlocked,
           host' = host \/ (~ Blocked(v) /\ host' = HostWithout(v)),
           \/ report'.ledger = report.ledger
           \/ report'.ledger = [report.ledger EXCEPT ![v] = "CleanupPending"]
           \/ /\ report'.ledger = Without(report.ledger, {v} \cup Dependents(v))
              /\ ~ Blocked(v) /\ host' = HostWithout(v),
           RolledBack'
    PROVE  EngineInv'
<1> USE DEF EngineInv
<1>1. /\ v \in DeployedResources /\ "ExternalImage" \in DeployedResources
      /\ "NspawnConfig" \in DeployedResources /\ "CleanupPending" \in Owned
      /\ InRootfs \cup Mounts \subseteq DeployedResources
  BY DEF DeployedResources, Removable, Owned
<1>2. /\ host' \in [DeployedResources -> Presence]
      /\ \A r \in DeployedResources : host'[r] \in {host[r], "absent"}
      /\ \A r \in DeployedResources : report.ledger[r] = "PreExisting" => host'[r] = host[r]
      /\ \A r \in InRootfs \cup Mounts : host'[r] = "ours" => host'[Base] = "ours"
      /\ host'["NspawnConfig"] = "ours" /\ host["ExternalImage"] = "ours" =>
            host'["ExternalImage"] = "ours"
  <2>1. CASE host' = host
    BY <2>1 DEF EngineTypeOK, Housed
  <2>2. CASE ~ Blocked(v) /\ host' = HostWithout(v)
    BY <2>2, RemovalIsSafe
  <2> QED
    BY <2>1, <2>2
<1>3. ASSUME NEW r \in DeployedResources
      PROVE  /\ report'.ledger[r] = "PreExisting" => report.ledger[r] = "PreExisting"
             /\ host'[r] = "ours" /\ Tracks(r) => report'.ledger[r] \in Owned \cup {"OutcomeUnknown"}
  <2>1. CASE report'.ledger = report.ledger
    BY <2>1 DEF Tracks
  <2>2. CASE report'.ledger = [report.ledger EXCEPT ![v] = "CleanupPending"]
    BY <1>1, <2>2 DEF Tracks, EngineTypeOK, Reports
  <2>3. CASE /\ report'.ledger = Without(report.ledger, {v} \cup Dependents(v))
             /\ ~ Blocked(v) /\ host' = HostWithout(v)
    <3>1. r \in {v} \cup Dependents(v) => host'[r] # "ours"
      BY <2>3, RemovalIsSafe
    <3> QED
      BY <2>3, <3>1, Zenon DEF Without, Tracks
  <2> QED
    BY <2>1, <2>2, <2>3, Zenon
<1>4. EngineTypeOK'
  <2>1. \A r \in InRootfs \cup Mounts : host'[r] \in {"absent", "ours"}
    BY <1>1, <1>2 DEF EngineTypeOK
  <2> QED
    BY <1>2, <2>1 DEF EngineTypeOK
<1>5. Placed'
  BY DEF Placed, ForwardPcs, RollbackPcs
<1>6. Fresh' /\ ReleasedIsClean'
  BY Zenon DEF Fresh, ReleasedIsClean, ForwardPcs, RollbackPcs
<1>7. Housed'
  <2>1. run'.pc \notin ForwardPcs /\ Base' = Base
    BY SamePlan DEF ForwardPcs, RollbackPcs
  <2> QED
    BY <1>2, <2>1, Zenon DEF Housed
<1>8. Accounted'
  <2> SUFFICES ASSUME NEW r \in DeployedResources, host'[r] = "ours"
               PROVE  \/ report'.ledger[r] \in Owned \cup {"OutcomeUnknown"}
                      \/ plan.kind = "clone" /\ r = "NspawnConfig" /\ host'["ExternalImage"] = "ours"
    BY Zenon DEF Accounted, Tracks
  <2>1. host[r] = "ours"
    BY <1>2
  <2>2. Tracks(r) \/ (plan.kind = "clone" /\ r = "NspawnConfig" /\ host["ExternalImage"] = "ours")
    BY <2>1 DEF Accounted, RollbackPcs
  <2> QED
    BY <1>2, <1>3, <2>2, Zenon
<1>9. MountsGuarded'
  <2>1. \A r \in Mounts : host'[r] = "ours" => host[r] = "ours"
    BY <1>1, <1>2
  <2> QED
    BY <2>1, Zenon DEF MountsGuarded, UnmountPcs, AfterPcs, RollbackPcs, Mounts
<1>10. Spared'
  <2>1. \A r \in run.queue : r \in DeployedResources
    BY DEF EngineTypeOK, Positions, DeployedResources
  <2>2. \A r \in DeployedResources : report'.ledger[r] = "PreExisting" =>
            report.ledger[r] = "PreExisting" /\ host'[r] = host[r]
    BY <1>2, <1>3, Zenon
  <2>3. \A r \in DeployedResources : report'.ledger[r] = "PreExisting" =>
            /\ host'[r] \notin {"absent", "ours"}
            /\ r \in {"NvidiaState", "NspawnConfig", "SystemdOverride"}
            /\ r = "NspawnConfig" => report'.extBlocked
    BY <2>2 DEF Spared
  <2>4. \A r \in run'.queue : report'.ledger[r] # "PreExisting"
    BY <2>1, <2>2 DEF Spared
  <2>5. run'.pc \in {"remove", "removed"} => report'.ledger[run'.victim] # "PreExisting"
    BY <1>1, <2>2
  <2> QED
    BY <2>3, <2>4, <2>5, Zenon DEF Spared
<1> QED
  BY <1>4, <1>5, <1>6, <1>7, <1>8, <1>9, <1>10

LEMMA BreakType ==
    ASSUME run \in Positions
    PROVE  /\ RollbackBreaks \in Positions /\ RollbackBreaks.pc = "rollback"
           /\ RollbackBreaks.result = run.result /\ RollbackBreaks.errors
           /\ RollbackBreaks.mountAttempted = run.mountAttempted /\ RollbackBreaks.queue = {}
<1> DEFINE g == Goto("rollback")
<1>1. SamePlace(g, run) /\ g.pc = "rollback" /\ g.result = run.result
  BY GotoType DEF Pcs
<1>2. RollbackBreaks = [g EXCEPT !.errors = TRUE, !.queue = {}]
  BY DEF RollbackBreaks
<1> HIDE DEF g
<1> QED
  BY <1>1, <1>2, Zenon DEF SamePlace, Positions

\* A manifest write of the rollback fails.
LEMMA BreakKeeps ==
    ASSUME EngineInv, engineOutcome = "none", run.pc \in RollbackPcs,
           UNCHANGED <<plan, host, cancel, engineOutcome>>,
           current' \in CrashManifests, current' # NoManifest,
           manifestFile' \in CrashManifests \cup {NoManifest},
           NEW v \in Removable, report.ledger[v] # "PreExisting",
           run' = RollbackBreaks, report' = RecordIn(report, v, "CleanupPending")
    PROVE  EngineInv'
<1>1. v \in DeployedResources /\ "CleanupPending" \in Dispositions /\ run \in Positions /\ report \in Reports
  BY Zenon DEF DeployedResources, Dispositions, Owned, EngineInv, EngineTypeOK
<1>2. /\ report' \in Reports /\ report'.ledger = [report.ledger EXCEPT ![v] = "CleanupPending"]
      /\ report'.extBlocked = report.extBlocked /\ report'.storageBlocked = report.storageBlocked
  BY <1>1, RecordType, Zenon
<1>3. /\ run' \in Positions /\ run'.pc = "rollback" /\ run'.result = run.result /\ run'.errors
      /\ run'.mountAttempted = run.mountAttempted /\ run'.queue = {}
  BY <1>1, BreakType
<1>4. RolledBack'
  BY <1>3 DEF RolledBack
<1> QED
  BY <1>2, <1>3, <1>4, RollingKeeps, Zenon DEF RollbackPcs

LEMMA PersistRollbackKeeps ==
    ASSUME EngineInv, engineOutcome = "none", PersistRollback
    PROVE  EngineInv'
<1> USE DEF EngineInv
<1>1. run.pc = "rollback" /\ UNCHANGED <<plan, host, cancel, engineOutcome>>
      /\ run \in Positions /\ current # NoManifest /\ report \in Reports
  BY DEF PersistRollback, EngineTypeOK, Placed
<1>2. PICK v \in run.queue : \E ok \in BOOLEAN :
        /\ Persist(ok, "Applying", {v})
        /\ run' = IF ok THEN [Goto("remove") EXCEPT !.victim = v, !.queue = @ \ {v}]
                  ELSE RollbackBreaks
        /\ report' = IF ok THEN report ELSE RecordIn(report, v, "CleanupPending")
  BY Zenon DEF PersistRollback
<1>3. PICK ok \in BOOLEAN :
        /\ Persist(ok, "Applying", {v})
        /\ run' = IF ok THEN [Goto("remove") EXCEPT !.victim = v, !.queue = @ \ {v}]
                  ELSE RollbackBreaks
        /\ report' = IF ok THEN report ELSE RecordIn(report, v, "CleanupPending")
  BY <1>2
<1>4. v \in Removable /\ report.ledger[v] # "PreExisting" /\ {v} \in SUBSET DeployedResources
  BY <1>1 DEF Positions, Spared, RollbackPcs, DeployedResources
<1>5. /\ current' \in CrashManifests /\ current' # NoManifest
      /\ manifestFile' \in CrashManifests \cup {NoManifest}
  BY <1>1, <1>3, <1>4, PersistType DEF States
<1>6. CASE ok
  <2> DEFINE g == Goto("remove")
  <2>1. SamePlace(g, run) /\ g.pc = "remove" /\ g.result = run.result
    BY <1>1, GotoType DEF Pcs
  <2>2. run' = [g EXCEPT !.victim = v, !.queue = @ \ {v}]
    BY <1>3, <1>6
  <2> HIDE DEF g
  <2>3. /\ run' \in Positions /\ run'.pc = "remove" /\ run'.result = run.result
        /\ run'.mountAttempted = run.mountAttempted /\ run'.queue = run.queue \ {v}
        /\ run'.victim = v /\ run'.errors = run.errors
    BY <1>4, <2>1, <2>2, Zenon DEF SamePlace, Positions
  <2>4. report' = report
    BY <1>3, <1>6
  <2>5. RolledBack'
    BY <1>1, <2>3, <2>4 DEF RolledBack, RollbackPcs
  <2> QED
    BY <1>1, <1>4, <1>5, <2>3, <2>4, <2>5, RollingKeeps DEF RollbackPcs
<1>7. CASE ~ ok
  BY <1>1, <1>3, <1>4, <1>5, <1>7, BreakKeeps DEF RollbackPcs
<1> QED
  BY <1>6, <1>7

LEMMA PersistRemovedKeeps ==
    ASSUME EngineInv, engineOutcome = "none", PersistRemoved
    PROVE  EngineInv'
<1> USE DEF EngineInv
<1> DEFINE v == run.victim
<1>1. run.pc = "removed" /\ UNCHANGED <<plan, host, cancel, engineOutcome>>
      /\ run \in Positions /\ current # NoManifest /\ report \in Reports
      /\ v \in Removable /\ report.ledger[v] # "PreExisting"
  BY DEF PersistRemoved, EngineTypeOK, Placed, Positions, Spared
<1>2. PICK ok \in BOOLEAN :
        /\ Persist(ok, "Committed", {})
        /\ run' = IF ok THEN Goto("rollback") ELSE RollbackBreaks
        /\ report' = IF ok THEN report ELSE RecordIn(report, v, "CleanupPending")
  BY DEF PersistRemoved
<1>3. /\ current' \in CrashManifests /\ current' # NoManifest
      /\ manifestFile' \in CrashManifests \cup {NoManifest}
  <2>1. EngineTypeOK /\ "Committed" \in States /\ {} \in SUBSET DeployedResources
    BY DEF States
  <2> QED
    BY ONLY <1>1, <1>2, <2>1, ok \in BOOLEAN, PersistType
<1>4. CASE ok
  <2>1. SamePlace(run', run) /\ run'.pc = "rollback" /\ run'.result = run.result
    BY <1>1, <1>2, <1>4, GotoType DEF Pcs
  <2>2. report' = report
    BY <1>2, <1>4
  <2>3. RolledBack'
    BY <1>1, <2>1, <2>2 DEF RolledBack, RollbackPcs, SamePlace
  <2> QED
    BY <1>1, <1>3, <2>1, <2>2, <2>3, RollingKeeps, Zenon DEF RollbackPcs, SamePlace
<1>5. CASE ~ ok
  BY <1>1, <1>2, <1>3, <1>5, BreakKeeps DEF RollbackPcs
<1> QED
  BY <1>4, <1>5

LEMMA RollbackRemoveKeeps ==
    ASSUME EngineInv, engineOutcome = "none", RollbackRemove
    PROVE  EngineInv'
<1> USE DEF EngineInv
<1> DEFINE v == run.victim
           now == [run EXCEPT !.reload = @ \/ v = "SystemdOverride"]
<1>1. /\ run.pc = "remove" /\ UNCHANGED <<plan, current, manifestFile, cancel, engineOutcome>>
      /\ run \in Positions /\ report \in Reports
      /\ v \in Removable /\ report.ledger[v] # "PreExisting"
      /\ current \in CrashManifests /\ current # NoManifest
      /\ manifestFile \in CrashManifests \cup {NoManifest}
  BY DEF RollbackRemove, EngineTypeOK, Placed, Positions, Spared
<1>2. \/ /\ ~ Blocked(v) /\ host' = HostWithout(v)
         /\ report' = [report EXCEPT !.ledger = Without(@, {v} \cup Dependents(v))]
         /\ run' = [now EXCEPT !.pc = "removed"]
      \/ /\ host' = host \/ (~ Blocked(v) /\ host' = HostWithout(v))
         /\ report' = RecordIn(report, v, "CleanupPending")
         /\ run' = [now EXCEPT !.pc = "rollback", !.errors = TRUE]
  BY DEF RollbackRemove
<1>3. /\ now \in Positions /\ now.result = run.result /\ now.mountAttempted = run.mountAttempted
      /\ now.queue = run.queue /\ now.victim = v /\ now.errors = run.errors
  <2>1. PICK b \in BOOLEAN : b = (run.reload \/ v = "SystemdOverride")
    BY Zenon
  <2>2. now = [run EXCEPT !.reload = b]
    BY <2>1
  <2> QED
    BY <1>1, <2>2 DEF Positions
<1> HIDE DEF now
<1>4. CASE /\ ~ Blocked(v) /\ host' = HostWithout(v)
           /\ report' = [report EXCEPT !.ledger = Without(@, {v} \cup Dependents(v))]
           /\ run' = [now EXCEPT !.pc = "removed"]
  <2>1. PICK l \in [DeployedResources -> Dispositions] :
            l = Without(report.ledger, {v} \cup Dependents(v))
    BY <1>1, Zenon DEF Without, Reports, Dispositions
  <2>2. report' = [report EXCEPT !.ledger = l]
    BY <1>4, <2>1
  <2>3. /\ report' \in Reports /\ report'.ledger = l /\ report'.extBlocked = report.extBlocked
        /\ report'.storageBlocked = report.storageBlocked
    BY <1>1, <2>2 DEF Reports
  <2>4. /\ run' \in Positions /\ run'.pc = "removed" /\ run'.result = run.result
        /\ run'.mountAttempted = run.mountAttempted /\ run'.queue = run.queue
        /\ run'.victim = v /\ run'.errors = run.errors
    BY <1>3, <1>4 DEF Positions
  <2>5. RolledBack'
    <3>1. OwnedIn(l) \subseteq OwnedIn(report.ledger) \ {v}
      BY <2>1 DEF OwnedIn, Without, Owned, DeployedResources
    <3> QED
      BY <1>1, <2>3, <2>4, <3>1 DEF RolledBack, RollbackPcs
  <2> QED
    BY <1>1, <1>4, <2>1, <2>3, <2>4, <2>5, RollingKeeps, Zenon DEF RollbackPcs
<1>5. CASE /\ host' = host \/ (~ Blocked(v) /\ host' = HostWithout(v))
           /\ report' = RecordIn(report, v, "CleanupPending")
           /\ run' = [now EXCEPT !.pc = "rollback", !.errors = TRUE]
  <2>1. v \in DeployedResources /\ "CleanupPending" \in Dispositions
    BY <1>1 DEF DeployedResources, Dispositions, Owned
  <2>2. /\ report' \in Reports /\ report'.ledger = [report.ledger EXCEPT ![v] = "CleanupPending"]
        /\ report'.extBlocked = report.extBlocked /\ report'.storageBlocked = report.storageBlocked
    BY <1>1, <1>5, <2>1, RecordType
  <2>3. /\ run' \in Positions /\ run'.pc = "rollback" /\ run'.result = run.result
        /\ run'.mountAttempted = run.mountAttempted /\ run'.queue = run.queue /\ run'.errors
    BY <1>3, <1>5, Zenon DEF Positions
  <2>4. RolledBack'
    BY <2>3 DEF RolledBack
  <2> QED
    BY <1>1, <1>5, <2>2, <2>3, <2>4, RollingKeeps, Zenon DEF RollbackPcs
<1> QED
  BY <1>2, <1>4, <1>5

\* A rollback that ends without an error has left nothing.
LEMMA RollbackEndsKeeps ==
    ASSUME EngineInv, engineOutcome = "none", RollbackEnds
    PROVE  EngineInv'
<1> USE DEF EngineInv
<1>1. /\ run.pc = "rollback" /\ run.queue = {} /\ run \in Positions
      /\ UNCHANGED <<plan, report, current, manifestFile, host, cancel, engineOutcome>>
      /\ run.result \notin {"none", "ok", "unknown"} /\ current # NoManifest
  BY DEF RollbackEnds, EngineTypeOK, Placed, RollbackPcs, ForwardPcs
<1>2. PICK p \in {"pending", "finishing"} :
        /\ run' = [Goto(p) EXCEPT !.rollingBack = FALSE]
        /\ p = "finishing" => ~ run.errors /\ ~ UnknownLeft
  BY Zenon DEF RollbackEnds
<1>3. /\ run' \in Positions /\ run'.pc = p /\ run'.result = run.result
      /\ run'.mountAttempted = run.mountAttempted
  <2> DEFINE g == Goto(p)
  <2>1. SamePlace(g, run) /\ g.pc = p /\ g.result = run.result
    BY <1>1, GotoType DEF Pcs
  <2>2. run' = [g EXCEPT !.rollingBack = FALSE]
    BY <1>2
  <2> HIDE DEF g
  <2> QED
    BY <2>1, <2>2, Zenon DEF SamePlace, Positions
<1>4. ASSUME p = "finishing", NEW r \in DeployedResources
      PROVE  host[r] # "ours"
  <2>1. OwnedIn(report.ledger) = {}
    BY <1>1, <1>2, <1>4 DEF RolledBack, RollbackPcs
  <2>2. \A x \in Removable : x \in DeployedResources /\ ~ Tracks(x)
    BY <1>2, <1>4, <2>1 DEF OwnedIn, Tracks, UnknownLeft, DeployedResources
  <2>3. \A x \in Removable : host[x] # "ours"
    <3>1. host["ExternalImage"] # "ours"
      BY <1>1, <2>2 DEF Accounted, Removable
    <3> QED
      BY <1>1, <2>2, <3>1 DEF Accounted
  <2>4. \A x \in InRootfs \cup Mounts : host[x] # "ours"
    BY <2>3 DEF Housed, Base, Removable
  <2> QED
    BY <2>3, <2>4 DEF DeployedResources
<1>5. EngineTypeOK'
  BY <1>1, <1>3 DEF EngineTypeOK
<1>6. Placed'
  BY <1>1, <1>3 DEF Placed, ForwardPcs, RollbackPcs
<1>7. Fresh' /\ ReleasedIsClean'
  BY <1>1, <1>3 DEF Fresh, ReleasedIsClean, ForwardPcs
<1>8. RolledBack'
  BY <1>1, <1>3, <1>4 DEF RolledBack, RollbackPcs
<1>9. Housed'
  BY <1>1, <1>3, SamePlan DEF Housed, ForwardPcs
<1>10. Accounted'
  BY <1>1 DEF Accounted, Tracks
<1>11. MountsGuarded'
  BY <1>1, <1>3 DEF MountsGuarded, UnmountPcs, AfterPcs, RollbackPcs
<1>12. Spared'
  BY <1>1, <1>3 DEF Spared, RollbackPcs
<1> QED
  BY <1>5, <1>6, <1>7, <1>8, <1>9, <1>10, <1>11, <1>12

-----------------------------------------------------------------------------
(* The environment, and the invariant. *)

LEMMA CancelKeeps ==
    ASSUME EngineInv, Cancel
    PROVE  EngineInv'
<1> USE DEF EngineInv
<1>1. /\ UNCHANGED <<plan, run, report, current, manifestFile, host, engineOutcome>>
      /\ engineOutcome = "none" /\ cancel' \in {"early", "late"}
      /\ run.pc = "finishing" /\ run.result = "ok" => cancel' = "late"
  BY DEF Cancel
<1>2. EngineTypeOK' /\ Placed' /\ ReleasedIsClean'
  <2>1. EngineTypeOK'
    BY <1>1 DEF EngineTypeOK
  <2>2. Placed'
    BY <1>1, SameStage DEF Placed
  <2> QED
    BY <1>1, <2>1, <2>2 DEF ReleasedIsClean
<1>3. Fresh' /\ Housed'
  BY <1>1, SamePlan DEF Fresh, Housed
<1>4. Accounted' /\ Spared' /\ RolledBack'
  BY <1>1 DEF Accounted, Tracks, Announced, Spared, RolledBack
<1>5. MountsGuarded'
  BY <1>1, SameStage DEF MountsGuarded, Unclassified, Announced
<1> QED
  BY <1>2, <1>3, <1>4, <1>5

LEMMA CrashKeeps ==
    ASSUME EngineInv, EngineCrash
    PROVE  EngineInv'
<1> USE DEF EngineInv
<1>1. /\ UNCHANGED <<plan, run, report, current, manifestFile, host, cancel>>
      /\ engineOutcome' = "crashed"
  BY DEF EngineCrash
<1>2. EngineTypeOK' /\ ReleasedIsClean'
  BY <1>1 DEF EngineTypeOK, ReleasedIsClean
<1>3. Placed'
  BY <1>1, SameStage DEF Placed
<1>4. Fresh' /\ Housed'
  BY <1>1, SamePlan DEF Fresh, Housed
<1>5. Accounted' /\ Spared' /\ RolledBack'
  BY <1>1 DEF Accounted, Tracks, Announced, Spared, RolledBack
<1>6. MountsGuarded'
  BY <1>1, SameStage DEF MountsGuarded, Unclassified, Announced
<1> QED
  BY <1>2, <1>3, <1>4, <1>5, <1>6

LEMMA AdminKeeps ==
    ASSUME EngineInv, AdminWritesConfig
    PROVE  EngineInv'
<1> USE DEF EngineInv
<1>1. /\ UNCHANGED <<plan, run, report, current, manifestFile, cancel, engineOutcome>>
      /\ engineOutcome = "none" /\ run.pc \in ForwardPcs
      /\ host' = [host EXCEPT !["NspawnConfig"] = "foreign"] /\ host["NspawnConfig"] = "absent"
      /\ "NspawnConfig" \in DeployedResources
  BY DEF AdminWritesConfig, ForwardPcs, DeployedResources, Removable
<1>2. /\ host' \in [DeployedResources -> Presence] /\ host'["NspawnConfig"] = "foreign"
      /\ \A r \in DeployedResources : r # "NspawnConfig" => host'[r] = host[r]
  BY <1>1 DEF EngineTypeOK, Presence
<1>3. /\ \A r \in InRootfs \cup Mounts : r \in DeployedResources /\ host'[r] = host[r]
      /\ host'[Base] = host[Base] /\ host'["ExternalImage"] = host["ExternalImage"]
      /\ Base \in DeployedResources
  BY <1>2 DEF DeployedResources, InRootfs, Mounts, Removable, Base
<1>4. EngineTypeOK'
  BY <1>1, <1>2, <1>3 DEF EngineTypeOK
<1>5. Placed'
  BY <1>1, SameStage DEF Placed
<1>6. Fresh'
  BY <1>1, SamePlan, Zenon DEF Fresh, ForwardPcs
<1>7. Housed'
  BY <1>1, <1>3, SamePlan DEF Housed
<1>8. Accounted'
  BY <1>1, <1>2, <1>3 DEF Accounted, Tracks, Announced
<1>9. MountsGuarded'
  <2>1. /\ host'["StorageMount"] = host["StorageMount"]
        /\ host'["RawConfigurationMount"] = host["RawConfigurationMount"]
    BY <1>3 DEF Mounts
  <2> QED
    BY <1>1, <2>1, SameStage DEF MountsGuarded, ForwardPcs
<1>10. Spared' /\ RolledBack' /\ ReleasedIsClean'
  BY <1>1, <1>2 DEF Spared, RolledBack, ReleasedIsClean, ForwardPcs, RollbackPcs
<1> QED
  BY <1>4, <1>5, <1>6, <1>7, <1>8, <1>9, <1>10

LEMMA EngineStarts ==
    ASSUME EngineInit
    PROVE  EngineInv
<1>1. /\ run.pc = "new" /\ run.stage = 0 /\ run.result = "none" /\ run \in Positions
  <2>1. 0 \in 0 .. Len(Stages)
    BY DEF Stages
  <2>2. "StorageMount" \in Mounts /\ "LocalStorage" \in Removable /\ {} \in SUBSET Removable
    BY DEF Mounts, Removable
  <2> QED
    BY <2>1, <2>2, Zenon DEF EngineInit, Positions
<1>2. /\ report \in Reports /\ \A r \in DeployedResources : report.ledger[r] = "None"
  BY Zenon DEF EngineInit, Reports, Dispositions
<1>3. /\ host \in [DeployedResources -> Presence]
      /\ \A r \in DeployedResources : host[r] # "ours"
      /\ \A r \in InRootfs \cup Mounts : host[r] = "absent"
  <2> DEFINE none == [r \in DeployedResources |-> "absent"]
             found(h) == /\ h \in [DeployedResources -> Presence]
                         /\ \A r \in DeployedResources : h[r] # "ours"
                         /\ \A r \in InRootfs \cup Mounts : h[r] = "absent"
  <2>1. found(none)
    BY DEF DeployedResources, Presence
  <2>2. ASSUME NEW h, found(h), NEW r \in Removable, NEW p \in Presence \ {"ours"}
        PROVE  found([h EXCEPT ![r] = p])
    <3>1. Removable \cap (InRootfs \cup Mounts) = {}
      BY DEF Removable, InRootfs, Mounts
    <3> QED
      BY <2>2, <3>1 DEF DeployedResources
  <2> DEFINE two == {"absent", "foreign"}
             three == {"absent", "stale", "foreign"}
             start(s, i, c, n, o) ==
                host = [none EXCEPT !["LocalStorage"] = s, !["ExternalImage"] = i,
                                    !["NspawnConfig"] = c, !["NvidiaState"] = n,
                                    !["SystemdOverride"] = o]
  <2>3. \E storage \in Found(~ External, two), image \in Found(External, two), config \in two,
           nvidia \in Found(plan.nvidia, three), override \in Found(plan.override, three) :
            start(storage, image, config, nvidia, override)
    BY Zenon DEF EngineInit
  <2>4. \A u : Found(u, two) \subseteq three /\ Found(u, three) \subseteq three /\ two \subseteq three
    BY DEF Found
  <2> HIDE DEF start, two, three
  <2>5. PICK storage \in three : \E image, config, nvidia, override \in three :
            start(storage, image, config, nvidia, override)
    BY <2>3, <2>4
  <2>6. PICK image \in three, config \in three, nvidia \in three, override \in three :
            start(storage, image, config, nvidia, override)
    BY <2>5
  <2> DEFINE h1 == [none EXCEPT !["LocalStorage"] = storage]
             h2 == [h1 EXCEPT !["ExternalImage"] = image]
             h3 == [h2 EXCEPT !["NspawnConfig"] = config]
             h4 == [h3 EXCEPT !["NvidiaState"] = nvidia]
             h5 == [h4 EXCEPT !["SystemdOverride"] = override]
  <2>7. host = h5
    BY <2>6 DEF start
  <2> HIDE DEF found, none
  <2>8. three \subseteq Presence \ {"ours"}
    BY DEF Presence, three
  <2>9. found(h1)
    BY <2>1, <2>2, <2>8 DEF Removable
  <2> HIDE DEF h1
  <2>10. found(h2)
    BY <2>2, <2>8, <2>9 DEF Removable
  <2> HIDE DEF h2
  <2>11. found(h3)
    BY <2>2, <2>8, <2>10 DEF Removable
  <2> HIDE DEF h3
  <2>12. found(h4)
    BY <2>2, <2>8, <2>11 DEF Removable
  <2> HIDE DEF h4
  <2>13. found(h5)
    BY <2>2, <2>8, <2>12 DEF Removable
  <2> QED
    BY <2>7, <2>13 DEF found
<1>4. EngineTypeOK
  BY <1>1, <1>2, <1>3, Zenon DEF EngineTypeOK, EngineInit
<1>5. Placed
  BY <1>1, Zenon DEF Placed, EngineInit, ForwardPcs, RollbackPcs
<1>6. Fresh /\ Accounted
  BY <1>1, <1>2, <1>3 DEF Fresh, Accounted, ForwardPcs
<1>7. Housed /\ MountsGuarded
  BY <1>1, <1>3 DEF Housed, MountsGuarded, Mounts, ForwardPcs
<1>8. Spared /\ RolledBack /\ ReleasedIsClean
  BY <1>1, <1>2, Zenon DEF Spared, RolledBack, ReleasedIsClean, RollbackPcs, EngineInit
<1> QED
  BY <1>4, <1>5, <1>6, <1>7, <1>8 DEF EngineInv

LEMMA EngineSteps ==
    ASSUME EngineInv, [EngineNext]_engineVars
    PROVE  EngineInv'
<1>1. CASE engineOutcome = "none" /\ Forward
  BY <1>1, PrepareKeeps, PreflightKeeps, ProbeKeeps, PersistApplyingKeeps, CreateStorageKeeps,
     MountStorageKeeps, FillRootfsKeeps, ObtainImageKeeps, RejectClonedConfigKeeps,
     FinishCloneKeeps, PromoteOciKeeps, MountRawKeeps, MutateRootfsKeeps, WriteSidecarKeeps,
     StageFailsKeeps, PersistCommittedKeeps, CheckpointKeeps DEF Forward
<1>2. CASE engineOutcome = "none" /\ Backward
  BY <1>2, CaptureKeeps, PreservingKeeps, SkipUnmountKeeps, PersistUnmountingKeeps, UnmountKeeps,
     PersistUnmountedKeeps, DecideKeeps, PersistRollbackKeeps, RollbackRemoveKeeps,
     PersistRemovedKeeps, RollbackEndsKeeps, EngineFinishKeeps DEF Backward
<1>3. CASE Cancel \/ EngineCrash \/ AdminWritesConfig
  BY <1>3, CancelKeeps, CrashKeeps, AdminKeeps
<1>4. CASE UNCHANGED engineVars
  <2>1. /\ UNCHANGED <<plan, run, report, current, manifestFile, host, cancel, engineOutcome>>
    BY <1>4 DEF engineVars
  <2>2. EngineTypeOK' /\ RolledBack' /\ Spared'
    <3>1. EngineTypeOK'
      BY <2>1, Zenon DEF EngineInv, EngineTypeOK
    <3>2. RolledBack'
      BY <2>1, Zenon DEF EngineInv, RolledBack
    <3>3. Spared'
      BY <2>1, Zenon DEF EngineInv, Spared
    <3> QED
      BY <3>1, <3>2, <3>3
  <2>3. Placed'
    BY <2>1, SameStage DEF EngineInv, Placed
  <2>4. Fresh' /\ Housed'
    BY <2>1, SamePlan DEF EngineInv, Fresh, Housed
  <2>5. Accounted'
    BY <2>1, Zenon DEF EngineInv, Accounted, Tracks, Announced
  <2>6. MountsGuarded'
    BY <2>1, SameStage DEF EngineInv, MountsGuarded, Unclassified, Announced
  <2>7. ReleasedIsClean'
    BY <2>1 DEF EngineInv, ReleasedIsClean, PreparedManifest, ManifestOf
  <2> QED
    BY <2>2, <2>3, <2>4, <2>5, <2>6, <2>7 DEF EngineInv
<1> QED
  BY <1>1, <1>2, <1>3, <1>4 DEF EngineNext, Engine

\* The inductive invariant of the engine: types, what the position says about
\* the session, what the ledger can hold so far, that everything on the host is
\* accounted for, that mounts protect storage and that a rollback misses nothing
\* (run_deploy_internal).
THEOREM EngineInvariant == EngineSpec => []EngineInv
<1> QED
  BY EngineStarts, EngineSteps, PTL DEF EngineSpec

\* A failed or cancelled deployment has left nothing of its own and no manifest
\* that names anything; a successful one has left no manifest and was not
\* cancelled before it decided to finish.
THEOREM ReleasedAlwaysClean == EngineSpec => []ReleasedIsClean
<1>1. EngineInv => ReleasedIsClean
  BY DEF EngineInv
<1> QED
  BY <1>1, EngineInvariant, PTL

-----------------------------------------------------------------------------
(* Cleaning up is safe. *)

\* Nothing is removed and nothing that was there before is touched.
OnlyAdds ==
    \A r \in DeployedResources :
        host'[r] = host[r] \/ (host'[r] # "absent" /\ report.ledger[r] # "PreExisting")

\* One resource comes to be on the host.
LEMMA PuttingAdds ==
    ASSUME EngineInv, NEW r \in DeployedResources, report.ledger[r] # "PreExisting",
           NEW p \in {"ours", "foreign"}, host' = [host EXCEPT ![r] = p]
    PROVE  OnlyAdds
BY DEF EngineInv, EngineTypeOK, OnlyAdds

\* Only sidecar files are ever found.
LEMMA FoundAreSidecars ==
    ASSUME EngineInv, NEW r \in DeployedResources,
           r \notin {"NvidiaState", "NspawnConfig", "SystemdOverride"}
    PROVE  report.ledger[r] # "PreExisting"
BY DEF EngineInv, Spared

LEMMA WritingAdds ==
    ASSUME EngineInv, run.pc \in {"effect", "finishSource"},
           NEW r \in {"NvidiaState", "NspawnConfig", "SystemdOverride"}, StageOf(r) = run.stage,
           NEW status, host' = WrittenBy(r, status)
    PROVE  OnlyAdds
<1>1. r \in DeployedResources /\ r # "ExternalImage"
  BY DEF DeployedResources, Removable
<1>2. report.ledger[r] = "None"
  BY <1>1, NotYet
<1>3. host' = host \/ host' = [host EXCEPT ![r] = "ours"]
  BY DEF WrittenBy
<1>4. CASE host' = host
  BY <1>4 DEF OnlyAdds
<1>5. CASE host' = [host EXCEPT ![r] = "ours"]
  BY <1>1, <1>2, <1>5, PuttingAdds, Zenon
<1> QED
  BY <1>3, <1>4, <1>5

LEMMA ForwardAdds ==
    ASSUME EngineInv, Forward \/ AdminWritesConfig
    PROVE  OnlyAdds
<1> USE DEF EngineInv
<1>1. CASE \/ Prepare \/ Preflight \/ ProbeStops \/ PersistApplying \/ FillRootfs
           \/ RejectClonedConfig \/ PersistCommitted \/ Checkpoint
  <2>1. host' = host
    BY <1>1 DEF Prepare, Preflight, ProbeStops, PersistApplying, FillRootfs, RejectClonedConfig,
                PersistCommitted, Checkpoint
  <2> QED
    BY <2>1 DEF OnlyAdds
<1>2. CASE CreateStorage \/ MountStorage
  <2>1. PICK r \in {"LocalStorage", "StorageMount"} : host' = [host EXCEPT ![r] = "ours"]
    BY <1>2 DEF CreateStorage, MountStorage, Applied
  <2>2. r \in DeployedResources
    BY DEF DeployedResources, Removable, Mounts
  <2> QED
    BY <2>1, <2>2, PuttingAdds, FoundAreSidecars, Zenon
<1>3. CASE MountRaw
  <2>1. "RawConfigurationMount" \in DeployedResources
    BY DEF DeployedResources, Mounts
  <2>2. host' = host \/ host' = [host EXCEPT !["RawConfigurationMount"] = "ours"]
    BY <1>3 DEF MountRaw, Applied
  <2> QED
    BY <2>1, <2>2, PuttingAdds, FoundAreSidecars DEF OnlyAdds
<1>4. CASE MutateRootfs
  <2>1. /\ Target[Stage] \in InRootfs /\ host' = [host EXCEPT ![Target[Stage]] = "ours"]
    BY <1>4, TargetValues DEF MutateRootfs, Applied, InRootfs
  <2>2. \A r \in InRootfs : /\ r \in DeployedResources
                            /\ r \notin {"NvidiaState", "NspawnConfig", "SystemdOverride"}
    BY DEF DeployedResources, InRootfs
  <2> QED
    BY <2>1, <2>2, PuttingAdds, FoundAreSidecars, Zenon
<1>5. CASE ObtainImage
  <2>1. PICK copied \in BOOLEAN :
          /\ copied => host["NspawnConfig"] = "absent"
          /\ host' = [host EXCEPT !["ExternalImage"] = "ours",
                                  !["NspawnConfig"] = IF copied THEN "ours" ELSE @]
    BY <1>5, Zenon DEF ObtainImage, Applied
  <2>2. "ExternalImage" \in DeployedResources /\ "NspawnConfig" \in DeployedResources
    BY DEF DeployedResources, Removable
  <2>3. /\ report.ledger["ExternalImage"] # "PreExisting"
        /\ copied => report.ledger["NspawnConfig"] # "PreExisting"
    BY <2>1, <2>2, FoundAreSidecars DEF Spared
  <2>4. \A r \in DeployedResources :
          host'[r] = IF r = "NspawnConfig" /\ copied THEN "ours"
                     ELSE IF r = "ExternalImage" THEN "ours" ELSE host[r]
    BY <2>1, <2>2 DEF EngineTypeOK
  <2> QED
    BY <2>2, <2>3, <2>4 DEF OnlyAdds
<1>6. CASE FinishClone
  <2>1. run.pc = "finishSource" /\ StageOf("SystemdOverride") = run.stage
    BY <1>6, SecondPart DEF FinishClone, StageOf
  <2>2. host' = host \/ \E status : host' = WrittenBy("SystemdOverride", status)
    BY <1>6 DEF FinishClone, Applied
  <2> QED
    BY <2>1, <2>2, WritingAdds DEF OnlyAdds
<1>7. CASE PromoteOci
  <2>1. run.pc = "finishSource" /\ StageOf("NspawnConfig") = run.stage
    BY <1>7, SecondPart DEF PromoteOci, StageOf
  <2>2. \E status : host' = WrittenBy("NspawnConfig", status)
    BY <1>7 DEF PromoteOci, Applied
  <2> QED
    BY <2>1, <2>2, WritingAdds
<1>8. CASE WriteSidecar
  <2>1. run.pc = "effect" /\ Stage \in {"nvidia", "nspawn", "override"}
    BY <1>8 DEF WriteSidecar
  <2>2. Target[Stage] \in {"NvidiaState", "NspawnConfig", "SystemdOverride"}
    BY <2>1, TargetValues
  <2>3. StageOf(Target[Stage]) = run.stage
    BY <2>1, TargetOfStage DEF EngineTypeOK, Placed, ForwardPcs
  <2>4. \E status : host' = WrittenBy(Target[Stage], status)
    BY <1>8 DEF WriteSidecar, Applied
  <2> QED
    BY <2>1, <2>2, <2>3, <2>4, WritingAdds
<1>9. CASE StageFails
  <2>1. PICK touched \in SUBSET Touchable :
          host' = [r \in DeployedResources |-> IF r \in touched THEN "ours" ELSE host[r]]
    BY <1>9 DEF StageFails
  <2>2. \A r \in touched : report.ledger[r] # "PreExisting"
    BY <1>9, TouchableIsNew DEF StageFails
  <2> QED
    BY <2>1, <2>2 DEF OnlyAdds
<1>10. CASE AdminWritesConfig
  <2>1. "NspawnConfig" \in DeployedResources
    BY DEF DeployedResources, Removable
  <2>2. report.ledger["NspawnConfig"] # "PreExisting"
    BY <1>10, <2>1 DEF AdminWritesConfig, Spared
  <2> QED
    BY <1>10, <2>1, <2>2, PuttingAdds, Zenon DEF AdminWritesConfig
<1> QED
  BY <1>1, <1>2, <1>3, <1>4, <1>5, <1>6, <1>7, <1>8, <1>9, <1>10 DEF Forward

\* What a step may not do to the host.
HostIsSafe ==
    /\ \A r \in DeployedResources :
        report.ledger[r] = "PreExisting" => host'[r] = host[r]
    /\ \A r \in {"LocalStorage", "ExternalImage"} :
        host[r] = "ours" /\ host'[r] = "absent" => \A m \in Mounts : host[m] = "absent"

LEMMA AddingIsSafe ==
    ASSUME OnlyAdds
    PROVE  HostIsSafe
BY DEF OnlyAdds, HostIsSafe, DeployedResources, Removable

LEMMA UnmountIsSafe ==
    ASSUME EngineInv, Unmount
    PROVE  HostIsSafe
<1>1. host' \in {host, [host EXCEPT ![run.mount] = "absent"]} /\ run.mount \in Mounts
  BY DEF Unmount, EngineInv, EngineTypeOK, Positions
<1>2. \A r \in DeployedResources : r \notin Mounts => host'[r] = host[r]
  BY <1>1 DEF EngineInv, EngineTypeOK
<1>3. \A r \in Mounts : /\ r \notin {"NvidiaState", "NspawnConfig", "SystemdOverride"}
                        /\ r \notin {"LocalStorage", "ExternalImage"}
  BY DEF Mounts
<1> QED
  BY <1>2, <1>3, FoundAreSidecars DEF HostIsSafe, DeployedResources, Removable

LEMMA RemoveIsSafe ==
    ASSUME EngineInv, RollbackRemove
    PROVE  HostIsSafe
<1> DEFINE v == run.victim
<1>1. run.pc = "remove" /\ (host' = host \/ (~ Blocked(v) /\ host' = HostWithout(v)))
  BY DEF RollbackRemove
<1>2. v \in Removable /\ report.ledger[v] # "PreExisting"
  BY <1>1 DEF EngineInv, EngineTypeOK, Positions, Spared
<1>3. CASE host' = host
  BY <1>3 DEF HostIsSafe
<1>4. CASE ~ Blocked(v) /\ host' = HostWithout(v)
  <2>1. \A r \in DeployedResources : report.ledger[r] = "PreExisting" => host'[r] = host[r]
    BY <1>1, <1>2, <1>4, RemovalIsSafe DEF RollbackPcs
  <2>2. ASSUME NEW r \in {"LocalStorage", "ExternalImage"}, host[r] = "ours", host'[r] = "absent"
        PROVE  \A m \in Mounts : host[m] = "absent"
    <3>1. r \in Within(v)
      BY <1>4, <2>2 DEF HostWithout, DeployedResources, Removable
    <3>2. r = v
      BY <3>1 DEF Within, InRootfs
    <3>3. ~ report.storageBlocked
      BY <1>4, <2>2, <3>2 DEF Blocked
    <3> QED
      BY <1>1, <3>3, NothingMounted DEF AfterPcs, RollbackPcs
  <2> QED
    BY <2>1, <2>2 DEF HostIsSafe
<1> QED
  BY <1>1, <1>3, <1>4

LEMMA StepIsSafe ==
    ASSUME EngineInv, EngineNext
    PROVE  HostIsSafe
<1>1. CASE Forward \/ AdminWritesConfig
  BY <1>1, ForwardAdds, AddingIsSafe
<1>2. CASE Unmount
  BY <1>2, UnmountIsSafe
<1>3. CASE RollbackRemove
  BY <1>3, RemoveIsSafe
<1>4. CASE \/ Capture \/ Preserve \/ SkipUnmount \/ PersistUnmounting \/ PersistUnmounted
           \/ Decide \/ PersistRollback \/ PersistRemoved \/ RollbackEnds \/ PersistPending
           \/ EngineFinish \/ Cancel \/ EngineCrash
  <2>1. host' = host
    BY <1>4, Zenon DEF Capture, Preserve, SkipUnmount, PersistUnmounting, PersistUnmounted, Decide,
                PersistRollback, PersistRemoved, RollbackEnds, PersistPending, EngineFinish,
                Cancel, EngineCrash
  <2> QED
    BY <2>1 DEF HostIsSafe
<1> QED
  BY <1>1, <1>2, <1>3, <1>4 DEF EngineNext, Engine, Backward

\* Once a process could not be confirmed dead, the deployment is only handed
\* over.
LEMMA UnknownIsLeftAlone ==
    ASSUME EngineInv, EngineNext, run.result = "unknown"
    PROVE  UNCHANGED host /\ engineOutcome' \in {"none", "reconcile", "crashed"}
<1>1. run.pc \in {"stopped", "preserve", "done"} /\ (run.pc = "done" => engineOutcome # "none")
  BY DEF EngineInv, Placed
<1>2. ~ Forward
  <2>1. ~ (\/ Prepare \/ Preflight \/ ProbeStops \/ PersistApplying \/ CreateStorage \/ MountStorage
           \/ FillRootfs \/ ObtainImage)
    BY <1>1 DEF Prepare, Preflight, ProbeStops, PersistApplying, CreateStorage, MountStorage,
                FillRootfs, ObtainImage
  <2>2. ~ (\/ RejectClonedConfig \/ FinishClone \/ PromoteOci \/ MountRaw \/ MutateRootfs
           \/ WriteSidecar \/ StageFails \/ PersistCommitted \/ Checkpoint)
    BY <1>1 DEF RejectClonedConfig, FinishClone, PromoteOci, MountRaw, MutateRootfs, WriteSidecar,
                StageFails, PersistCommitted, Checkpoint
  <2> QED
    BY <2>1, <2>2 DEF Forward
<1>3. Backward => Capture \/ Preserve \/ run.pc = "done"
  BY <1>1, Zenon DEF Backward, SkipUnmount, PersistUnmounting, Unmount, PersistUnmounted, Decide,
              PersistRollback, RollbackRemove, PersistRemoved, RollbackEnds, PersistPending,
              EngineFinish
<1>4. CASE engineOutcome = "none" /\ Capture
  BY <1>4 DEF Capture
<1>5. CASE Preserve
  BY <1>5 DEF Preserve
<1>6. CASE Cancel \/ EngineCrash
  BY <1>6 DEF Cancel, EngineCrash
<1>7. CASE AdminWritesConfig
  BY <1>1, <1>7 DEF AdminWritesConfig
<1> QED
  BY <1>1, <1>2, <1>3, <1>4, <1>5, <1>6, <1>7 DEF EngineNext, Engine

\* No step destroys a file that was there before, deletes storage below a mount,
\* or touches the host while a process may still be running
\* (rollback_apply_report, removal_blockers, block_storage_removal).
THEOREM CleanupAlwaysSafe == EngineSpec => CleanupIsSafe
<1>1. ASSUME EngineInv, [EngineNext]_engineVars
      PROVE  [/\ \A r \in DeployedResources :
                    report.ledger[r] = "PreExisting" => host'[r] = host[r]
              /\ \A r \in {"LocalStorage", "ExternalImage"} :
                    host[r] = "ours" /\ host'[r] = "absent" => \A m \in Mounts : host[m] = "absent"
              /\ run.result = "unknown" =>
                    UNCHANGED host /\ engineOutcome' \in {"none", "reconcile", "crashed"}]_engineVars
  <2>1. CASE EngineNext
    BY <1>1, <2>1, StepIsSafe, UnknownIsLeftAlone DEF HostIsSafe
  <2>2. CASE UNCHANGED engineVars
    BY <2>2
  <2> QED
    BY <1>1, <2>1, <2>2
<1> QED
  BY <1>1, EngineInvariant, PTL DEF EngineSpec, CleanupIsSafe
=============================================================================
