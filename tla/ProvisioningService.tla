------------------------- MODULE ProvisioningService -------------------------
(***************************************************************************)
(* The deployment service of one Lasper process                            *)
(* (application/provisioning/service.rs) over the claim registry it shares  *)
(* with the other services, the crash manifests on disk, and the authority  *)
(* that runs the deployment: the process itself (direct route) or the       *)
(* elevated daemon, whose replies can be late or lost                       *)
(* (adapters/provisioning/elevated.rs, claim.rs).                           *)
(***************************************************************************)
EXTENDS Naturals, FiniteSets

CONSTANTS
    Machines,        \* machine names, the keys of the claim registry
    Deployments,     \* deployment ids; an id is used for one deployment only
    TargetOf,        \* the machine a deployment creates
    SourceOf,        \* the machine it clones, or NoSource
    NoSource,
    Foreign,         \* deployments that another Lasper process runs
    Releasers,       \* concurrent release_unresolved calls
    MaxServiceRevision,     \* bound on the revisions an executor writes
    MaxLives,        \* bound on process starts
    MaxReservations

ASSUME Plans ==
    /\ TargetOf \in [Deployments -> Machines]
    /\ SourceOf \in [Deployments -> Machines \cup {NoSource}]
    /\ NoSource \notin Machines
    /\ Foreign \subseteq Deployments
    /\ {MaxServiceRevision, MaxLives, MaxReservations} \subseteq Nat \ {0}

VARIABLES
    claims, imageRemovals, nextId, guards,  \* the process's OperationRegistry
    route,       \* how the process was composed: "direct" or "elevated"
    phase,       \* of the process: "down", the startup scan's steps, "up"
    lives,
    disk,        \* deployment -> revision of its crash manifest, 0 when absent
    scanned,     \* manifests the startup scan read
    job,         \* deployment -> progress of the task that start spawned
    outcome,     \* terminal claim status the executor's result maps to
    shown,       \* claim_status as observers of the job handle see it
    guardOf,     \* id of the reservation kept for a deployment, 0 when none
    unresolved,  \* unresolved_claims
    recovered,   \* recovered_claims, the entries the scan has added
    authority,   \* the executing side's record of a deployment
    releaser     \* release_unresolved calls in progress

regVars == <<claims, imageRemovals, nextId, guards>>
process == <<route, phase, lives, scanned, recovered>>
jobVars == <<job, outcome, shown, unresolved>>
serviceVars == <<regVars, process, jobVars, guardOf, disk, authority, releaser>>

NoImage == "none"
Reg == INSTANCE OperationRegistry WITH
            Keys <- Machines, Images <- {}, KeyOf <- <<>>

ClaimStatus ==
    {"Held", "Released", "ReconciliationRequired", "Reconciled",
     "ReleasedUnresolved"}
JobStates ==
    {"new", "foreign", "running", "settling", "announcing", "publishing",
     "done", "lost"}
\* "Sent": the request is in the daemon's socket and nobody has read it;
\* "Pending": the daemon has recorded the submission and not decided;
\* "Dead": the executing process ended before the deployment did.
AuthorityStates ==
    ClaimStatus \cup {"Idle", "Sent", "Pending", "Rejected", "Dead"}
Free == [retained |-> FALSE, releasing |-> FALSE, authorityReleased |-> FALSE]
ServiceEntry == [retained : BOOLEAN, releasing : BOOLEAN, authorityReleased : BOOLEAN]
IdleCall == [at |-> "idle"]
Call == [at : {"read", "authority", "remove", "finish", "drop"},
         id : Deployments, callAuthority : BOOLEAN, revision : 0..MaxServiceRevision]

-----------------------------------------------------------------------------
\* resource_claims: the target exclusively, a clone source shared.
ResourceClaims(d) ==
    {[key |-> TargetOf[d], access |-> "Exclusive"]} \cup
    {[key |-> s, access |-> "Shared"] : s \in {SourceOf[d]} \ {NoSource}}

\* recovery_claim of a crash manifest: the target only.
RecoveryClaim(d) == {[key |-> TargetOf[d], access |-> "Exclusive"]}

GuardWith(id) == CHOOSE g \in guards : g.id = id

\* Drop of the reservation kept for d.
DropReservation(d) ==
    /\ Reg!Release(GuardWith(guardOf[d]))
    /\ guardOf' = [guardOf EXCEPT ![d] = 0]

-----------------------------------------------------------------------------
\* The startup scan: main.rs runs unfinished_deployments to completion before
\* the TUI, so nothing else of this process runs meanwhile; the disk, which
\* other processes and a daemon that is still shutting down share, can move.

Boot ==
    /\ phase = "down"
    /\ lives < MaxLives
    /\ phase' = "read"
    /\ lives' = lives + 1
    /\ UNCHANGED <<regVars, jobVars, guardOf, disk, authority, releaser,
                   route, scanned, recovered>>

\* state.unfinished(): listing and reading can fail, and then the scan is over.
ScanRead ==
    /\ phase = "read"
    /\ \/ phase' = "reserve" /\ scanned' = {d \in Deployments : disk[d] > 0}
       \/ phase' = "up" /\ UNCHANGED scanned
    /\ UNCHANGED <<regVars, jobVars, guardOf, disk, authority, releaser,
                   route, lives, recovered>>

\* One reservation per manifest, in the hash map's arbitrary order.
ScanReserve(d) ==
    /\ phase = "reserve"
    /\ d \in scanned \ recovered
    /\ Reg!Reserve(RecoveryClaim(d))
    /\ guardOf' = [guardOf EXCEPT ![d] = Reg!FreshId]
    /\ recovered' = recovered \cup {d}
    /\ UNCHANGED <<jobVars, disk, authority, releaser, route, phase, lives,
                   scanned>>

\* A conflict returns from the scan with the additions not yet in the map.
ScanConflict(d) ==
    /\ phase = "reserve"
    /\ d \in scanned \ recovered
    /\ Reg!Conflicts(Reg!Canonicalize(RecoveryClaim(d)))
    /\ phase' = "abort"
    /\ UNCHANGED <<regVars, jobVars, guardOf, disk, authority, releaser,
                   route, lives, scanned, recovered>>

ScanDropAddition(d) ==
    /\ phase = "abort"
    /\ d \in recovered
    /\ DropReservation(d)
    /\ recovered' = recovered \ {d}
    /\ UNCHANGED <<jobVars, disk, authority, releaser, route, phase, lives,
                   scanned>>

\* The TUI starts whether or not the scan succeeded.
ScanEnds ==
    /\ \/ phase = "reserve" /\ recovered = scanned
       \/ phase = "abort" /\ recovered = {}
    /\ phase' = "up"
    /\ UNCHANGED <<regVars, jobVars, guardOf, disk, authority, releaser,
                   route, lives, scanned, recovered>>

-----------------------------------------------------------------------------
\* start and the task it spawns.

\* prepare_submission reserves; a conflict rejects the submission unchanged.
Start(d) ==
    /\ phase = "up"
    /\ job[d] = "new" /\ d \notin Foreign
    /\ Reg!Reserve(ResourceClaims(d))
    /\ guardOf' = [guardOf EXCEPT ![d] = Reg!FreshId]
    /\ job' = [job EXCEPT ![d] = "running"]
    /\ UNCHANGED <<process, outcome, shown, unresolved, disk, authority,
                   releaser>>

\* The executor returned (or panicked): its result as a claim status.
Returns(d, status) ==
    /\ phase = "up"
    /\ job[d] = "running"
    /\ job' = [job EXCEPT ![d] = "settling"]
    /\ outcome' = [outcome EXCEPT ![d] = status]
    /\ UNCHANGED <<regVars, process, shown, unresolved, guardOf, disk, releaser>>

\* Mutants: a retained claim without its reservation; and a claim retained for
\* every unknown outcome, the reconciled one included.
Settle_DropsAlways(d) ==
    /\ phase = "up"
    /\ job[d] = "settling"
    /\ job' = [job EXCEPT ![d] = "announcing"]
    /\ DropReservation(d)
    /\ unresolved' = [unresolved EXCEPT ![d] =
            [Free EXCEPT !.retained = (outcome[d] = "ReconciliationRequired")]]
    /\ UNCHANGED <<process, outcome, shown, disk, authority, releaser>>

\* A result that requires reconciliation keeps the reservation in
\* unresolved_claims; every other one drops it.
Settle(d) ==
    /\ phase = "up"
    /\ job[d] = "settling"
    /\ job' = [job EXCEPT ![d] = "announcing"]
    /\ IF outcome[d] = "ReconciliationRequired"
       THEN /\ unresolved' = [unresolved EXCEPT ![d] = [Free EXCEPT !.retained = TRUE]]
            /\ UNCHANGED <<regVars, guardOf>>
       ELSE DropReservation(d) /\ UNCHANGED unresolved
    /\ UNCHANGED <<process, outcome, shown, disk, authority, releaser>>

\* claim_status.send_replace, then terminal_status.send_replace.
Announce(d) ==
    /\ phase = "up"
    /\ job[d] = "announcing"
    /\ job' = [job EXCEPT ![d] = "publishing"]
    /\ shown' = [shown EXCEPT ![d] = outcome[d]]
    /\ UNCHANGED <<regVars, process, outcome, unresolved, guardOf, disk,
                   authority, releaser>>

Publish(d) ==
    /\ phase = "up"
    /\ job[d] = "publishing"
    /\ job' = [job EXCEPT ![d] = "done"]
    /\ UNCHANGED <<regVars, process, outcome, shown, unresolved, guardOf, disk,
                   authority, releaser>>

-----------------------------------------------------------------------------
\* The executing side: DirectProvisioningExecutor in this process or in the
\* daemon, with the deployment engine's effect on the manifest.

Becomes(d, from, to) ==
    /\ authority[d] \in from
    /\ authority' = [authority EXCEPT ![d] = to]
    /\ UNCHANGED <<regVars, process, jobVars, guardOf, releaser>>

\* Direct route: run starts in the spawned task.
RunDirect(d) ==
    /\ route = "direct" /\ phase = "up" /\ job[d] = "running"
    /\ Becomes(d, {"Idle"}, "Held")
    /\ UNCHANGED disk

\* Elevated route: the request is written to the daemon's FD socket, read by
\* the daemon some time later, and then rejected or registered.
Submit(d) ==
    /\ route = "elevated" /\ phase = "up" /\ job[d] = "running"
    /\ Becomes(d, {"Idle"}, "Sent")
    /\ UNCHANGED disk

DaemonReads(d) == Becomes(d, {"Sent"}, "Pending") /\ UNCHANGED disk
DaemonRejects(d) == Becomes(d, {"Sent", "Pending"}, "Rejected") /\ UNCHANGED disk
DaemonRegisters(d) == Becomes(d, {"Pending"}, "Held") /\ UNCHANGED disk

\* The executor creates the manifest and moves it through its revisions.
ExecutorWrites(d) ==
    /\ disk[d] < MaxServiceRevision
    /\ disk' = [disk EXCEPT ![d] = @ + 1]
    /\ Becomes(d, {"Held"}, "Held")

\* A known outcome removed the manifest, unless creating it was what failed:
\* that write can have reached the disk.
ExecutorKnowsOutcome(d) ==
    /\ \/ disk' = [disk EXCEPT ![d] = 0]
       \/ disk[d] = 1 /\ UNCHANGED disk
    /\ Becomes(d, {"Held"}, "Released")

\* Any other end keeps the claim: an unrecorded effect, a failed cleanup, a
\* manifest that could not be removed or whose removal was not confirmed.
ExecutorUnsure(d) ==
    /\ \/ UNCHANGED disk
       \/ disk' = [disk EXCEPT ![d] = 0]
    /\ Becomes(d, {"Held"}, "ReconciliationRequired")

\* The daemon outlives the client for its shutdown grace and then dies.
DaemonGone(d) ==
    /\ route = "elevated" /\ job[d] = "lost"
    /\ Becomes(d, {"Sent", "Pending", "Held"}, "Dead")
    /\ UNCHANGED disk

-----------------------------------------------------------------------------
\* What the executor port returns to the task.

DirectResult(d) ==
    /\ route = "direct"
    /\ authority[d] \in {"Released", "ReconciliationRequired"}
    /\ Returns(d, authority[d])
    /\ UNCHANGED authority

\* resolve_submission after the submission failed or timed out: a submission
\* the daemon does not know counts as rejected; a failed query is unknown.
UnknownSubmission(d) ==
    /\ route = "elevated"
    /\ authority[d] \in {"Idle", "Sent"}
    /\ Returns(d, "Released")
    /\ UNCHANGED authority

RejectedSubmission(d) ==
    /\ route = "elevated"
    /\ authority[d] = "Rejected"
    /\ Returns(d, "Released")
    /\ UNCHANGED authority

\* A status, reconcile or resolve call that fails or times out.
LosesContact(d) ==
    /\ route = "elevated"
    /\ Returns(d, "ReconciliationRequired")
    /\ UNCHANGED authority

\* finish with the daemon's terminal snapshot.
FinishKnown(d) ==
    /\ route = "elevated"
    /\ authority[d] = "Released"
    /\ Returns(d, "Released")
    /\ UNCHANGED authority

\* finish asks the daemon to reconcile: it gives up its claim exactly when no
\* manifest is left, and the answer may get lost on the way back.
FinishUnknown(d) ==
    /\ route = "elevated"
    /\ authority[d] = "ReconciliationRequired"
    /\ IF disk[d] = 0
       THEN /\ authority' = [authority EXCEPT ![d] = "Reconciled"]
            /\ Returns(d, "Reconciled") \/ Returns(d, "ReconciliationRequired")
       ELSE /\ Returns(d, "ReconciliationRequired")
            /\ UNCHANGED authority

-----------------------------------------------------------------------------
\* release_unresolved, one action per await; r is the call.

Step(r, at) == releaser' = [releaser EXCEPT ![r].at = at]

\* Every early return after the first one clears release_in_progress.
GiveUp(r) ==
    /\ unresolved' = [unresolved EXCEPT ![releaser[r].id].releasing = FALSE]
    /\ releaser' = [releaser EXCEPT ![r] = IdleCall]

\* The deployment view offers the release for a finished job whose claim
\* status is ReconciliationRequired.
BeginRelease(r, d) ==
    /\ phase = "up"
    /\ releaser[r] = IdleCall
    /\ job[d] = "done" /\ shown[d] = "ReconciliationRequired"
    /\ unresolved[d].retained /\ ~ unresolved[d].releasing
    /\ unresolved' = [unresolved EXCEPT ![d].releasing = TRUE]
    /\ releaser' = [releaser EXCEPT ![r] =
            [at |-> "read", id |-> d, revision |-> 0,
             callAuthority |-> ~ unresolved[d].authorityReleased]]
    /\ UNCHANGED <<regVars, process, job, outcome, shown, guardOf, disk, authority>>

\* The manifest's revision is captured before the authority is asked.
ReadRevision(r) ==
    /\ releaser[r].at = "read"
    /\ \/ /\ releaser' = [releaser EXCEPT
                 ![r].revision = disk[releaser[r].id],
                 ![r].at = IF releaser[r].callAuthority THEN "authority" ELSE "remove"]
          /\ UNCHANGED unresolved
       \/ GiveUp(r)
    /\ UNCHANGED <<regVars, process, job, outcome, shown, guardOf, disk, authority>>

\* The direct route has no other authority.  The daemon releases only a
\* terminal record that requires reconciliation; its answer can be lost.
AuthorityReleases(r) ==
    LET d == releaser[r].id
        Granted == /\ unresolved' = [unresolved EXCEPT ![d].authorityReleased = TRUE]
                   /\ Step(r, "remove")
    IN  /\ releaser[r].at = "authority"
        /\ \/ route = "direct" /\ Granted /\ UNCHANGED authority
           \/ /\ route = "elevated"
              /\ authority[d] = "ReconciliationRequired"
              /\ authority' = [authority EXCEPT ![d] = "ReleasedUnresolved"]
              /\ Granted \/ GiveUp(r)
           \/ route = "elevated" /\ GiveUp(r) /\ UNCHANGED authority
        /\ UNCHANGED <<regVars, process, job, outcome, shown, guardOf, disk>>

\* state.remove with the captured revision; skipped when none was found.
RemoveManifest(r) ==
    LET d == releaser[r].id
    IN  /\ releaser[r].at = "remove"
        /\ \/ /\ releaser[r].revision = 0
              /\ Step(r, "finish") /\ UNCHANGED <<unresolved, disk>>
           \/ /\ releaser[r].revision # 0
              /\ disk[d] = releaser[r].revision
              /\ disk' = [disk EXCEPT ![d] = 0]
              /\ \/ Step(r, "finish") /\ UNCHANGED unresolved
                 \/ GiveUp(r)
           \/ /\ releaser[r].revision # 0
              /\ GiveUp(r) /\ UNCHANGED disk
        /\ UNCHANGED <<regVars, process, job, outcome, shown, guardOf, authority>>

\* The entry leaves the map and the status is sent; its reservation is dropped
\* when the call returns.
FinishRelease(r) ==
    /\ releaser[r].at = "finish"
    /\ unresolved' = [unresolved EXCEPT ![releaser[r].id] = Free]
    /\ shown' = [shown EXCEPT ![releaser[r].id] = "ReleasedUnresolved"]
    /\ Step(r, "drop")
    /\ UNCHANGED <<regVars, process, job, outcome, guardOf, disk, authority>>

DropClaim(r) ==
    /\ releaser[r].at = "drop"
    /\ DropReservation(releaser[r].id)
    /\ releaser' = [releaser EXCEPT ![r] = IdleCall]
    /\ UNCHANGED <<process, jobVars, disk, authority>>

-----------------------------------------------------------------------------
\* The process ends at any point: everything but the disk, and the daemon for
\* its grace period, is lost with it.
Crash ==
    /\ phase # "down"
    /\ phase' = "down"
    /\ claims' = [k \in Machines |-> {}]
    /\ imageRemovals' = imageRemovals
    /\ nextId' = 0
    /\ guards' = {}
    /\ guardOf' = [d \in Deployments |-> 0]
    /\ unresolved' = [d \in Deployments |-> Free]
    /\ recovered' = {} /\ scanned' = {}
    /\ releaser' = [r \in Releasers |-> IdleCall]
    /\ job' = [d \in Deployments |->
                  IF job[d] \in {"new", "foreign"} THEN job[d] ELSE "lost"]
    /\ outcome' = [d \in Deployments |-> "Held"]
    /\ shown' = [d \in Deployments |-> "Held"]
    /\ authority' = IF route = "elevated" THEN authority
                    ELSE [d \in Deployments |->
                             IF authority[d] = "Held" THEN "Dead" ELSE authority[d]]
    /\ UNCHANGED <<route, lives, disk>>

\* Another Lasper process on the host keeps its manifests in the same place.
ForeignDeploys(d) ==
    /\ d \in Foreign
    /\ \/ job[d] = "new" /\ disk' = [disk EXCEPT ![d] = 1]
       \/ job[d] = "foreign" /\ disk' = [disk EXCEPT ![d] = 0]
    /\ job' = [job EXCEPT ![d] = "foreign"]
    /\ UNCHANGED <<regVars, process, outcome, shown, unresolved, guardOf,
                   authority, releaser>>

ServiceInit ==
    /\ Reg!Init
    /\ route \in {"direct", "elevated"}
    /\ phase = "down" /\ lives = 0
    /\ disk = [d \in Deployments |-> 0]
    /\ scanned = {} /\ recovered = {}
    /\ job = [d \in Deployments |-> "new"]
    /\ outcome = [d \in Deployments |-> "Held"]
    /\ shown = [d \in Deployments |-> "Held"]
    /\ guardOf = [d \in Deployments |-> 0]
    /\ unresolved = [d \in Deployments |-> Free]
    /\ authority = [d \in Deployments |-> "Idle"]
    /\ releaser = [r \in Releasers |-> IdleCall]

Scan ==
    \/ ScanRead \/ ScanEnds
    \/ \E d \in Deployments :
          ScanReserve(d) \/ ScanConflict(d) \/ ScanDropAddition(d)

Executing(d) ==
    \/ RunDirect(d) \/ Submit(d)
    \/ DaemonReads(d) \/ DaemonRejects(d) \/ DaemonRegisters(d)
    \/ ExecutorWrites(d) \/ ExecutorKnowsOutcome(d) \/ ExecutorUnsure(d)
    \/ DaemonGone(d)

Task(d) ==
    \/ DirectResult(d) \/ UnknownSubmission(d) \/ RejectedSubmission(d)
    \/ LosesContact(d) \/ FinishKnown(d) \/ FinishUnknown(d)
    \/ Settle(d) \/ Announce(d) \/ Publish(d)

ReleaseCall(r) ==
    \/ ReadRevision(r) \/ AuthorityReleases(r) \/ RemoveManifest(r)
    \/ FinishRelease(r) \/ DropClaim(r)

ServiceNext ==
    \/ Boot \/ Scan \/ Crash
    \/ \E d \in Deployments :
          Start(d) \/ Executing(d) \/ Task(d) \/ ForeignDeploys(d)
    \/ \E r \in Releasers :
          ReleaseCall(r) \/ \E d \in Deployments : BeginRelease(r, d)

ServiceSpec == ServiceInit /\ [][ServiceNext]_serviceVars

-----------------------------------------------------------------------------
\* Every variable has its type: deployments, tasks and the scan are in one of
\* their positions, and a manifest revision was written by the executor.
ServiceTypeOK ==
    /\ Reg!TypeOK
    /\ route \in {"direct", "elevated"}
    /\ phase \in {"down", "read", "reserve", "abort", "up"}
    /\ lives \in 0..MaxLives
    /\ disk \in [Deployments -> 0..MaxServiceRevision]
    /\ scanned \subseteq Deployments /\ recovered \subseteq Deployments
    /\ job \in [Deployments -> JobStates]
    /\ outcome \in [Deployments -> ClaimStatus]
    /\ shown \in [Deployments -> ClaimStatus]
    /\ guardOf \in [Deployments -> 0..nextId]
    /\ unresolved \in [Deployments -> ServiceEntry]
    /\ authority \in [Deployments -> AuthorityStates]
    /\ releaser \in [Releasers -> Call \cup {IdleCall}]

\* The service considers itself responsible for d: its task has not settled, or
\* one of its maps, or a release that is about to return, has the claim.
Responsible(d) ==
    \/ job[d] \in {"running", "settling"}
    \/ unresolved[d].retained
    \/ d \in recovered
    \/ \E r \in Releasers : releaser[r].at = "drop" /\ releaser[r].id = d

\* Whatever a deployment went through (running, unresolved, found by the scan,
\* being released), the service holds the registry's exclusive claim on its
\* target exactly as long as it is responsible for it, so no two deployments
\* of one process are ever at work on, or in doubt about, the same machine.
\* A release never completes under a running executor: the durable manifest is
\* discarded, and the machine freed, only after the executing side is done.
\* And release_in_progress is set exactly while one call works on the entry: no
\* early return leaves the flag set, which would make the claim impossible to
\* release.
ClaimFollowsResponsibility ==
    \A d \in Deployments :
        /\ Responsible(d) <=> guardOf[d] # 0
        /\ guardOf[d] # 0 =>
              claims[TargetOf[d]] = {[access |-> "Exclusive", owner |-> guardOf[d]]}
        /\ \/ shown[d] = "ReleasedUnresolved"
           \/ \E r \in Releasers : releaser[r].at \in {"remove", "finish"} /\ releaser[r].id = d
           => authority[d] = IF route = "elevated" THEN "ReleasedUnresolved"
                             ELSE "ReconciliationRequired"
        /\ LET calls == {r \in Releasers : releaser[r].at \notin {"idle", "drop"}
                                           /\ releaser[r].id = d}
           IN  /\ unresolved[d].releasing <=> calls # {}
               /\ Cardinality(calls) <= 1

-----------------------------------------------------------------------------

==============================================================================
