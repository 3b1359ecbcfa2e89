---------------------------- MODULE DeploymentJobs ----------------------------
(***************************************************************************)
(* The elevated daemon's deployment registry (daemon/jobs/server.rs):       *)
(* submissions, job records, and the bounded history a client resolves       *)
(* lost answers from.  A client draws a fresh request id and a fresh          *)
(* deployment id for every submission, so one value stands for both.          *)
(* Every action is one critical section of the registry's mutex.              *)
(***************************************************************************)
EXTENDS Naturals, FiniteSets

CONSTANTS
    Deployments,
    Machines,
    TargetOf,      \* the machine whose exclusive claim a deployment needs
    MaxRecords,    \* MAX_DEPLOYMENT_RECORDS
    MaxRevision    \* bound on the revisions that progress updates reach

ASSUME Targets == TargetOf \in [Deployments -> Machines]
ASSUME Bounds == MaxRecords \in Nat \ {0} /\ MaxRevision \in Nat \ {0}

VARIABLES
    submissions,  \* request -> submission record, status "None" when absent
    older,        \* <<a, b>> when a's sequence number is below b's
    jobs,         \* deployment -> job record, status "None" when absent
    handler,      \* progress of the FD connection that submits a deployment
    executor,     \* "none", "running" or "ended"
    manifest,     \* whether a finished deployment left its crash manifest
    reconciling   \* reconcile call: "no", "checked", or what it read

vars == <<submissions, older, jobs, handler, executor, manifest, reconciling>>

SubmissionStatus == {"None", "Pending", "Accepted", "Rejected"}
\* Succeeded, Failed and Cancelled are treated alike here: "Known".
Finished == {"Known", "ReconciliationRequired"}
Status == {"None", "Running", "RollingBack"} \cup Finished
ClaimState ==
    {"Held", "Released", "ReconciliationRequired", "Reconciled",
     "ReleasedUnresolved"}
Submission == [status : SubmissionStatus, acknowledged : BOOLEAN]
Job == [status : Status, claim : ClaimState, revision : Nat,
        cancelled : BOOLEAN, reservation : BOOLEAN, acknowledged : BOOLEAN,
        leases : Nat]

NoSubmission == [status |-> "None", acknowledged |-> FALSE]
NoJob == [status |-> "None", claim |-> "Released", revision |-> 0,
          cancelled |-> FALSE, reservation |-> FALSE, acknowledged |-> FALSE,
          leases |-> 0]

Recorded == {d \in Deployments : submissions[d].status # "None"}
Registered == {d \in Deployments : jobs[d].status # "None"}

-----------------------------------------------------------------------------
\* next_sequence given to the submission of d: it is now the youngest.
Touch(d) ==
    {p \in older : p[1] # d} \cup {<<e, d>> : e \in Recorded \ {d}}

\* Mutant: an acknowledged record is evicted under a stream that is still open.
Evictable_IgnoresLeases(d) ==
    /\ submissions[d].acknowledged
    /\ \/ submissions[d].status = "Rejected"
       \/ /\ submissions[d].status = "Accepted"
          /\ jobs[d].acknowledged
          /\ jobs[d].claim \in {"Released", "Reconciled", "ReleasedUnresolved"}

\* The filter of evict_one.
Evictable(d) ==
    /\ submissions[d].acknowledged
    /\ \/ submissions[d].status = "Rejected"
       \/ /\ submissions[d].status = "Accepted"
          /\ jobs[d].status # "None"
          /\ jobs[d].acknowledged
          /\ jobs[d].leases = 0
          /\ jobs[d].claim \in {"Released", "Reconciled", "ReleasedUnresolved"}

Oldest(d) ==
    Evictable(d) /\ \A e \in Deployments : Evictable(e) => <<e, d>> \notin older

\* evict_one removes a submission together with the job it was accepted as.
Evict(victims, new) ==
    /\ submissions' = [d \in Deployments |->
            CASE d \in victims -> NoSubmission
              [] d = new -> [status |-> "Pending", acknowledged |-> FALSE]
              [] OTHER -> submissions[d]]
    /\ jobs' = [d \in Deployments |->
                   IF d \in victims /\ submissions[d].status = "Accepted"
                   THEN NoJob ELSE jobs[d]]
    /\ older' = {p \in Touch(new) : p[1] \notin victims /\ p[2] \notin victims}

\* At capacity one finished record makes room, or the submission is refused
\* and leaves no trace.
ReserveSubmission(d) ==
    /\ handler[d] = "none"
    /\ submissions[d].status = "None"
    /\ \/ Cardinality(Recorded) < MaxRecords /\ Evict({}, d)
       \/ /\ Cardinality(Recorded) >= MaxRecords
          /\ \E e \in Deployments : Oldest(e) /\ Evict({e}, d)
    /\ handler' = [handler EXCEPT ![d] = "reserved"]
    /\ UNCHANGED <<executor, manifest, reconciling>>

\* The artifact, the secrets, the pipe or the registration failed.
RejectSubmission(d) ==
    /\ handler[d] = "reserved"
    /\ submissions' = [submissions EXCEPT ![d].status = "Rejected"]
    /\ older' = Touch(d)
    /\ handler' = [handler EXCEPT ![d] = "done"]
    /\ UNCHANGED <<jobs, executor, manifest, reconciling>>

\* operations.reserve: the daemon's claim registry grants an exclusive claim
\* on a machine to one reservation at a time.
Free(m) == \A d \in Deployments : jobs[d].reservation => TargetOf[d] # m

NewJob == [status |-> "Running", claim |-> "Held", revision |-> 1,
           cancelled |-> FALSE, reservation |-> TRUE, acknowledged |-> FALSE,
           leases |-> 0]

Register(d) ==
    /\ handler[d] = "reserved"
    /\ submissions[d].status = "Pending"
    /\ Cardinality(Registered) < MaxRecords
    /\ jobs[d].status = "None"
    /\ Free(TargetOf[d])
    /\ jobs' = [jobs EXCEPT ![d] = NewJob]
    /\ submissions' = [submissions EXCEPT ![d].status = "Accepted"]
    /\ older' = Touch(d)
    /\ handler' = [handler EXCEPT ![d] = "registered"]
    /\ UNCHANGED <<executor, manifest, reconciling>>

\* register_stream; then the executor and the forwarder are spawned.
RegisterStream(d) ==
    /\ handler[d] = "registered"
    /\ jobs[d].status # "None"
    /\ jobs' = [jobs EXCEPT ![d].leases = @ + 1]
    /\ handler' = [handler EXCEPT ![d] = "done"]
    /\ executor' = [executor EXCEPT ![d] = "running"]
    /\ UNCHANGED <<submissions, older, manifest, reconciling>>

\* Drop of the forwarder's lease: every return of the forwarder follows a
\* terminal status, also when its client has gone away long before.
ReleaseStream(d) ==
    /\ jobs[d].leases > 0
    /\ jobs[d].status \in Finished
    /\ jobs' = [jobs EXCEPT ![d].leases = @ - 1]
    /\ UNCHANGED <<submissions, older, handler, executor, manifest, reconciling>>

-----------------------------------------------------------------------------
\* The forwarder reports progress of a deployment that has not finished.
ObserveStatus(d, status) ==
    /\ jobs[d].leases > 0
    /\ jobs[d].status \in {"Running", "RollingBack"} \ {status}
    /\ jobs[d].revision < MaxRevision
    /\ jobs' = [jobs EXCEPT ![d].status = status, ![d].revision = @ + 1]
    /\ UNCHANGED <<submissions, older, handler, executor, manifest, reconciling>>

\* Mutants: the claim of an unknown outcome is reported as released; the
\* reservation is dropped whatever the outcome.
TerminalClaim_Released(status) == "Released"

TerminalClaim(status) ==
    IF status = "ReconciliationRequired" THEN "ReconciliationRequired" ELSE "Released"

Finalized(job, status) ==
    [job EXCEPT !.status = status,
                !.claim = TerminalClaim(status),
                !.revision = @ + 1,
                !.reservation = @ /\ TerminalClaim(status) = "ReconciliationRequired"]

\* run_deployment_executor returned; a manifest may or may not be left on disk.
Finalize(d, status) ==
    /\ executor[d] = "running"
    /\ jobs[d].status \in {"Running", "RollingBack"}
    /\ executor' = [executor EXCEPT ![d] = "ended"]
    /\ jobs' = [jobs EXCEPT ![d] = Finalized(@, status)]
    /\ \E left \in BOOLEAN : manifest' = [manifest EXCEPT ![d] = left]
    /\ UNCHANGED <<submissions, older, handler, reconciling>>

-----------------------------------------------------------------------------
\* The client's calls, in any order and any number of times.

AcknowledgeSubmission(d) ==
    /\ submissions[d].status \notin {"None", "Pending"}
    /\ submissions' = [submissions EXCEPT ![d].acknowledged = TRUE]
    /\ older' = Touch(d)
    /\ UNCHANGED <<jobs, handler, executor, manifest, reconciling>>

\* Finished jobs and repeated requests are left as they are.
Cancel(d) ==
    /\ jobs[d].status \in {"Running", "RollingBack"}
    /\ ~ jobs[d].cancelled
    /\ jobs' = [jobs EXCEPT ![d].cancelled = TRUE, ![d].revision = @ + 1]
    /\ UNCHANGED <<submissions, older, handler, executor, manifest, reconciling>>

Acknowledge(d) ==
    /\ jobs[d].status \in Finished
    /\ jobs[d].claim # "ReconciliationRequired"
    /\ submissions[d].acknowledged
    /\ jobs' = [jobs EXCEPT ![d].acknowledged = TRUE]
    /\ UNCHANGED <<submissions, older, handler, executor, manifest, reconciling>>

\* Both ways out of an unresolved claim give the reservation back.
LetGo(job, claim) ==
    [job EXCEPT !.claim = claim, !.revision = @ + 1, !.reservation = FALSE]

ReleaseUnresolved(d) ==
    /\ jobs[d].status \in Finished
    /\ jobs[d].claim = "ReconciliationRequired"
    /\ jobs' = [jobs EXCEPT ![d] = LetGo(@, "ReleasedUnresolved")]
    /\ UNCHANGED <<submissions, older, handler, executor, manifest, reconciling>>

\* After a release the client discards the manifest.
DiscardManifest(d) ==
    /\ jobs[d].claim = "ReleasedUnresolved" /\ manifest[d]
    /\ manifest' = [manifest EXCEPT ![d] = FALSE]
    /\ UNCHANGED <<submissions, older, jobs, handler, executor, reconciling>>

\* ReconcileDeployment: check the claim, read the manifests, then apply what
\* was read; the registry is unlocked in between.
BeginReconcile(d) ==
    /\ reconciling[d] = "no"
    /\ jobs[d].status # "None"
    /\ jobs[d].claim = "ReconciliationRequired"
    /\ reconciling' = [reconciling EXCEPT ![d] = "checked"]
    /\ UNCHANGED <<submissions, older, jobs, handler, executor, manifest>>

ReadManifests(d) ==
    /\ reconciling[d] = "checked"
    /\ reconciling' = [reconciling EXCEPT ![d] =
                          IF manifest[d] THEN "present" ELSE "absent"]
    /\ UNCHANGED <<submissions, older, jobs, handler, executor, manifest>>

Reconcile(d) ==
    /\ reconciling[d] \in {"present", "absent"}
    /\ reconciling' = [reconciling EXCEPT ![d] = "no"]
    /\ jobs' = IF /\ reconciling[d] = "absent"
                  /\ jobs[d].status = "ReconciliationRequired"
                  /\ jobs[d].claim = "ReconciliationRequired"
               THEN [jobs EXCEPT ![d] = LetGo(@, "Reconciled")] ELSE jobs
    /\ UNCHANGED <<submissions, older, handler, executor, manifest>>

Init ==
    /\ submissions = [d \in Deployments |-> NoSubmission]
    /\ older = {}
    /\ jobs = [d \in Deployments |-> NoJob]
    /\ handler = [d \in Deployments |-> "none"]
    /\ executor = [d \in Deployments |-> "none"]
    /\ manifest = [d \in Deployments |-> FALSE]
    /\ reconciling = [d \in Deployments |-> "no"]

Submit(d) ==
    \/ ReserveSubmission(d) \/ RejectSubmission(d) \/ Register(d)
    \/ RegisterStream(d)
Execute(d) ==
    \/ ReleaseStream(d)
    \/ \E status \in {"Running", "RollingBack"} : ObserveStatus(d, status)
    \/ \E status \in Finished : Finalize(d, status)
Client(d) ==
    \/ AcknowledgeSubmission(d) \/ Cancel(d) \/ Acknowledge(d)
    \/ ReleaseUnresolved(d) \/ DiscardManifest(d)
    \/ BeginReconcile(d) \/ ReadManifests(d) \/ Reconcile(d)

Next == \E d \in Deployments : Submit(d) \/ Execute(d) \/ Client(d)

Spec == Init /\ [][Next]_vars

-----------------------------------------------------------------------------
\* Every variable has its type, and the lease of a stream is given back only by
\* a job that has one.
TypeOK ==
    /\ submissions \in [Deployments -> Submission]
    /\ older \subseteq Deployments \X Deployments
    /\ jobs \in [Deployments -> Job]
    /\ handler \in [Deployments -> {"none", "reserved", "registered", "done"}]
    /\ executor \in [Deployments -> {"none", "running", "ended"}]
    /\ manifest \in [Deployments -> BOOLEAN]
    /\ reconciling \in [Deployments -> {"no", "checked", "present", "absent"}]

\* A job is found together with the submission it was accepted as: acknowledge
\* relies on it ("job retains its submission record", server.rs:373), and a
\* client that lost the answer resolves its submission to a job that exists.
JobAndSubmissionTogether ==
    \A d \in Deployments :
        submissions[d].status = "Accepted" <=> jobs[d].status # "None"

\* The machine's claim is held exactly as long as the record says so: no path
\* through finalize, reconcile, release and eviction leaks it or drops it early.
ReservationTracksClaim ==
    \A d \in Deployments :
        jobs[d].reservation <=>
            /\ jobs[d].status # "None"
            /\ jobs[d].claim \in {"Held", "ReconciliationRequired"}

\* Every snapshot the daemon can send passes the client's validate_snapshot
\* (adapters/provisioning/elevated.rs:348-384): a revision above zero and a claim
\* that fits the status.
SnapshotsValidate ==
    \A d \in Registered :
        /\ jobs[d].revision > 0
        /\ jobs[d].claim \in
            CASE jobs[d].status \in {"Running", "RollingBack"} -> {"Held"}
              [] jobs[d].status = "ReconciliationRequired" ->
                    {"ReconciliationRequired", "Reconciled", "ReleasedUnresolved"}
              [] OTHER -> {"Released"}

\* Reconciled is said only of a deployment that left no manifest behind, even
\* though the manifests are read with the registry unlocked (jobs/mod.rs:163).
ReconciledLeftNothing ==
    \A d \in Deployments : jobs[d].claim = "Reconciled" => ~ manifest[d]

\* The history never exceeds its limit, and an accepted submission always finds
\* room for its job: register's own capacity test is never what refuses it.
HistoryBounded ==
    /\ Cardinality(Recorded) <= MaxRecords
    /\ \A d \in Deployments :
          submissions[d].status = "Pending" => Cardinality(Registered) < MaxRecords

\* A record leaves the registry only when nobody can need it any more: the
\* deployment has ended and given up its claim, the client acknowledged both
\* the submission and the result, and no stream still has frames to deliver.
EvictionIsSafe ==
    [][\A d \in Deployments :
          jobs[d].status # "None" /\ jobs'[d].status = "None" =>
              /\ executor[d] = "ended"
              /\ ~ jobs[d].reservation
              /\ submissions[d].acknowledged /\ jobs[d].acknowledged
              /\ jobs[d].leases = 0]_vars

\* A terminal result is never revised, and an unresolved claim is given up once:
\* late progress reports, cancellations and reconcile calls change nothing.
TerminalIsFinal ==
    [][\A d \in Deployments :
          jobs[d].status \in Finished /\ jobs'[d].status # "None" =>
              /\ jobs'[d].status = jobs[d].status
              /\ jobs'[d].cancelled = jobs[d].cancelled
              /\ jobs[d].claim # "ReconciliationRequired" =>
                    jobs'[d].claim = jobs[d].claim]_vars

===============================================================================
