------------------------------ MODULE JobStream ------------------------------
(***************************************************************************)
(* One accepted deployment between the daemon and its client: the executor   *)
(* that ends it, the forwarder that copies its events and status into a pipe  *)
(* (daemon/jobs/server.rs), the client that follows the pipe and falls back   *)
(* to polling (adapters/provisioning/elevated.rs), and the task that carries  *)
(* a cancellation over.  The record is the one DeploymentJobs keeps.          *)
(***************************************************************************)
EXTENDS Naturals, Sequences, SequencesExt

CONSTANTS
    EventCapacity,  \* DEPLOYMENT_EVENT_CAPACITY
    PipeCapacity,   \* frames the pipe holds before a writer blocks
    MaxEvents       \* bound on the events the executor sends

ASSUME Bounds ==
    EventCapacity \in Nat \ {0} /\ PipeCapacity \in Nat \ {0} /\ MaxEvents \in Nat

VARIABLES
    record,     \* the daemon's record of the job
    manifest,   \* whether the finished deployment left its crash manifest
    executor,   \* [phase, outcome, sending, sent]
    events,     \* number of events in the job's channel
    watch,      \* status channel: its value, and whether the forwarder saw it
    forwarder,  \* [pc, frame, next]: position, and a frame being written
    open,       \* the forwarder's stream_open
    pipe,       \* frames written and not yet read
    reader,     \* the client holds the reading end
    client,     \* [pc, snapshot, last, received, result]
    cancel      \* [requested, notifies, pc, seen]: flag, Notify and its waiter

daemonVars == <<record, manifest, executor, events, watch>>
streamVars == <<forwarder, open, pipe>>
vars == <<daemonVars, streamVars, reader, client, cancel>>

Progress == {"Running", "RollingBack"}
Finished == {"Succeeded", "Failed", "Cancelled", "ReconciliationRequired"}
Claim == {"Held", "Released", "ReconciliationRequired", "Reconciled"}
Record == [status : Progress \cup Finished, claim : Claim, revision : Nat,
           cancelled : BOOLEAN]

Event == [kind |-> "event"]
Torn == [kind |-> "torn"]    \* what a write that timed out may leave behind
Snapshot(r) == [kind |-> "snapshot", status |-> r.status, claim |-> r.claim,
                revision |-> r.revision]
IsSnapshot(f) == f.kind = "snapshot"
IsTerminal(f) == IsSnapshot(f) /\ f.status \in Finished
NoFrame == [kind |-> "none"]
Frame == {Event, Torn, NoFrame} \cup
         [kind : {"snapshot"}, status : Progress \cup Finished, claim : Claim,
          revision : Nat]

-----------------------------------------------------------------------------
\* The executor (submit's first task and run_deployment).

\* An event is sent with a wait when the channel is full.
EmitEvent ==
    /\ executor.phase \in {"working", "rollingBack", "rolledBack"}
    /\ ~ executor.sending /\ executor.sent < MaxEvents
    /\ executor' = [executor EXCEPT !.sending = TRUE]
    /\ UNCHANGED <<record, manifest, events, watch>>

SendEvent ==
    /\ executor.sending
    /\ events < EventCapacity
    /\ executor' = [executor EXCEPT !.sending = FALSE, !.sent = @ + 1]
    /\ events' = events + 1
    /\ UNCHANGED <<record, manifest, watch>>

\* set_rolling_back(true), then set_rolling_back(false) when rollback is over.
SetRollingBack ==
    /\ ~ executor.sending
    /\ \/ /\ executor.phase = "working"
          /\ executor' = [executor EXCEPT !.phase = "rollingBack"]
          /\ watch' = [value |-> "RollingBack", fresh |-> TRUE]
       \/ /\ executor.phase = "rollingBack"
          /\ executor' = [executor EXCEPT !.phase = "rolledBack"]
          /\ watch' = [value |-> "Running", fresh |-> TRUE]
    /\ UNCHANGED <<record, manifest, events>>

\* run_deployment returns, or panics; an error is also put into the channel when
\* there is room.  The last sender of events is dropped.
Outcomes ==
    {"ReconciliationRequired"}
        \cup (IF executor.phase # "rollingBack" THEN {"Failed"} ELSE {})
        \cup (IF executor.phase = "working" THEN {"Succeeded"} ELSE {})
        \cup (IF executor.phase # "rollingBack" /\ record.cancelled
              THEN {"Cancelled"} ELSE {})

Return(outcome) ==
    /\ executor.phase \in {"working", "rollingBack", "rolledBack"}
    /\ ~ executor.sending
    /\ outcome \in Outcomes
    /\ LET logged == outcome # "Succeeded" /\ events < EventCapacity
       IN  /\ events' = IF logged THEN events + 1 ELSE events
           /\ executor' = [executor EXCEPT !.phase = "returned", !.outcome = outcome,
                                           !.sent = IF logged THEN @ + 1 ELSE @]
    /\ UNCHANGED <<record, manifest, watch>>

\* DeploymentRegistry::finalize.
Finalized(r, status) ==
    [r EXCEPT !.status = status, !.revision = @ + 1,
              !.claim = IF status = "ReconciliationRequired" THEN status ELSE "Released"]

Finalize ==
    /\ executor.phase = "returned"
    /\ record' = Finalized(record, executor.outcome)
    /\ executor' = [executor EXCEPT !.phase = "finalized"]
    /\ manifest' \in (IF executor.outcome = "ReconciliationRequired"
                      THEN BOOLEAN ELSE {FALSE})
    /\ UNCHANGED <<events, watch>>

\* Only then the status channel says so.
Announce ==
    /\ executor.phase = "finalized"
    /\ executor' = [executor EXCEPT !.phase = "announced"]
    /\ watch' = [value |-> executor.outcome, fresh |-> TRUE]
    /\ UNCHANGED <<record, manifest, events>>

\* What follows by itself once the deployment has produced an event or ended.
HandOver ==
    /\ SendEvent \/ Finalize \/ Announce
    /\ UNCHANGED <<streamVars, reader, client, cancel>>

Work ==
    /\ EmitEvent \/ SetRollingBack \/ \E outcome \in Finished : Return(outcome)
    /\ UNCHANGED <<streamVars, reader, client, cancel>>

-----------------------------------------------------------------------------
\* forward_job_stream.

GoOn(pc) == forwarder' = [forwarder EXCEPT !.pc = pc]

\* write_frame if the stream is open, then on to next.
Write(frame, next) ==
    IF open THEN forwarder' = [pc |-> "write", frame |-> frame, next |-> next]
            ELSE GoOn(next)

Top ==
    /\ forwarder.pc = "top"
    /\ GoOn(IF watch.value \in Finished THEN "drain" ELSE "select")
    /\ UNCHANGED <<record, events, watch, open, pipe>>

\* select!: the next event; None once the executor has dropped its senders.
SelectEvent ==
    /\ forwarder.pc = "select"
    /\ \/ /\ events > 0
          /\ events' = events - 1
          /\ Write(Event, "top")
       \/ /\ events = 0
          /\ executor.phase \in {"returned", "finalized", "announced"}
          /\ GoOn("top")
          /\ UNCHANGED events
    /\ UNCHANGED <<record, watch, open, pipe>>

\* select!: changed() marks the value as seen; it is read afterwards.
SelectStatus ==
    /\ forwarder.pc = "select"
    /\ watch.fresh
    /\ watch' = [watch EXCEPT !.fresh = FALSE]
    /\ GoOn("changed")
    /\ UNCHANGED <<record, events, open, pipe>>

\* observe_status: an error, because the status or the record is already
\* terminal, ends the forwarder.
Observed(r, status) ==
    IF status = r.status THEN r ELSE [r EXCEPT !.status = status, !.revision = @ + 1]

ObserveStatus ==
    /\ forwarder.pc = "changed"
    /\ IF watch.value \in Finished \/ record.status \in Finished
       THEN GoOn("gone") /\ UNCHANGED record
       ELSE /\ record' = Observed(record, watch.value)
            /\ Write(Snapshot(record'), "top")
    /\ UNCHANGED <<events, watch, open, pipe>>

\* Mutant: the terminal frame is sent without draining the channel first.
Drain_Skipped ==
    /\ forwarder.pc = "drain"
    /\ GoOn("terminal")
    /\ UNCHANGED <<record, events, watch, open, pipe>>

Drain ==
    /\ forwarder.pc = "drain"
    /\ \/ events > 0 /\ events' = events - 1 /\ Write(Event, "drain")
       \/ events = 0 /\ GoOn("terminal") /\ UNCHANGED events
    /\ UNCHANGED <<record, watch, open, pipe>>

SendTerminal ==
    /\ forwarder.pc = "terminal"
    /\ Write(Snapshot(record), "gone")
    /\ UNCHANGED <<record, events, watch, open, pipe>>

WriteSucceeds ==
    /\ forwarder.pc = "write"
    /\ reader /\ Len(pipe) < PipeCapacity
    /\ pipe' = Append(pipe, forwarder.frame)
    /\ forwarder' = [pc |-> forwarder.next, frame |-> NoFrame, next |-> "top"]
    /\ UNCHANGED <<record, events, watch, open>>

\* Mutant: a write waits for as long as it takes.
WriteFails_Never == FALSE /\ UNCHANGED vars

\* The client is gone or the write timed out.  The worker behind a timed-out
\* write may still have delivered a part of the frame or all of it.
WriteFails ==
    /\ forwarder.pc = "write"
    /\ open' = FALSE
    /\ pipe' \in {pipe} \cup
          (IF reader /\ Len(pipe) < PipeCapacity
           THEN {Append(pipe, forwarder.frame), Append(pipe, Torn)} ELSE {})
    /\ forwarder' = [pc |-> forwarder.next, frame |-> NoFrame, next |-> "top"]
    /\ UNCHANGED <<record, events, watch>>

Forwarder ==
    /\ \/ Top \/ SelectEvent \/ SelectStatus \/ ObserveStatus \/ Drain
       \/ SendTerminal \/ WriteSucceeds \/ WriteFails
    /\ UNCHANGED <<manifest, executor, reader, client, cancel>>

-----------------------------------------------------------------------------
\* ElevatedProvisioningExecutor, from the accepted submission on.

\* status_into_result.
Result(status, claim) ==
    IF status = "ReconciliationRequired" /\ claim = "Reconciled"
    THEN "ReconciledUnknown" ELSE status

StopReading == pipe' = <<>> /\ reader' = FALSE

\* consume_stream, one frame: a terminal snapshot ends it, a frame that cannot be
\* used sends the client to polling.  The progress it displays is left out.
ReadFrame ==
    /\ client.pc = "stream"
    /\ pipe # <<>>
    /\ LET frame == Head(pipe) IN
       CASE frame = Event ->
              /\ client' = [client EXCEPT !.received = @ + 1]
              /\ pipe' = Tail(pipe) /\ UNCHANGED reader
         [] frame = Torn \/ (IsSnapshot(frame) /\ frame.revision < client.last) ->
              client' = [client EXCEPT !.pc = "poll"] /\ StopReading
         [] OTHER ->
              IF IsTerminal(frame)
              THEN /\ client' = [client EXCEPT !.pc = "finish", !.snapshot = frame,
                                               !.last = frame.revision]
                   /\ StopReading
              ELSE /\ client' = [client EXCEPT !.last = frame.revision]
                   /\ pipe' = Tail(pipe) /\ UNCHANGED reader
    /\ UNCHANGED <<record, manifest>>

\* The writing end was closed without a terminal frame.
StreamEnds ==
    /\ client.pc = "stream"
    /\ pipe = <<>> /\ forwarder.pc = "gone"
    /\ client' = [client EXCEPT !.pc = "poll"]
    /\ StopReading
    /\ UNCHANGED <<record, manifest>>

\* wait_for_terminal_status: the round that finds the deployment finished.
Poll ==
    /\ client.pc = "poll"
    /\ record.status \in Finished
    /\ client' = [client EXCEPT !.pc = "finish", !.snapshot = Snapshot(record)]
    /\ UNCHANGED <<record, manifest, pipe, reader>>

Done(result) == [client EXCEPT !.pc = "done", !.result = result]

\* The daemon does not answer a status call.
ContactLost ==
    /\ client.pc = "poll"
    /\ client' = Done("ReconciliationRequired")
    /\ UNCHANGED <<record, manifest, pipe, reader>>

\* finish: a retained claim is first put to the daemon again.
Finish ==
    /\ client.pc = "finish"
    /\ client' = IF client.snapshot.claim = "ReconciliationRequired"
                 THEN [client EXCEPT !.pc = "reconcile"]
                 ELSE Done(Result(client.snapshot.status, client.snapshot.claim))
    /\ UNCHANGED <<record, manifest, pipe, reader>>

\* ReconcileDeployment in the daemon: nothing is left on disk.
Reconciled(r) ==
    IF r.claim = "ReconciliationRequired" /\ ~ manifest
    THEN [r EXCEPT !.claim = "Reconciled", !.revision = @ + 1] ELSE r

\* The call is answered, or its answer is lost after or before it had an effect.
Reconcile ==
    /\ client.pc = "reconcile"
    /\ \/ /\ record' = Reconciled(record)
          /\ client' = Done(Result("ReconciliationRequired", record'.claim))
       \/ /\ record' \in {record, Reconciled(record)}
          /\ client' = Done("ReconciliationRequired")
    /\ UNCHANGED <<manifest, pipe, reader>>

\* The cancellation task is aborted when the client returns.
Client ==
    /\ ReadFrame \/ StreamEnds \/ Poll \/ ContactLost \/ Finish \/ Reconcile
    /\ cancel' = IF client'.pc = "done" THEN [cancel EXCEPT !.pc = "over"] ELSE cancel
    /\ UNCHANGED <<executor, events, watch, forwarder, open>>

-----------------------------------------------------------------------------
\* DeploymentCancellation: request sets the flag and then wakes the waiters that
\* exist; cancelled() takes its ticket, then looks at the flag, then waits.

\* A request after the client returned finds no task to carry it.
RequestCancel ==
    /\ ~ cancel.requested /\ cancel.pc # "over"
    /\ cancel' = [cancel EXCEPT !.requested = TRUE]
    /\ UNCHANGED record

NotifyWaiters ==
    /\ cancel.requested /\ cancel.notifies = 0
    /\ cancel' = [cancel EXCEPT !.notifies = 1]
    /\ UNCHANGED record

Register ==
    /\ cancel.pc = "register"
    /\ cancel' = [cancel EXCEPT !.pc = "check", !.seen = cancel.notifies]
    /\ UNCHANGED record

CheckFlag ==
    /\ cancel.pc = "check"
    /\ cancel' = [cancel EXCEPT !.pc = IF cancel.requested THEN "call" ELSE "park"]
    /\ UNCHANGED record

Park ==
    /\ cancel.pc = "park"
    /\ cancel' = [cancel EXCEPT !.pc = "wait"]
    /\ UNCHANGED record

Woken ==
    /\ cancel.pc = "wait"
    /\ cancel.notifies # cancel.seen
    /\ cancel' = [cancel EXCEPT !.pc = "register"]
    /\ UNCHANGED record

\* CancelDeployment in the daemon; a failed call is logged and not repeated.
CallCancel ==
    /\ cancel.pc = "call"
    /\ cancel' = [cancel EXCEPT !.pc = "over"]
    /\ record' \in {record, IF record.status \in Finished \/ record.cancelled THEN record
                            ELSE [record EXCEPT !.cancelled = TRUE, !.revision = @ + 1]}

Canceller == Register \/ CheckFlag \/ Park \/ Woken \/ CallCancel

Cancellation ==
    /\ RequestCancel \/ NotifyWaiters \/ Canceller
    /\ UNCHANGED <<manifest, executor, events, watch, streamVars, reader, client>>

Init ==
    /\ record = [status |-> "Running", claim |-> "Held", revision |-> 1,
                 cancelled |-> FALSE]
    /\ manifest = FALSE
    /\ executor = [phase |-> "working", outcome |-> "none", sending |-> FALSE, sent |-> 0]
    /\ events = 0
    /\ watch = [value |-> "Running", fresh |-> FALSE]
    /\ forwarder = [pc |-> "top", frame |-> NoFrame, next |-> "top"]
    /\ open = TRUE
    /\ pipe = <<>>
    \* The reply with the pipe reached the client, or the client resolved its
    \* submission without it.
    /\ reader \in BOOLEAN
    /\ client = [pc |-> IF reader THEN "stream" ELSE "poll", snapshot |-> NoFrame,
                 last |-> 0, received |-> 0, result |-> "none"]
    /\ cancel = [requested |-> FALSE, notifies |-> 0, pc |-> "register", seen |-> 0]

Next == Work \/ HandOver \/ Forwarder \/ Client \/ Cancellation

\* Each of the tasks is scheduled.  The deployment's own work may take as long as
\* it likes, and the daemon is not required to fail to answer.
Fairness ==
    /\ WF_vars(HandOver)
    /\ WF_vars(Forwarder)
    /\ WF_vars(Client /\ ~ ContactLost)
    /\ WF_vars(Canceller /\ Cancellation)
    /\ WF_vars(NotifyWaiters /\ Cancellation)

Spec == Init /\ [][Next]_vars /\ Fairness

-----------------------------------------------------------------------------
\* Every variable has its type; the event channel and the pipe stay within
\* their capacities.
TypeOK ==
    /\ record \in Record
    /\ manifest \in BOOLEAN
    /\ executor \in [phase : {"working", "rollingBack", "rolledBack", "returned",
                              "finalized", "announced"},
                     outcome : Finished \cup {"none"},
                     sending : BOOLEAN, sent : 0 .. MaxEvents + 1]
    /\ events \in 0 .. EventCapacity
    /\ watch \in [value : Progress \cup Finished, fresh : BOOLEAN]
    /\ forwarder \in [pc : {"top", "select", "changed", "drain", "terminal", "write",
                            "gone"},
                      frame : Frame, next : {"top", "drain", "gone"}]
    /\ open \in BOOLEAN
    /\ pipe \in Seq(Frame) /\ Len(pipe) <= PipeCapacity
    /\ reader \in BOOLEAN
    /\ client \in [pc : {"stream", "poll", "finish", "reconcile", "done"},
                   snapshot : Frame, last : Nat, received : Nat,
                   result : Finished \cup {"none", "ReconciledUnknown"}]
    /\ cancel \in [requested : BOOLEAN, notifies : 0 .. 1, seen : 0 .. 1,
                   pc : {"register", "check", "park", "wait", "call", "over"}]

\* The client is told the truth, in order.  When the result comes through the
\* pipe, every event of the deployment came before it, the final error line
\* included.  The result agrees with the daemon, whichever way the client
\* learnt it: a known one is the daemon's and its claim is given back; a claim
\* is called reconciled only when the daemon gave it up and nothing is left on
\* disk; and it is never dropped while the daemon still holds it.  The
\* snapshots under way are in the order of their revisions, although three
\* tasks raise them: consume_stream never has to give a stream up.
StreamIsFaithful ==
    /\ client.snapshot.kind = "snapshot" /\ client.last = client.snapshot.revision =>
          client.received = executor.sent
    /\ client.result \in {"Succeeded", "Failed", "Cancelled"} =>
          record.status = client.result /\ record.claim = "Released"
    /\ client.result = "ReconciledUnknown" =>
          record.claim = "Reconciled" /\ ~ manifest
    /\ record.claim = "ReconciliationRequired" =>
          client.result \in {"none", "ReconciliationRequired"}
    /\ LET coming == SelectSeq(Append(pipe, forwarder.frame), IsSnapshot)
           revisions == <<client.last>> \o [i \in DOMAIN coming |-> coming[i].revision]
                           \o <<record.revision>>
       IN  \A i, j \in DOMAIN revisions : i < j => revisions[i] <= revisions[j]

\* Neither side waits for ever on the other.  A client that stopped reading never
\* holds the deployment up, and once the deployment has ended no full channel,
\* full pipe, torn frame, lost terminal frame or silent daemon keeps the client.
\* A cancellation gets to the daemon call whatever the deployment does, also
\* when it is requested while the task is between looking at the flag and waiting.
NobodyWaitsForever ==
    /\ executor.sending ~> ~ executor.sending
    /\ executor.phase = "returned" ~> client.pc = "done"
    /\ cancel.requested ~> cancel.pc = "over"

==============================================================================
