# Lasper: TLA+ models, checks and proofs

Lasper is a terminal program that manages systemd-nspawn containers. The
unprivileged process shows the machines and images of the host, starts and stops
them, edits their settings, creates new ones and opens sessions in them. What needs
root is either done by the process itself (when it was started as root: the *direct*
route) or by a daemon it launches through sudo or run0 (the *elevated* route) and
talks to over a socket.

This directory models the parts of Lasper in which a step can fail, be interrupted or
be overtaken by another one. `PROJECT.json` maps every definition to the source lines
it models and lists the components, runs, mutants, findings, hazards and theorems.
Source paths below are relative to `src/src/`.

1. The system and its models
2. What correctness means
3. Modules
4. Runs, bounds and fairness
5. Findings and observations
6. Proofs
7. What is not modelled

## 1. The system and its models

| Part | Source | Modules |
|---|---|---|
| Claims on machines and images | `application/operations/registry.rs` | `OperationRegistry` |
| Machine and image operations, runtime observation | `application/machine_lifecycle`, `application/image_lifecycle`, `application/runtime` | `MachineLifecycle` |
| Backends that reach the host: the shared bus connection, listings, mutations | `adapters/runtime`, `adapters/system_operation.rs` | `HostBackends` |
| Crash manifests | `application/provisioning/state.rs`, `adapters/provisioning/state.rs` | `WriteAhead` |
| Deployment executor | `adapters/provisioning/direct.rs`, `adapters/provisioning/engine` | `DeploymentEngine` |
| Archives and disk images | `adapters/provisioning/engine`, `adapters/storage` | `ImageImport`, `ImageStorage` |
| Provisioning service | `application/provisioning/service.rs`, `adapters/provisioning/elevated.rs` | `ProvisioningService` |
| Daemon jobs and their streams | `daemon/jobs/server.rs` | `DeploymentJobs`, `JobStream` |
| Daemon sessions, server and shutdown | `daemon/sessions`, `daemon/server`, `daemon/dispatch` | `SessionRegistry`, `DaemonShutdown` |
| Client of the daemon | `adapters/elevated` | `DaemonLaunch`, `ElevatedRpc` |
| Commands on the host | `adapters/process.rs` | `ChildProcess` |
| Terminal sessions | `application/sessions`, `adapters/session` | `TerminalSession` |
| Settings files and their locks | `adapters/filesystem.rs`, `adapters/config` | `LockedWriter`, `DisplayBinds` |
| NVIDIA passthrough | `adapters/platform/nvidia`, `adapters/config/nspawn_file.rs` | `NvidiaSync` |
| X11 grants | `application/x11`, `adapters/platform/x11` | `X11Grants` |
| Main screen | `tui/features/workspace` | `Workspace`, `Inspector` |
| Configuration view and access dialogs | `tui/features/configuration` | `ConfigurationView`, `AccessDialog` |
| Machine wizard | `tui/features/wizard` | `Wizard` |

`PROJECT.json` gives the exact files of each part. The definitions map to
some 21,000 source lines, a little under a fifth of the Rust files, tests included.

### How the parts interact

A wizard in the TUI hands a plan to the provisioning service. The service reserves the
target machine exclusively (a clone's source is shared) in the operation registry,
which every other service that changes a machine also asks: starting, stopping and
removing go through the same claims. A task then awaits an executor. On the direct
route that is the stage pipeline in the same process; on the elevated route the plan is
sent to the daemon, whose job registry runs the same pipeline under an operation
registry of its own. The pipeline writes a crash manifest before each change of the
host. The daemon streams events and snapshots back through a pipe; when the pipe breaks
the client polls over RPC. A deployment with a known outcome drops its claims; one
without (a crash, a lost daemon, a command whose death could not be confirmed) keeps
them until the user confirms a release. At startup the service scans the manifests and
reserves what they name.

The main screen is fed by one refresh loop that reads the host, woken by a watcher or
by a timer. What is shown is the last reading with the transitions of running
operations laid over it; the next operation is validated against what is shown. The
configuration view reads a settings file, previews an edit and applies it under the
lock, after checking that the file is still the one that was previewed. Processes
share settings files, X11 grants and the NVIDIA state, and coordinate through file
locks and through what they find on disk.

### What makes it hard

* the host is changed in many steps, each of which can fail after part of its work;
* a write can fail *after* it took effect, and a call can time out and be done later;
* two processes agree on the end of a job over replies that may be late or lost;
* state is read, an await or an unlock follows, and the state is used afterwards:
  releases, session closes, catalog refreshes, previews, access checks;
* background answers arrive after what they were asked for is gone, and are told apart
  by generations that start again at zero;
* queues, pipes and histories are bounded and their readers may stop;
* lock files can be unlinked while somebody waits for them;
* a process that was told to end may not, and its id can be used again.

The hazards of `PROJECT.json` place these at source lines and name the property that
watches each.

## 2. What correctness means

1. Two operations never hold conflicting claims; the host is asked at most once for one
   operation; a claim is held exactly as long as somebody is responsible for it.
2. A crash at any point leaves a manifest that names everything a deployment put on the
   host. An outcome reported as clean is clean, and what was there before is kept.
3. Nobody is told something untrue: results of calls, of commands, of bus mutations and
   of deployments are what happened, or are called unknown.
4. What is on the screen is what was read last, for the thing that is selected; what is
   saved or started is what was reviewed.
5. Writers of one file do not overwrite what they have not read. Grants and mount points
   that Lasper made stay findable, and those of others are left alone.
6. Nobody waits for ever: calls return, dialogs give input back, terminals are let go,
   the daemon exits and leaves nothing running that it did not tell to end.

## 3. Modules

A component is a module of its own: its state as variables, one action per operation,
handler or critical section, and its properties at the end. `MC*` modules give TLC
constants and put components side by side; `*Proofs` modules hold theorems.

**Claims and machines.** `OperationRegistry`: one critical section of the registry's
mutex per action; a request may name a key twice and with both modes, the stronger
wins, and either all keys are taken or none. `MachineLifecycle` extends it. Operations
reserve, publish a transition, call the host over the first or the second transport,
drop the transition and then the reservation; the drop is two steps because the two
fields are dropped one after the other. The loop reads the host at a position of its
own, so a change can fall between `borrow_and_update` and the query. Others control
the same machines, and the host finishes jobs in its own time. `HostBackends` is below
it: the shared connection with its generations, listings that fall back to the
registration files half way, files among them that cannot be read and a directory that
fails, mutations that time out and may happen afterwards.

**Deployments.** `WriteAhead` is the abstract promise: an update of the manifest carries
the revision it replaces, and ends in success, failure without effect, or failure after
the rename. `DeploymentEngine` is one deployment in detail, every stage with intent,
effect and commit, capture after an error, unmounting, rollback and report, and
implements `WriteAhead` under the refinement mapping `WA`. Its ledger, an insertion-ordered
list with one entry per resource, is the disposition of each resource and the place at
which its entry was pushed; a rollback works through the set of what was owned when it
began, last place first. `ProvisioningService` is one
Lasper process over several lives, with `release_unresolved` split at its awaits; it
instantiates `OperationRegistry` on its own variables. `DeploymentJobs` has the daemon's
records, `JobStream` one job's way back to the client. `ImageImport` is the walk over
the headers of an archive with its limits, `ImageStorage` what is done to a disk image
with failing tools: a task carries the steps whose end is not accounted for (a detach
that failed, a mount that was cut off, a list of devices that could not be had), and
what it may leave behind depends on those alone.

**Daemon.** `SessionRegistry` unlocks the registry between any two steps: `register`
looks, captures a pidfd and looks again; a close validates, terminates, sleeps,
validates and kills; a reaper waits, gives the entry up and sends the status.
`DaemonShutdown` extends it with the RPC pump, the response queue, the admission gate
and its leases, submissions, and the flow from the stop request to the exit. A
`Notified` future is a *ticket*, so a wait that is registered too late misses its
wake-up in the model too. `DaemonLaunch` is the way to a daemon and the end of one that
cannot be used, `ElevatedRpc` the control channel: the queue, partial writes and reads,
timeouts, late and torn responses, and the exit.

**Processes and terminals.** `ChildProcess` is a leader and a helper that keeps pipes
open, with deadline, cancellation and escalation. `TerminalSession` joins a far end
(direct PTY, descriptor from the daemon, machine PTY) and a near end (tab, shell prompt,
inherited terminal, launcher) by bounded channels and a bounded pool of threads. What a
command carries is left out: it is input or a resize, and both take a place in the queue.

**Settings and host integration.** `LockedWriter` has the settings lock, the sidecar lock
with its inode check, and every operation on a `.nspawn` file and a service override.
`DisplayBinds` is the patch of display binds on a document of abstract lines, checked
against a reference definition. `NvidiaSync` is the pass before a start, place by place,
interrupted anywhere; the state file it starts from is its own, one without the marker of
ownership, of an older version, or somebody else's. `X11Grants` has records, claims,
authorization, revocation and the reconcile worker of several processes; registrations
of running machines may vanish for a moment, more than once.

**Screens.** `Workspace` (lists, focus, tabs, layout), `Inspector` (target, panes, reads,
cached documents), `ConfigurationView` (inspection, draft, preview, apply, other
editors), `AccessDialog` (X11 and Wayland checks and mutations), `Wizard` (steps,
background answers, review, submission).

Decisions a reader may want to argue about:

* Time is left out: a deadline, an expiry or a sleep may end at any moment. What a
  property says about a timeout holds for every duration. The one length of time that
  matters is kept: in `X11Grants` a pass finds any of the pending claims *aged*, which is
  to say first seen absent at least a grace period ago. A registration that vanishes is
  back within a grace period, and the host's clock runs forwards.
* `DeploymentEngine`: `prepare` that fails after its rename leaves an empty manifest
  although the outcome is a plain failure; `ReleasedIsClean` allows it. Settings that
  machinectl copies with a clone have no ledger entry until capture and go with the
  image; the refinement does not count them by name. Files that carry Lasper's marker
  are adopted, which the code intends.
* `DeploymentJobs`: a client draws request id and deployment id freshly and together, so
  one value stands for both. The sequence numbers that order the history are a relation.
* `MachineLifecycle`: the moment in which a machine is shutting down is left out, and
  machined announces registrations and removals only.
* `EditIsExact` speaks of documents whose display declarations are in ascending order of
  what the patch does, spelt one way, and whose sections do not end in a continuation
  line; `patch_order` shows what happens otherwise.
* `DaemonLaunch`: the id of the front end's process is not given to another process before
  the daemon has opened a pidfd for it (`daemon/server/mod.rs:171`).
* `ImageStorage`: a root file system that is mounted is not empty, so that removing the
  directory below it fails.
* `ReportIsTrue` speaks of the leader of a command; a helper may outlive it.
* `NvidiaSync` assumes that a scan which succeeds finds at least one device
  (`discovery.rs` refuses an empty one) and that a driver version is not zero, the value
  that stands for no driver.

## 4. Runs, bounds and fairness

A run that names several components lets *one* of them move from its initial states, the
others stay: they share no variable there, so nothing is lost, and one configuration
serves all.

| Run | What it asks | Instance |
|---|---|---|
| `machines` | `ExclusiveAccess`, `ControlAtMostOnce`, `DisplayIsTrue`, `TargetFollowsFocus`, `DocumentIsCurrent`, `EditIsExact`, `SavedIsReviewed`, `NoLostUpdate` | a machine and an image without one, 3 keys, 4 reservations, 2 inputs from outside; 2 entries, 2 tabs; every `[Files]` section of up to 2 of 10 lines and 5 other documents, 2 changes; 2 targets, 2 items, 3 revisions; 2 processes |
| `provisioning` | `Recoverable`, `ReleasedIsClean`, `CleanupIsSafe`, `WriteAheadDiscipline`, `ClaimFollowsResponsibility` | 2 resources and 3 revisions; 9 plans that cover every stage and source; 2 clones of one machine, a foreign deployment, 2 releases (interchangeable), 2 lives |
| `deployment_jobs` | `SnapshotsValidate`, `EvictionIsSafe`, `ExtractedFits`, `AnswersHold`, `SyncIsComplete`, `ListingIsFaithful`, `OutcomeIsHonest` | 3 deployments on 2 machines (two of them interchangeable), history of 2, one reconciliation and one cancelled job at a time; archives of 4 headers around a limit of 4; 2 partitions, 2 loop devices; 2 driver versions, 1 edit; 2 callers, 1 machine |
| `job_stream` | `StreamIsFaithful`, `NobodyWaitsForever` | channel and pipe of 1, 2 events |
| `daemon` | `RunningIsRegistered`, `NothingLeftUntold`, `ServedCloseEnds`, `ShutdownCompletes` | 2 processes under one id and 2 closes; 1 session, 1 close, 1 job, queue of 1 |
| `screens` | `StartsWhatWasReviewed`, `ReadyMatchesSelection`, `WizardResponds`, `InputComesBack` | 3 names, one of them a machine's and one an image's, 2 URLs, 3 edits; 2 users, 2 displays, 2 dialogs, 4 checks |
| `x11_grants` | `AuthorizationIsNamed`, `RunningKeepsAccess`, `StopIsReclaimed` | 2 machines whose users map to one host uid, the user's process and the service, 2 records, 2 server generations; 4 events, of which 3 may be requests of the user, and of the rest 2 vanishing registrations or one failure, crash, foreign change or restart |
| `elevated_rpc` | `ResultsAreHonest`, `CallsReturn`, `NoOrphan` | 2 conflicting calls and the exit, every capacity 1; sudo and run0 |
| `sessions` | `OutputIsComplete`, `ReportIsTrue`, `TerminalsLetGo`, `CommandReturns` | the 12 pairs of near and far end that occur, channels of 1, 1 fault; one command of each kind |
| `torn_frame`, `patch_order`, `split_lock` | see section 5 | |

The first nine pass. For each of their properties `PROJECT.json` has a mutant, a
plausible bug in the modelled code under which TLC finds the property violated.

### Why the bounds are enough

* Every queue, channel and history has a capacity of 1 or 2 and more producers than that,
  so *full* and *full again after a drain* both happen.
* Two holders are enough for any conflict of claims; one machine key and one image key
  give both ways in which an image resolves.
* Two lives are one restart. A third starts from the same kind of disk as the second,
  since a manifest keeps nothing of the process that wrote it.
* Two releases, closes or callers are one that works and one that finds it working.
* Two generations, queries or dialogs are one that is overtaken and one that overtakes.
* Revisions are compared only for equality and with the next one. The executor's are not
  bounded: a deployment writes finitely often.
* One reconciliation at a time (`FewCalls`) keeps the daemon's records small: the calls lock
  one record and touch no other. `JobsInvariant` is proved without that bound.
* Two vanishings of a registration are one that a pass sees and one that a later pass sees
  with the timestamp of the first.
* Two lines around the anchor show every order of an insertion and a removal in a
  document; two headers and their hints show every way in which a size is overridden.

Seventeen of the 25 components are also proved without bounds (section 6).

Deadlock checking is off: every component may stop (a finished deployment, a closed
dialog, an exhausted bound, an exited daemon). That nothing stops too early is what the
liveness properties say.

### Fairness

Weak fairness is given to steps of tasks and threads of a running process, never to the
user, the host, a peer or a failure:

* `JobStream`: the forwarder, the client, the cancellation task, and the steps that hand
  an event or the end of the deployment over; not the deployment's own work.
* `SessionRegistry`: openers, reapers, closers, and the exit of a child that was sent
  SIGKILL; not a child that was only asked to end.
* `DaemonShutdown`: the main flow, openers, closers and the handlers of admitted requests,
  submissions included; not arrivals, reapers, the response writer, jobs or sessions. That
  the operation of an admitted request ends is an assumption.
* `ElevatedRpc`, `DaemonLaunch`: callers and the connection task, the exit and the
  launcher's end; the daemon's side of a launch. Not the daemon's handling of a call.
* `X11Grants`: steps of the processes, the start of the activated service, and the end of
  a moment in which a registration is missing.
* `ChildProcess`: the program's own steps, and the death of a leader that a signal reaches
  (SIGTERM unless it is caught, SIGKILL always).
* `Wizard`: background queries end, since each times out or panics into an answer, and the
  event queue is drained.
* `AccessDialog`: answers are published and delivered. A mutation has no deadline there, so
  that the service behind it answers in the end is an assumption.
* `TerminalSession`: the owners, readers, writers and drain loops. Strong fairness is given
  to `Completes` and `DrainTimeout`: a `select!` whose branch is ready again and again
  takes it some time, since tokio polls its branches in random order. A child dies of a
  signal that reached it (`GuestKilled`) unless it is one that outlives its signal; other
  steps of the guest have no fairness.
* `Inspector` states fairness, but no run asks a liveness question of it.

## 5. Findings and observations

Three runs show the code doing other than a comment beside it says:

* `torn_frame` (`adapters/elevated/rpc.rs:208`). The read of a response line is a branch of
  `tokio::select!` and loses the bytes it has taken when another branch is ready first. The
  call ends in a timeout although the daemon answered.
* `patch_order` (`adapters/config/editor/patch.rs:24`). Mutations are applied in reverse
  list order, which is reverse file order only if the insertion comes last. With the
  managed NVIDIA block above the removed bind, what is saved is not what was reviewed.
* `split_lock` (`adapters/filesystem.rs:119`). Removing a machine's files unlinks the sidecar
  lock of its service override while a writer may hold it; the next writer locks a new
  file, and both are inside.

Behaviours met while modelling that contradict no stated promise, or that no run isolates.
The models keep those that their properties can tell apart.

*Wizard and dialogs.* An entry saved in a dialog lives in the view only and is lost when
hardware discovery finishes. That managed users need a private network is checked by the
wizard only. The storage choice is sent even when its step was skipped. Copy and OCI
submissions discard typed passwords (`draft.rs:1365`), and the network step drops ports when
the mode does not forward. Opening a snapshot replaces entries and images of an open draft.
Generations of access dialogs restart at zero per dialog. A stale result while authorizing
leaves `pending_authorization` set. The X11 dialog ignores Esc during a mutation.

*Documents.* `[files]` is matched by the insertion and by `bind_destinations` but not by the
projection. An insertion below a section that ends in a continuation line is swallowed by
it. An editor outside Lasper can still write between the last check and the rename.

*Sessions.* `send_input` on a closed channel returns without draining the output. A resize
that meets a full queue in the bridge or the inherited terminal is not retried. A log stream
whose opening failed is not retried while its machine stays listed. Three blocking jobs per
direct tab share a pool of eight. `lasper shell` on a direct child has a pool of four
(`main.rs:29`): the child's reader, writer and wait and the read of the keyboard fill it, and
output that comes after that read is issued waits for a key or for the end of the child.
The owner of a direct child that survives its signal waits for it without a bound
(`pty.rs:389`). `TerminalsLetGo` names both as its exceptions.

*Commands and bus.* Stopping a process group stops escalating once the leader has exited, and
the last wait of a streamed command ignores cancellation. Enabling or disabling over D-Bus
reports a failed reload although the unit files changed. Cloning an image through
`SystemOperationStore::dbus` is a validation error when D-Bus is available.

*X11.* What is kept of an absence is when it was first seen. A registration that vanishes,
comes back unobserved and vanishes again after the grace period counts as absent all the
while, and the running machine loses its access (`lifecycle.rs:226`); `RunningKeepsAccess`
says that nothing less than two such moments does it.

*Listings.* A registration file that cannot be read is skipped and the listing still succeeds
(`state.rs:170`); over the bus the same machine is listed with an unknown state.

*Images and NVIDIA.* Attaching a loop device that times out, or whose answer cannot be
parsed, leaks it. An unmount that cannot list the loop devices of the image succeeds and
leaves them attached (`image_ops.rs:1089`). A state file without the marker of ownership but
with an equal content makes a pass succeed without ever becoming Lasper's own. A failed
inspection after mounting leaves an empty mount point. Failing cleanups of an import are only
logged. Raw image roots are skipped silently, so their mount points are forgotten. A start outside
Lasper after an interrupted pass can leave unnamed mount points.
`write_nvidia_device_allow` overwrites without asking whose file it is.

*Deployments.* A release whose reply was lost is refused when retried, and the client keeps
the claim until it restarts (`service.rs:189`). A submission whose descriptor handoff timed
out may be accepted late (`elevated.rs:58`). Two unfinished manifests with the same target
make the recovery scan fail, and nothing is reserved (`CAVEATS.md:66` says historical
targets are). `clone.rs:97` looks for `override.conf` while `clone_override` writes
`90-lasper.conf`.

## 6. Proofs

The theorems hold for every value of the constants that satisfies the named `ASSUME`s of the
modules: any machines, keys, deployments, processes, callers, queue capacities, and any value
of the bounds that keep TLC's instances finite. Each proof has the same shape. The property
is seldom inductive, so an invariant is strengthened until it is; one lemma per action shows
that the action keeps it; an invariant theorem combines them; the property follows.

A theorem is about the component's own specification. In a run the same component moves
alone under the same actions (section 4); the daemon run's registry part is `SessionSpec`
and its daemon part is `Spec` of `DaemonShutdown` with fewer requests.

| Module | Theorems that state a run's property | The invariant, and why the property needs it |
|---|---|---|
| `OperationRegistryProofs` | `Exclusion` (`ExclusiveAccess`); `OperationsControlOnce` (`ControlAtMostOnce`); `DisplayStaysTrue` (`DisplayIsTrue`) | `RegistryInv`: guard ids are issued, unique and hold exactly what was granted, so a release leaves other holders alone. `LifecycleInv`: every live operation holds the sole exclusive claim on its key and has called the host at most once, not at all while it is early; the last snapshot is on its way or is what the catalog is made of; a snapshot read beside a subscribed watcher names the registered machines until a change is announced |
| `EngineProofs` | `ReleasedAlwaysClean` (`ReleasedIsClean`); `CleanupAlwaysSafe` (`CleanupIsSafe`) | `EngineInv`, below |
| `WriteAheadProofs` | `CrashRecoverable` (`Recoverable`); `EngineImplementsWriteAhead` (`WriteAheadDiscipline`) | `WriteAheadInv`: the next write replaces the manifest by what is in memory, so memory must name everything too, and an armed session must be the one on disk. The refinement needs `EngineInv` |
| `SettingsProofs` | `UpdatesAreNotLost` (`NoLostUpdate`); `SavesAreReviewed` (`SavedIsReviewed`) | `LockInv`: every operation on a settings file but the cleanup holds the settings lock from its first step, and what it read is still there when it persists. `ViewInv`: answers in the inbox are ordered by generation, and one that is current was computed from the snapshot and draft on the screen |
| `RequestProofs` | `RunningStaysRegistered` (`RunningIsRegistered`); `NothingStaysUntold` (`NothingLeftUntold`); `DocumentStaysCurrent` (`DocumentIsCurrent`); `ReadyAlwaysMatches` (`ReadyMatchesSelection`) | `SessionInv`: an entry belongs to a process whose registration is over, and a reaper that finishes has reaped. `ShutdownInv`: a lease covers whatever is being opened or submitted; once the gate is closed and the leases are gone, what runs is registered, killed or on the list being worked through. `InspectorInv`: the cached lines are those of the pane they were made for, whichever pane is open, unless a flag says otherwise. `DialogInv`: every check of the present generation, running, queued or shown, is about the present selection, and tasks are told apart by the dialog that started them |
| `HostProofs` | `SnapshotsAlwaysValidate` (`SnapshotsValidate`); `EvictionSafe` (`EvictionIsSafe`); `ListingsAreFaithful` (`ListingIsFaithful`); `OutcomesAreHonest` (`OutcomeIsHonest`); `SynchronizationIsComplete` (`SyncIsComplete`) | `JobsInv`: submission, job, handler and executor of one deployment agree; a step that touches one deployment is judged by that one. `HostInv`: how far a listing got, over which transport and past which unreadable registrations; what the host did with a mutation before its caller was answered. `NvidiaInv`: what a pass knows at each step, whichever kind of state file it began with, and that every mount point it made is named by the state file, by the scan it works on, or was passed over |
| `ProvisioningProofs` | `ClaimsFollowResponsibility` (`ClaimFollowsResponsibility`) | `ServiceInv`: the registry's ids, the phase of each deployment's task, call and release, at most one release that works; somebody is responsible for a deployment if and only if its guard is held |
| `ClientProofs` | `CallersAreToldTheTruth` (`ResultsAreHonest`); `ReportsAreTrue` (`ReportIsTrue`); `TargetAlwaysFollows` (`TargetFollowsFocus`) | `RpcInv`: a call is in one place of queue, writer, table and socket; only what was submitted runs; a response is under way only once its answer is known. `ChildInv`: a command that is being stopped has a reason. `WorkspaceInv`: the terminal is shown only with tabs, one of which is active, and the target is what choosing it once more would give |

Further theorems: the invariants themselves (`RegistryInvariant`, `LifecycleInvariant`,
`EngineInvariant`, `WriteAheadInvariant`, `InspectorInvariant`, `DialogInvariant`,
`WorkspaceInvariant`, `JobsInvariant`, `LockInvariant`, `ViewInvariant`, `SessionInvariant`,
`ShutdownInvariant`, `HostInvariant`, `NvidiaInvariant`, `ServiceInvariant`, `RpcInvariant`,
`ChildInvariant`); `ExactHolding`; `TypeCorrect` and `JobsTypeCorrect`; `JobsKeepSubmissions`
and `JobsHoldTheirClaim`; the action properties `NoBlindChange` (the host changes only under a
manifest the session knows) and `TerminalStaysFinal`; `SnapshotsStayComplete` and
`DaemonKeepsSessions`; and `SplitLocksDiffer`, which says what remains true in `split_lock`:
two holders of a sidecar lock hold different inodes.

### The executor

`EngineInv` is the conjunction of what a reader of `run_deploy_internal` keeps in mind:

* `Placed`: what the position says about session and result: a stage that runs has announced
  exactly its resources, and only a result other than success is rolled back.
* `Fresh` and `Housed`: a resource has no entry before the stage that makes it, and what is
  inside or mounted over a root file system exists only together with it.
* `Accounted`: everything this deployment put on the host is in the ledger, or announced
  by the stage that failed until the capture records it, or came along with a cloned image.
* `MountsGuarded`: a mount that is in place is still to be unmounted, or blocks the removal
  of the storage below it.
* `Spared`: a file called pre-existing is not in the queue of a rollback, and if it is the
  `.nspawn` file then the image, whose removal would take it along, is blocked.
* `RolledBack`: a rollback without errors so far still has in its queue all that is owned, so
  that an empty queue means an empty host.

`ReleasedIsClean` needs the last one, which needs `Accounted`; `CleanupIsSafe` needs
`MountsGuarded` and `Spared`. For the refinement every step is shown to be a step of
`WriteAhead` or to leave its variables alone; since `CrashRecoverable` and `NoBlindChange` hold
of any instance of `WriteAhead`, they hold of the executor under the mapping, for every plan
and every number of revisions.

### From which assumptions

The `ASSUME`s say what kind of thing a constant is: capacities and histories are positive
(`Bounds`, `QueueBound`, `Capacities`, `QueueAssumption`, `EventAssumption`,
`ConnectionsAssumption`), maps are total (`Targets`, `RequestIds`, `ImageKeys`, `Plans`), sets
of names do not overlap (`RequestsDiffer`, `CallSet`, `AbsentIsNoManifest`), machines are named
like their images (`MachineNames`). Two say more: `ProcessesAssumption` (finitely many
processes, and the two kinds of file that exist) and `ScanAssumption` (section 3). TLC evaluates
all of them on the instances of the runs.

### What is model-checked only

* *Liveness*: `NobodyWaitsForever`, `ServedCloseEnds`, `ShutdownCompletes`, `WizardResponds`,
  `InputComesBack`, `StopIsReclaimed`, `CallsReturn`, `NoOrphan`, `TerminalsLetGo`,
  `CommandReturns`. The prover does not reason about fairness and `ENABLED`.
* *What a recursive computation yields*: `ExtractedFits` (a fold over the headers of an
  archive) and `EditIsExact` (a patch against its reference, over sequences of lines).
* *Not yet proved*: `StreamIsFaithful`, `StartsWhatWasReviewed`, `AuthorizationIsNamed`,
  `RunningKeepsAccess`, `OutputIsComplete`, `AnswersHold`. No proof has been attempted.

### Running the checks

In this directory, `tlc -config X.cfg M` for the configuration and module of a run, and
`tlapm M.tla` for a module of proofs. The runs take one to three minutes on two cores, the
proof modules from scratch four to twelve; `EngineProofs` is the longest.

## 7. What is not modelled

* Wire types and frames (`ipc`), domain values, argument parsing, wiring, drawing and event
  routing: no protocol of their own. Frames are records of the modules that exchange them.
* The operation activity tracker: a counter that the quit dialog reads.
* Machine sessions in the daemon: one task that ends with the machine or its reader.
* Session probes and Wayland: read-only probes and revalidation of host endpoints.
* Of parts that are modelled: downloads and the arguments of bootstrap tools; opening of
  artifacts; the routing table of the dispatcher; typed RPC wrappers and the descriptor
  channel; rendering of settings and unit properties; opening and checking of trusted
  directories; installation of activation units and the X11 wire protocol; driver discovery;
  subvolumes beyond their role as a deployment's resource; the content of guest files.

External to the code and modelled from how it is used: machined and systemd, D-Bus, the
kernel's processes, signals, pipes, PTYs, loop devices and file locks, the X server, and
atomic file replacement.
