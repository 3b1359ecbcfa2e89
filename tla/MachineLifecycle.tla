-------------------------- MODULE MachineLifecycle --------------------------
(***************************************************************************)
(* Machine and image operations of the client process, and the runtime     *)
(* observation that tells it what they did.  An operation reserves its     *)
(* machine in the claim registry, publishes an optimistic transition,      *)
(* calls the host over one of two transports, and drops.  One loop reads    *)
(* host snapshots; the main loop applies them, confirms transitions and    *)
(* rebuilds the list that is shown, which is also what the next operation   *)
(* is validated against.  Time is left out: a transition may expire at any  *)
(* moment, a sleep may end at any moment.                                   *)
(***************************************************************************)
EXTENDS OperationRegistry

CONSTANTS
    Machines,      \* image names that are machine names too
    MaxInputs      \* bound on what comes from outside: operations the user
                   \* begins, jobs of others, failing queries, a dying watcher

ASSUME MachineNames == Machines \subseteq Images
ASSUME InputBound == MaxInputs \in Nat

VARIABLES
    host,          \* [machine, job, images]: the host itself (external)
    ops,           \* MachineOperation and ImageRemovalOperation values alive
    transitions,   \* MachineLifecycleService.transitions
    finished,      \* kinds of operations whose completion event is queued
    invalidated,   \* the watch channel holds an unseen invalidation
    signal,        \* a change notice the watcher has not forwarded yet
    watcher,       \* the backend observer: starting, watching or stopped
    loop,          \* refresh_catalog and its RefreshState
    channel,       \* the update in the queue to the main loop, or NoUpdate
    catalog,       \* [observed, shown, images]: what the workspace holds
    inputs         \* how much of MaxInputs is used up

lifecycleVars == <<host, ops, transitions, finished, invalidated, signal,
                   watcher, loop, channel, catalog, inputs>>
hostVars == <<host, signal>>
viewVars == <<watcher, loop, channel>>

Registered == {"Starting", "Running"}
RuntimeAction == {"stop", "reboot", "kill"}
NoUpdate == [kind |-> "none"]

-----------------------------------------------------------------------------
\* The host (external).  A failed unit is not a registered machine; the moment
\* in which a machine is shutting down is left out.
View == [m \in Machines |-> IF host.machine[m] = "failed" THEN "absent"
                            ELSE host.machine[m]]

\* Only a subscribed watcher is told of a change.
Announce(change) == signal' = (signal \/ (change /\ watcher = "watching"))

\* machined announces registrations and removals, not changes of state.
HostBecomes(m, state) ==
    /\ host' = [host EXCEPT !.machine[m] = state,
                            !.job[m] = IF state \in {"Running", "absent", "failed"}
                                       THEN "none" ELSE @]
    /\ Announce((state \in Registered) # (host.machine[m] \in Registered))

HostStarts(m) ==
    \/ host.job[m] = "start" /\ host.machine[m] \in {"absent", "failed"}
       /\ (HostBecomes(m, "Starting") \/ HostBecomes(m, "failed"))
    \/ host.machine[m] = "Starting"
       /\ (HostBecomes(m, "Running") \/ HostBecomes(m, "failed"))

HostStops(m) ==
    /\ host.job[m] = "stop" /\ host.machine[m] \in Registered
    /\ HostBecomes(m, "absent")

\* A reboot takes the registration away and brings it back.
HostReboots(m) ==
    /\ host.job[m] = "reboot" /\ host.machine[m] = "Running"
    /\ host' = [host EXCEPT !.machine[m] = "absent", !.job[m] = "start"]
    /\ Announce(TRUE)

\* A job the host accepted but that no longer applies ends without a change.
HostDrops(m) ==
    /\ \/ host.job[m] = "start" /\ host.machine[m] = "Running"
       \/ host.job[m] = "stop" /\ host.machine[m] \notin Registered
       \/ host.job[m] = "reboot" /\ host.machine[m] # "Running"
    /\ host' = [host EXCEPT !.job[m] = "none"]
    /\ UNCHANGED signal

HostStep(m) ==
    /\ HostStarts(m) \/ HostStops(m) \/ HostReboots(m) \/ HostDrops(m)
    /\ UNCHANGED <<vars, ops, transitions, finished, invalidated, catalog,
                   viewVars, inputs>>

\* Something from outside, within the bound.
Input == inputs < MaxInputs /\ inputs' = inputs + 1

\* Somebody else asks the host for the same things.
Elsewhere(m, job) ==
    /\ Input
    /\ host.job[m] = "none"
    /\ job = "start" => m \in host.images
    /\ host' = [host EXCEPT !.job[m] = job]
    /\ UNCHANGED <<vars, ops, transitions, finished, invalidated, signal, catalog,
                   viewVars>>

-----------------------------------------------------------------------------
\* What the user sees.  project_machines overlays the pending transitions on
\* the last observation; a start shows a machine that is not observed yet.
Project(observed, pending) ==
    [m \in Machines |->
        CASE pending[m] = "Starting" -> "Starting"
          [] pending[m] \in {"Stopping", "Rebooting", "RebootingAway"}
             /\ observed[m] # "absent" -> "Exiting"
          [] OTHER -> observed[m]]

\* observe_machines: what a snapshot's entry does to a pending transition.
Confirmed(kind, state) ==
    CASE kind = "Starting" -> IF state = "Running" THEN "none" ELSE kind
      [] kind = "Stopping" -> IF state = "absent" THEN "none" ELSE kind
      [] kind = "Rebooting" -> IF state = "absent" THEN "RebootingAway" ELSE kind
      [] kind = "RebootingAway" -> IF state = "absent" THEN kind ELSE "none"
      [] OTHER -> "none"

Reproject(pending) ==
    catalog' = [catalog EXCEPT !.shown = Project(catalog.observed, pending)]

\* begin_operation: the reservation comes first, then the transition.
TransitionOf(kind) ==
    CASE kind = "launch" -> "Starting"
      [] kind = "stop" -> "Stopping"
      [] kind = "reboot" -> "Rebooting"
      [] OTHER -> "none"

ForMachine(m) == KeyOf[m]

FirstStep(kind) ==
    CASE kind = "launch" -> "prepare" [] kind = "remove" -> "list" [] OTHER -> "control"

Operation(name, kind) ==
    [id |-> FreshId, name |-> name, kind |-> kind, pc |-> FirstStep(kind),
     route |-> "first", calls |-> 0, retain |-> FALSE]

BeginOperation(m, kind) ==
    /\ Input
    /\ Reserve({[key |-> ForMachine(m), access |-> "Exclusive"]})
    /\ ops' = ops \cup {Operation(m, kind)}
    /\ transitions' = IF TransitionOf(kind) = "none" THEN transitions
                      ELSE [transitions EXCEPT ![m] = TransitionOf(kind)]
    /\ Reproject(transitions')
    /\ UNCHANGED <<hostVars, viewVars, finished, invalidated>>

\* The user acts on what is shown, not on what the host is.
BeginLaunch(m) ==
    /\ m \in catalog.images /\ catalog.shown[m] = "absent"
    /\ BeginOperation(m, "launch")

BeginRuntime(m, action) ==
    /\ catalog.shown[m] = "Running"
    /\ BeginOperation(m, action)

BeginUnit(m) ==
    /\ m \in catalog.images
    /\ BeginOperation(m, "unit")

\* The delete dialog was opened and confirmed on an image without a machine.
BeginRemove(i) ==
    /\ Input
    /\ i \in catalog.images
    /\ i \in Machines => catalog.shown[i] = "absent"
    /\ ReserveImageRemoval(i)
    /\ ops' = ops \cup {Operation(i, "remove")}
    /\ UNCHANGED <<hostVars, viewVars, transitions, finished, invalidated, catalog>>

-----------------------------------------------------------------------------
\* MachineOperation::run and ImageRemovalOperation::run.
Becomes(o, new) == ops' = (ops \ {o}) \cup {new}
Goto(o, pc) == Becomes(o, [o EXCEPT !.pc = pc])
HasTransition(o) == TransitionOf(o.kind) # "none"
Ends(o, retain) == [o EXCEPT !.pc = "drop", !.retain = retain /\ HasTransition(o)]
OnlyOps == UNCHANGED <<vars, transitions, finished, watcher, loop, channel,
                       catalog, inputs>>

\* The user is asked for elevation first.  A granted request changes nothing
\* here; a refused one ends the operation before the host saw it.
Refuse(o) ==
    /\ o.pc = FirstStep(o.kind) /\ o.route = "first"
    /\ IF o.kind = "remove" THEN Goto(o, "release") ELSE Becomes(o, Ends(o, FALSE))
    /\ OnlyOps /\ UNCHANGED <<host, signal, invalidated>>

\* Preparing the start invalidates the snapshot whether or not it worked.
Prepare(o) ==
    /\ o.pc = "prepare"
    /\ invalidated' = TRUE
    /\ Goto(o, "control") \/ \E unknown \in BOOLEAN : Becomes(o, Ends(o, unknown))
    /\ OnlyOps /\ UNCHANGED <<host, signal>>

\* What a call that reached the host does there.
Accepted(o) ==
    CASE o.kind = "launch" -> [host EXCEPT !.job[o.name] = "start"]
      [] o.kind \in {"stop", "kill"} -> [host EXCEPT !.job[o.name] = "stop"]
      [] o.kind = "reboot" -> [host EXCEPT !.job[o.name] = "reboot"]
      [] o.kind = "remove" -> [host EXCEPT !.images = @ \ {o.name}]
      [] OTHER -> host

\* One executor: it is not attempted, or it is and the answer may be lost.
Attempt(o, outcome) ==
    \/ /\ outcome = "Succeeded"
       /\ host' = Accepted(o)
       /\ Announce(o.kind = "remove")
    \/ /\ outcome \in {"Failed", "OutcomeUnknown"}
       /\ \/ host' = Accepted(o) /\ Announce(o.kind = "remove")
          \/ UNCHANGED <<host, signal>>
    \/ /\ outcome \in {"NotAttempted", "Rejected"}
       /\ UNCHANGED <<host, signal>>

ControlOutcome == {"Succeeded", "NotAttempted", "Rejected", "Failed", "OutcomeUnknown"}

\* Only an outcome that never reached the host goes to the second executor.
FallsBack_Unknown(o, outcome) ==
    o.route = "first" /\ outcome \in {"NotAttempted", "OutcomeUnknown"}
FallsBack(o, outcome) == o.route = "first" /\ outcome = "NotAttempted"

Control(o) ==
    /\ o.pc = "control"
    /\ \E outcome \in ControlOutcome :
        LET called == [o EXCEPT !.calls = IF outcome \in {"NotAttempted", "Rejected"}
                                          THEN @ ELSE @ + 1]
        IN  /\ Attempt(o, outcome)
            /\ IF FallsBack(o, outcome)
               THEN Becomes(o, [called EXCEPT !.route = "second"])
                    /\ UNCHANGED invalidated
               ELSE IF o.kind = "launch" /\ outcome = "Succeeded"
               THEN Becomes(o, [called EXCEPT !.pc = "confirm"])
                    /\ UNCHANGED invalidated
               ELSE /\ Becomes(o, Ends(called, outcome \in {"Succeeded", "OutcomeUnknown"}))
                    /\ invalidated' = TRUE
    /\ OnlyOps

\* confirm_start polls the unit until it is active or failed, or gives up; the
\* inspection itself may fail, so giving up is always possible.
ConfirmStart(o) ==
    /\ o.pc = "confirm"
    /\ invalidated' = TRUE
    /\ \/ host.machine[o.name] = "failed" /\ Becomes(o, Ends(o, FALSE))
       \/ Becomes(o, Ends(o, TRUE))
    /\ OnlyOps /\ UNCHANGED <<host, signal>>

\* The removal looks at the machines once, before it disables the unit.
ListMachines(o) ==
    /\ o.pc = "list"
    /\ \/ o.name \in Machines /\ View[o.name] # "absent" /\ Goto(o, "release")
       \/ ~ (o.name \in Machines /\ View[o.name] # "absent") /\ Goto(o, "remove")
       \/ Goto(o, "release")
    /\ OnlyOps /\ UNCHANGED <<host, signal, invalidated>>

\* Disabling the unit and, after a known removal, cleaning up what Lasper wrote
\* for the machine are only reported; the reservation is held through both.
RemoveImage(o) ==
    /\ o.pc = "remove"
    /\ \E outcome \in ControlOutcome :
        /\ Attempt(o, outcome)
        /\ LET called == [o EXCEPT !.calls = IF outcome \in {"NotAttempted", "Rejected"}
                                             THEN @ ELSE @ + 1]
           IN  Becomes(o, IF FallsBack(o, outcome)
                          THEN [called EXCEPT !.route = "second"]
                          ELSE [called EXCEPT !.pc = "release"])
    /\ OnlyOps /\ UNCHANGED invalidated

\* Drop for MachineOperation, then the drop of its reservation field.
DropTransition(o) ==
    /\ o.pc = "drop"
    /\ transitions' = IF o.retain \/ ~ HasTransition(o) THEN transitions
                      ELSE [transitions EXCEPT ![o.name] = "none"]
    /\ Goto(o, "release")
    /\ UNCHANGED <<vars, finished>>

DropReservation(o) ==
    /\ o.pc = "release"
    /\ Release(CHOOSE g \in guards : g.id = o.id)
    /\ ops' = ops \ {o}
    /\ finished' = finished \cup {o.kind}
    /\ UNCHANGED transitions

Drop(o) ==
    /\ DropTransition(o) \/ DropReservation(o)
    /\ UNCHANGED <<hostVars, viewVars, invalidated, catalog, inputs>>

OperationStep(o) ==
    \/ Refuse(o) \/ Prepare(o) \/ Control(o) \/ ConfirmStart(o)
    \/ ListMachines(o) \/ RemoveImage(o)
    \/ Drop(o)

-----------------------------------------------------------------------------
\* The observation loop.
Forward ==
    /\ signal
    /\ signal' = FALSE
    /\ invalidated' = TRUE
    /\ UNCHANGED <<vars, host, ops, transitions, finished, viewVars, catalog, inputs>>

\* The backend watcher subscribes some time after the loop started, and may
\* fail; the loop then polls.
Subscribe ==
    /\ watcher = "starting"
    /\ watcher' = "watching"
    /\ UNCHANGED <<vars, hostVars, ops, transitions, finished, invalidated, loop,
                   channel, catalog, inputs>>

WatcherEnds ==
    /\ watcher \in {"starting", "watching"}
    /\ Input
    /\ watcher' = "ended"
    /\ signal' = FALSE
    /\ UNCHANGED <<vars, host, ops, transitions, finished, invalidated, loop,
                   channel, catalog>>

LoopOnly == UNCHANGED <<vars, hostVars, ops, transitions, finished, catalog>>

\* borrow_and_update before the query, so that a later change stays unseen.
LoopTop ==
    /\ loop.pc = "top"
    /\ loop' = [loop EXCEPT !.pc = "query", !.publish = @ \/ invalidated,
                            !.watched = FALSE]
    /\ invalidated' = FALSE
    /\ LoopOnly /\ UNCHANGED <<watcher, channel, inputs>>

\* RuntimeCatalog::snapshot over the primary source, over the fallback, or an
\* error of both.
Snapshot(dbus) ==
    [kind |-> "Snapshot", machines |-> View, images |-> host.images, dbus |-> dbus]

\* RefreshState::update: only a background poll that finds nothing new is
\* kept back.
Publishes(result) ==
    result.kind = "Failure" \/ loop.publish \/ loop.failing \/ loop.previous # result

LoopQuery ==
    /\ loop.pc = "query"
    /\ \E result \in {Snapshot(TRUE), Snapshot(FALSE), [kind |-> "Failure"]} :
        /\ result = Snapshot(TRUE) => loop.primary
        /\ IF result = Snapshot(loop.primary) THEN UNCHANGED inputs ELSE Input
        /\ loop' = [loop EXCEPT !.pc = "update", !.result = result,
                                !.watched = watcher = "watching"]
    /\ LoopOnly /\ UNCHANGED <<invalidated, watcher, channel>>

Deliver ==
    /\ loop.pc = "update"
    /\ IF Publishes(loop.result) THEN channel = NoUpdate /\ channel' = loop.result
       ELSE UNCHANGED channel
    /\ loop' = [loop EXCEPT !.pc = "wait", !.result = NoUpdate, !.publish = FALSE,
                            !.failing = loop.result.kind = "Failure",
                            !.watched = @ /\ loop.result.kind = "Snapshot",
                            !.previous = IF loop.result.kind = "Failure" THEN @
                                         ELSE loop.result]
    /\ LoopOnly /\ UNCHANGED <<watcher, inputs>>

LoopUpdate == Deliver /\ UNCHANGED invalidated

\* A D-Bus snapshot next to a live watcher only needs a heartbeat.
Heartbeat == loop.backend /\ ~ loop.failing /\ loop.previous.dbus

LoopWait ==
    /\ loop.pc = "wait"
    /\ \/ /\ loop' = [loop EXCEPT !.pc = "top", !.publish = Heartbeat]
          /\ UNCHANGED <<invalidated, watcher>>
       \/ /\ invalidated
          /\ invalidated' = FALSE
          /\ loop' = [loop EXCEPT !.pc = "top", !.publish = TRUE]
          /\ UNCHANGED watcher
       \/ /\ watcher = "ended"
          /\ watcher' = "stopped"
          /\ loop' = [loop EXCEPT !.pc = "top", !.publish = TRUE, !.backend = FALSE]
          /\ UNCHANGED invalidated
    /\ LoopOnly /\ UNCHANGED <<channel, inputs>>

LoopStep == LoopTop \/ LoopQuery \/ LoopUpdate \/ LoopWait

-----------------------------------------------------------------------------
\* The main loop of the terminal interface.
MainOnly == UNCHANGED <<vars, hostVars, ops, watcher, loop, inputs>>

\* sync_snapshot: confirm from the raw observation, then project it.
ApplyUpdate ==
    /\ channel # NoUpdate
    /\ channel' = NoUpdate
    /\ IF channel.kind = "Snapshot"
       THEN /\ transitions' = [m \in Machines |->
                                 Confirmed(transitions[m], channel.machines[m])]
            /\ catalog' = [observed |-> channel.machines,
                           shown |-> Project(channel.machines, transitions'),
                           images |-> channel.images]
       ELSE UNCHANGED <<transitions, catalog>>
    /\ MainOnly /\ UNCHANGED <<finished, invalidated>>

ExpireTransitions ==
    /\ \E m \in Machines :
        /\ transitions[m] # "none"
        /\ transitions' = [transitions EXCEPT ![m] = "none"]
    /\ Reproject(transitions')
    /\ MainOnly /\ UNCHANGED <<finished, invalidated, channel>>

HandleCompletion_NoReproject(f) ==
    /\ finished' = finished \ {f}
    /\ UNCHANGED catalog
    /\ invalidated' = TRUE \/ UNCHANGED invalidated
    /\ MainOnly /\ UNCHANGED <<transitions, channel>>

\* A machine operation's completion reprojects; both ask for a refresh, which
\* an open overlay suppresses.
HandleCompletion(f) ==
    /\ finished' = finished \ {f}
    /\ IF f = "remove" THEN UNCHANGED catalog ELSE Reproject(transitions)
    /\ invalidated' = TRUE \/ UNCHANGED invalidated
    /\ MainOnly /\ UNCHANGED <<transitions, channel>>

MainStep == ApplyUpdate \/ ExpireTransitions \/ \E f \in finished : HandleCompletion(f)

-----------------------------------------------------------------------------
LifecycleInit ==
    /\ Init
    /\ host \in [machine : [Machines -> {"absent", "Running"}],
                 job : [Machines -> {"none"}], images : {Machines}]
    /\ ops = {} /\ finished = {}
    /\ transitions = [m \in Machines |-> "none"]
    /\ invalidated = FALSE /\ signal = FALSE
    /\ watcher \in {"starting", "stopped"}
    /\ loop = [pc |-> "top", publish |-> TRUE, backend |-> watcher = "starting",
               primary |-> watcher = "starting",
               result |-> NoUpdate, previous |-> NoUpdate, failing |-> FALSE,
               watched |-> FALSE]
    /\ channel = NoUpdate
    /\ catalog = [observed |-> [m \in Machines |-> "absent"],
                  shown |-> [m \in Machines |-> "absent"], images |-> {}]
    /\ inputs = 0

Ask ==
    \/ \E m \in Machines : \/ BeginLaunch(m) \/ BeginUnit(m)
                           \/ \E a \in RuntimeAction : BeginRuntime(m, a)
    \/ \E i \in Images : BeginRemove(i)

LifecycleNext ==
    \/ \E m \in Machines : HostStep(m) \/ \E j \in {"start", "stop"} : Elsewhere(m, j)
    \/ Ask
    \/ \E o \in ops : OperationStep(o)
    \/ Forward \/ Subscribe \/ WatcherEnds
    \/ LoopStep
    \/ MainStep

LifecycleSpec == LifecycleInit /\ [][LifecycleNext]_<<vars, lifecycleVars>>

-----------------------------------------------------------------------------

\* The host is asked for an operation at most once, whatever transport answers
\* and whatever answer is lost (RoutedMachineControl::execute and remove_image
\* fall back to the second transport).  And it is asked for one operation at a
\* time: two on one machine or its image are never alive together, not while a
\* removal runs under another key than a launch would, and not between the
\* release of a reservation and the removal of the transition it protects
\* (begin_operation, begin_remove and Drop for MachineOperation).
ControlAtMostOnce ==
    /\ \A o \in ops : o.calls <= 1
    /\ \A o1, o2 \in ops : o1.name = o2.name => o1 = o2

\* Once the loop has read what the host is, its updates were applied and no
\* operation or transition is pending, the list that is shown is the host's: no
\* optimistic state outlives its operation and no deduplicated poll hides the
\* correction (project_machines, RefreshState::update, the completion handler).
\* And when the loop sleeps with nothing pending and its watcher was subscribed
\* when it read, the snapshot it read still names the registered machines: a
\* change during the query is not lost (refresh_catalog).
DisplayIsTrue ==
    /\ (/\ ops = {} /\ finished = {} /\ channel = NoUpdate
        /\ \A m \in Machines : transitions[m] = "none"
        /\ loop.previous # NoUpdate
        /\ loop.previous.machines = View /\ loop.previous.images = host.images)
       => catalog.shown = View /\ catalog.images = host.images
    /\ (/\ loop.pc = "wait" /\ loop.watched /\ watcher = "watching"
        /\ ~ invalidated /\ ~ signal)
       => \A m \in Machines : loop.previous.machines[m] = "absent" <=> View[m] = "absent"
==============================================================================
