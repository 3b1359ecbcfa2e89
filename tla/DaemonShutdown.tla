---------------------------- MODULE DaemonShutdown ----------------------------
(***************************************************************************)
(* The elevated daemon from its first request to its exit: the request pump  *)
(* of the RPC connection (daemon/dispatch/connection.rs), the admission gate  *)
(* both channels go through (daemon/server/shutdown.rs), the sessions and     *)
(* jobs that requests start, and the main flow that closes the gate, drains    *)
(* it, cancels the jobs and ends the sessions.                                *)
(***************************************************************************)
EXTENDS SessionRegistry

CONSTANTS
    Jobs,           \* deployment submissions
    QueueCapacity   \* responses the writer task has not taken yet

ASSUME QueueBound == QueueCapacity \in Nat \ {0}

VARIABLES
    main,       \* [pc, ticket, todo, grace]: the main flow
    requested,  \* RequestState.requested
    leases,     \* ActiveRequest values alive, by the request that has it
    signaller,  \* another task's begin(): the parent monitor or the writer
    request,    \* CloseSession requests on the RPC connection
    queue,      \* length of the response queue
    job,        \* deployments
    cancelled   \* deployments whose cancellation was requested

gateVars == <<requested, leases, signaller>>
vars == <<sessionVars, main, gateVars, request, queue, job, cancelled>>

Requests == Processes \cup Closers \cup Jobs \cup {"pump"}
ASSUME RequestsDiffer ==
    /\ Processes \cap Closers = {} /\ Processes \cap Jobs = {} /\ Closers \cap Jobs = {}
    /\ "pump" \notin Processes \cup Closers \cup Jobs

Running == main.pc # "exited"
Registered == {p \in Processes : Entry(p) = p}
Goto(pc) == main' = [main EXCEPT !.pc = pc]

-----------------------------------------------------------------------------
(* The gate.  A Notified future that exists when notify_waiters is called is  *)
(* woken by it: the ticket.                                                   *)
Woken(m) == [m EXCEPT !.ticket = IF @ = "taken" THEN "called" ELSE @]

Admit(r) ==
    /\ ~ requested
    /\ leases' = leases \cup {r}
    /\ UNCHANGED <<requested, signaller>>

\* Drop of an ActiveRequest; the last one wakes the waiters.  m is the main
\* flow after the rest of the step.
Drop(r, m) ==
    /\ leases' = leases \ {r}
    /\ main' = IF leases' = {} THEN Woken(m) ELSE m
    /\ UNCHANGED <<requested, signaller>>

\* begin() in another task: the flag, then the notification.
BeginFlag ==
    /\ Running /\ signaller = "idle"
    /\ requested' = TRUE
    /\ signaller' = "flagged"
    /\ UNCHANGED <<sessionVars, main, leases, request, queue, job, cancelled>>
BeginNotify ==
    /\ Running /\ signaller = "flagged"
    /\ main' = Woken(main)
    /\ signaller' = "done"
    /\ UNCHANGED <<sessionVars, requested, leases, request, queue, job, cancelled>>

-----------------------------------------------------------------------------
(* The request pump.  Each round waits for the flag and for a line at once.   *)
PumpTop ==
    /\ main.pc = "top"
    /\ main' = [main EXCEPT !.pc = "check", !.ticket = "taken"]
PumpCheck ==
    /\ main.pc = "check"
    /\ Goto(IF requested THEN "close" ELSE "wait")
PumpWoken ==
    /\ main.pc = "wait" /\ main.ticket = "called"
    /\ Goto("top")
Pump ==
    /\ PumpTop \/ PumpCheck \/ PumpWoken
    /\ UNCHANGED <<sessionVars, gateVars, request, queue, job, cancelled>>

\* The connection was closed, or reading failed; or the line is no request,
\* which is answered without a lease.
PumpEnds ==
    /\ main.pc = "wait"
    /\ Goto("close") \/ Goto("respond")
    /\ UNCHANGED <<sessionVars, gateVars, request, queue, job, cancelled>>

\* A request: the gate may have been closed in the meantime.  A request that
\* finds its resource or the request slots taken is answered from the pump,
\* which keeps its lease meanwhile.
PumpAdmits(c) ==
    /\ main.pc = "wait" /\ request[c] = "none"
    /\ \/ requested /\ Goto("close") /\ UNCHANGED <<gateVars, request>>
       \/ /\ Admit(c)
          /\ request' = [request EXCEPT ![c] = "admitted"]
          /\ Goto("top")
       \/ /\ Admit("pump")
          /\ request' = [request EXCEPT ![c] = "done"]
          /\ Goto("respond")
    /\ UNCHANGED <<sessionVars, queue, job, cancelled>>

\* Mutant: an answer waits for room in the queue whatever happens.
PumpResponds_Blocks ==
    /\ main.pc = "respond"
    /\ queue < QueueCapacity /\ queue' = queue + 1
    /\ Drop("pump", [main EXCEPT !.pc = "top"])
    /\ UNCHANGED <<sessionVars, request, job, cancelled>>

\* respond: shutdown or room in the queue, whichever comes first.
PumpResponds ==
    /\ main.pc = "respond"
    /\ \/ /\ requested
          /\ Drop("pump", [main EXCEPT !.pc = "close"])
          /\ UNCHANGED queue
       \/ /\ queue < QueueCapacity
          /\ queue' = queue + 1
          /\ Drop("pump", [main EXCEPT !.pc = "top"])
    /\ UNCHANGED <<sessionVars, request, job, cancelled>>

-----------------------------------------------------------------------------
(* Requests at work.                                                          *)

\* CloseSession finds a process or not; no other method changes anything here.
Handle(c) ==
    /\ Running /\ request[c] = "admitted"
    /\ request' = [request EXCEPT ![c] = "handling"]
    /\ (\E id \in Ids : CloseSession(c, id)) \/ UNCHANGED sessionVars
    /\ UNCHANGED <<main, gateVars, queue, job, cancelled>>

\* The handler has returned, the escalation is left to a task of its own: the
\* lease ends with the operation, before its response is sent.
Handled(c) ==
    /\ Running /\ request[c] = "handling"
    /\ closer[c].at \notin {"validate", "terminate"}
    /\ request' = [request EXCEPT ![c] = "responding"]
    /\ Drop(c, main)
    /\ UNCHANGED <<sessionVars, queue, job, cancelled>>

Respond(c) ==
    /\ Running /\ request[c] = "responding"
    /\ request' = [request EXCEPT ![c] = "done"]
    /\ queue' \in (IF requested THEN {queue} ELSE {})
                    \cup (IF queue < QueueCapacity THEN {queue + 1} ELSE {})
    /\ UNCHANGED <<sessionVars, main, gateVars, job, cancelled>>

\* The task that forwards D-Bus events uses the same queue.
EventQueued ==
    /\ Running /\ queue < QueueCapacity
    /\ queue' = queue + 1
    /\ UNCHANGED <<sessionVars, main, gateVars, request, job, cancelled>>

\* The writer task; a client that does not read stops it for ever.
WriterTakes ==
    /\ Running /\ queue > 0
    /\ queue' = queue - 1
    /\ UNCHANGED <<sessionVars, main, gateVars, request, job, cancelled>>

\* An FD connection that opens a session: its lease covers the blocking worker
\* that spawns, registers and delivers.  The child may fail to start.
OpenSession(p) ==
    /\ Running /\ kernel[p] = "none"
    /\ Admit(p)
    /\ UNCHANGED <<sessionVars, main, request, queue, job, cancelled>>
StartSession(p) ==
    /\ Running /\ p \in leases
    /\ Spawn(p)
    /\ UNCHANGED <<main, gateVars, request, queue, job, cancelled>>
Opened(p) ==
    /\ Running /\ p \in leases
    /\ opener[p] \in {"none", "delivered", "failed"}
    /\ Drop(p, main)
    /\ UNCHANGED <<sessionVars, request, queue, job, cancelled>>

\* An FD connection that submits a deployment: the job is registered, or not,
\* before the lease ends; the executor goes on by itself.
SubmitJob(j) ==
    /\ Running /\ job[j] = "none"
    /\ Admit(j)
    /\ job' = [job EXCEPT ![j] = "submitting"]
    /\ UNCHANGED <<sessionVars, main, request, queue, cancelled>>
JobSubmitted(j) ==
    /\ Running /\ job[j] = "submitting"
    /\ job' \in {[job EXCEPT ![j] = "running"], [job EXCEPT ![j] = "ended"]}
    /\ Drop(j, main)
    /\ UNCHANGED <<sessionVars, request, queue, cancelled>>
JobEnds(j) ==
    /\ Running /\ job[j] = "running"
    /\ job' = [job EXCEPT ![j] = "ended"]
    /\ UNCHANGED <<sessionVars, main, gateVars, request, queue, cancelled>>

-----------------------------------------------------------------------------
(* shutdown_daemon_resources.                                                 *)
CloseGate ==
    /\ main.pc = "close"
    /\ requested' = TRUE
    /\ main' = [main EXCEPT !.pc = "drain", !.ticket = "none"]
    /\ UNCHANGED <<sessionVars, leases, signaller, request, queue, job, cancelled>>

DrainRegisters ==
    /\ main.pc = "drain"
    /\ main' = [main EXCEPT !.pc = "drainCheck", !.ticket = "taken"]

DrainChecks ==
    /\ main.pc = "drainCheck"
    /\ Goto(IF leases = {} THEN "cancel" ELSE "drainWait")
DrainWoken ==
    /\ main.pc = "drainWait" /\ main.ticket = "called"
    /\ Goto("drain")

\* cancel_all_and_wait: until no job is active, or until the grace is over.
JobsWaited ==
    /\ main.pc = "jobs"
    /\ Goto("snapshot")

\* The registered sessions are asked to end ...
Snapshot ==
    /\ main.pc = "snapshot"
    /\ main' = [main EXCEPT !.pc = "terminating", !.todo = Registered]
\* signal: a completed or exited process is left alone.
SignalTerm(p) ==
    /\ main.pc = "terminating" /\ p \in main.todo
    /\ main' = [main EXCEPT !.todo = @ \ {p},
                            !.grace = @ \/ (p \notin completed /\ kernel[p] = "alive")]
\* ... and if one was there to be asked, they are given time to do so.
AllSignalled ==
    /\ main.pc = "terminating" /\ main.todo = {}
    /\ Goto(IF main.grace THEN "waitEmpty" ELSE "exited")
SessionsEmpty ==
    /\ main.pc = "waitEmpty" /\ Registered = {}
    /\ Goto("exited")

\* Mutant: the sessions are left to themselves when the grace is over.
GraceOver_Exits ==
    /\ main.pc = "waitEmpty"
    /\ Goto("exited")

GraceOver ==
    /\ main.pc = "waitEmpty"
    /\ main' = [main EXCEPT !.pc = "killing", !.todo = Registered]

Cleanup ==
    /\ \/ DrainRegisters \/ DrainChecks \/ DrainWoken
       \/ JobsWaited \/ Snapshot \/ AllSignalled \/ SessionsEmpty \/ GraceOver
       \/ \E p \in Processes : SignalTerm(p)
    /\ UNCHANGED <<sessionVars, gateVars, request, queue, job, cancelled>>

CancelAll ==
    /\ main.pc = "cancel"
    /\ cancelled' = cancelled \cup {j \in Jobs : job[j] \in {"running", "ended"}}
    /\ Goto("jobs")
    /\ UNCHANGED <<sessionVars, gateVars, request, queue, job>>

SignalKill ==
    /\ main.pc = "killing"
    /\ \/ \E p \in main.todo :
             /\ killed' = IF p \notin completed /\ kernel[p] = "alive"
                          THEN killed \cup {p} ELSE killed
             /\ main' = [main EXCEPT !.todo = @ \ {p}]
       \/ main.todo = {} /\ Goto("exited") /\ UNCHANGED killed
    /\ UNCHANGED <<sessions, kernel, opener, reaper, completed, closer>>
    /\ UNCHANGED <<gateVars, request, queue, job, cancelled>>

Init ==
    /\ SessionInit
    /\ main = [pc |-> "top", ticket |-> "none", todo |-> {}, grace |-> FALSE]
    /\ requested = FALSE /\ leases = {} /\ signaller = "idle"
    /\ request = [c \in Closers |-> "none"]
    /\ queue = 0
    /\ job = [j \in Jobs |-> "none"]
    /\ cancelled = {}

Main == Pump \/ PumpResponds \/ CloseGate \/ Cleanup \/ CancelAll \/ SignalKill

\* What a session's tasks do while the daemon runs; children exit at any time.
SessionTasks ==
    /\ \/ Running /\ \E p \in Processes : Open(p) \/ Reaper(p) \/ MonitorFails(p)
       \/ Running /\ \E c \in Closers : Close(c)
       \/ \E p \in Processes : Exit(p)
    /\ UNCHANGED <<main, gateVars, request, queue, job, cancelled>>

Next ==
    \/ Main \/ SessionTasks \/ BeginFlag \/ BeginNotify
    \/ PumpEnds \/ EventQueued \/ WriterTakes
    \/ \E c \in Closers : PumpAdmits(c) \/ Handle(c) \/ Handled(c) \/ Respond(c)
    \/ \E p \in Processes : OpenSession(p) \/ StartSession(p) \/ Opened(p)
    \/ \E j \in Jobs : SubmitJob(j) \/ JobSubmitted(j) \/ JobEnds(j)

\* The main flow and every admitted request go on: they wait for nothing but
\* timers, operations that end, and the gate itself.  The client need send
\* nothing and read no response, and a job or a session need not end.
Fairness ==
    /\ WF_vars(Main)
    /\ WF_vars(BeginNotify)
    /\ \A c \in Closers :
          WF_vars(Handle(c)) /\ WF_vars(Handled(c)) /\ WF_vars(Running /\ Close(c)
            /\ UNCHANGED <<main, gateVars, request, queue, job, cancelled>>)
    /\ \A p \in Processes :
          WF_vars(Opened(p)) /\ WF_vars(Running /\ Open(p)
            /\ UNCHANGED <<main, gateVars, request, queue, job, cancelled>>)
    /\ \A j \in Jobs : WF_vars(JobSubmitted(j))

Spec == Init /\ [][Next]_vars /\ Fairness

-----------------------------------------------------------------------------
\* Variables are typed; each admitted request has one lease, and only those do.
TypeOK ==
    /\ SessionTypeOK
    /\ main \in [pc : {"top", "check", "wait", "respond", "close", "drain",
                       "drainCheck", "drainWait", "cancel", "jobs", "snapshot",
                       "terminating", "waitEmpty", "killing", "exited"},
                 ticket : {"none", "taken", "called"}, todo : SUBSET Processes,
                 grace : BOOLEAN]
    /\ requested \in BOOLEAN
    /\ leases \subseteq Requests
    /\ signaller \in {"idle", "flagged", "done"}
    /\ request \in [Closers -> {"none", "admitted", "handling", "responding", "done"}]
    /\ queue \in 0 .. QueueCapacity
    /\ job \in [Jobs -> {"none", "submitting", "running", "ended"}]
    /\ cancelled \subseteq Jobs
    /\ \A c \in Closers : request[c] \in {"admitted", "handling"} <=> c \in leases
    /\ \A j \in Jobs : job[j] = "submitting" <=> j \in leases

\* "wait until every handoff is complete before taking either registry's
\* snapshot" (shutdown.rs:84-86): once the main flow looks at the jobs and at the
\* sessions, no request can add one.
SnapshotsAreComplete ==
    main.pc \in {"cancel", "jobs", "snapshot", "terminating", "waitEmpty", "killing"} =>
        /\ leases = {}
        /\ \A p \in Processes : opener[p] \notin {"check", "capture", "send"}

\* The daemon leaves nothing behind that it did not tell to end, whatever was
\* being opened, closed, submitted or reaped when it was told to stop: a session
\* that still runs was killed, a deployment that still runs was cancelled.
NothingLeftUntold ==
    ~ Running =>
        /\ \A p \in Processes : kernel[p] = "alive" => p \in killed
        /\ \A j \in Jobs : job[j] = "running" => j \in cancelled

\* Once shutdown is requested the daemon exits: no wakeup is missed between
\* looking at the gate and waiting, and neither a client that does not read
\* its responses nor a job or session that does not end can hold it up.
ShutdownCompletes == requested ~> ~ Running
==============================================================================
