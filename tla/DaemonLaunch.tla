---------------------------- MODULE DaemonLaunch ----------------------------
(***************************************************************************)
(* How Lasper gets its root daemon and gets rid of one it cannot use:         *)
(* ElevatedDaemon::spawn, the launcher (sudo or run0) and its forced end, and  *)
(* the daemon from its first instruction to the accepted handshake.  The       *)
(* launcher asks the user, without a deadline.  run0 has systemd start the     *)
(* daemon as a service of its own, which survives run0.  The launcher's        *)
(* process, the service manager and the kernel's refusals are external.        *)
(***************************************************************************)

CONSTANT Methods    \* the elevation methods: Sudo, Run0
ASSUME MethodSet == Methods \subseteq {"Sudo", "Run0"}

VARIABLES
    method,     \* the chosen launcher
    frontend,   \* the process of the TUI is alive
    spawn,      \* [pc, killed, result] of ElevatedDaemon::spawn and its cleanup
    child,      \* the launcher's process
    unit,       \* the transient service of run0
    proc,       \* the daemon's process
    link        \* the RPC connection

launchVars == <<method, frontend, spawn, child, unit, proc, link>>

Alive == proc \notin {"none", "gone"}
ChildAlive == child \in {"prompt", "granted"}
Goto(pc) == spawn' = [spawn EXCEPT !.pc = pc]

-----------------------------------------------------------------------------
(* The launcher's process and the service manager (external). *)
Authorize ==
    /\ child = "prompt"
    /\ \/ /\ child' = "granted" /\ proc' = "boot"
          /\ unit' = IF method = "Run0" THEN "started" ELSE unit
       \/ child' = "failed" /\ UNCHANGED <<proc, unit>>
    /\ UNCHANGED <<method, frontend, spawn, link>>

\* The launcher ends with its daemon, and a service with its process.
ChildEnds ==
    /\ child = "granted" /\ proc = "gone"
    /\ child' \in {"succeeded", "failed"}
    /\ UNCHANGED <<method, frontend, spawn, unit, proc, link>>
UnitEnds ==
    /\ unit = "started" /\ proc = "gone"
    /\ unit' = "collected"
    /\ UNCHANGED <<method, frontend, spawn, child, proc, link>>

-----------------------------------------------------------------------------
(* daemon_main up to the request pump.  Every step can fail and exit. *)
Boot(from, to) == proc = from /\ proc' \in {to, "gone"}

\* open_pidfd pins the process that has the front end's pid by then; no other
\* process is assumed to have been given it in the meantime.
DaemonBoots ==
    /\ \/ frontend /\ Boot("boot", "pinned")
       \/ ~ frontend /\ proc = "boot" /\ proc' = "gone"
       \/ Boot("pinned", "bound")          \* rpc.sock, not yet the user's
       \/ Boot("bound", "listening")       \* chown and chmod of rpc.sock
       \/ Boot("listening", "accepting")   \* fd.sock
    /\ UNCHANGED <<method, frontend, spawn, child, unit, link>>

\* accept_rpc_connection: a handshake that does not come in time is dropped and
\* the next connection is awaited.
AcceptRpc ==
    /\ proc = "accepting"
    /\ \/ link = "sent" /\ proc' = "serving" /\ link' = "open"
       \/ link \in {"connected", "sent"} /\ proc' = proc /\ link' = "closed"
    /\ UNCHANGED <<method, frontend, spawn, child, unit>>

\* monitor_parent asks for a shutdown, which the wait for a connection and the
\* request pump hear; the pump also ends with its connection.
DaemonEnds_ServingOnly ==
    /\ proc = "serving" /\ (~ frontend \/ link = "closed")
    /\ proc' = "gone"
    /\ UNCHANGED <<method, frontend, spawn, child, unit, link>>
DaemonEnds ==
    /\ \/ proc \in {"accepting", "serving"} /\ ~ frontend
       \/ proc = "serving" /\ link = "closed"
    /\ proc' = "gone"
    /\ UNCHANGED <<method, frontend, spawn, child, unit, link>>

BootedDies ==
    /\ Alive
    /\ proc' = "gone"
    /\ UNCHANGED <<method, frontend, spawn, child, unit, link>>

-----------------------------------------------------------------------------
(* ElevatedDaemon::spawn *)
ConnectRpcSocket ==
    /\ spawn.pc = "connect"
    /\ \/ /\ proc \in {"listening", "accepting"}
          /\ Goto("authenticate") /\ link' = "connected"
       \/ /\ proc = "bound"              \* permission denied is not retried
          /\ Goto("grace") /\ UNCHANGED link
       \/ /\ proc \notin {"listening", "accepting"}
          /\ ~ ChildAlive                \* try_wait
          /\ Goto("grace") /\ UNCHANGED link

Authenticate ==
    /\ spawn.pc = "authenticate"
    /\ \/ Alive /\ link = "connected" /\ Goto("ping") /\ link' = "sent"
       \/ (~ Alive \/ link = "closed") /\ Goto("grace") /\ link' = "closed"

\* The health check; when it fails the connection is closed and the daemon is
\* given time to leave.
Ping ==
    /\ spawn.pc = "ping"
    /\ \/ proc = "serving" /\ link = "open" /\ Goto("ready") /\ UNCHANGED link
       \/ Goto("grace") /\ link' = "closed"

\* finish_with_grace: abort allows no time at all, finish some.
Grace ==
    /\ spawn.pc = "grace"
    /\ \/ child = "succeeded" /\ spawn' = [spawn EXCEPT !.pc = "done", !.result = "clean"]
       \/ child # "succeeded" /\ Goto("kill")
    /\ UNCHANGED <<child, unit, proc, link>>

\* terminate: the launcher first, then its service.  The kill of a launcher that
\* has already been waited for is an error, and so is that of sudo, which is root's.
\* A killed run0 takes its pending authorization with it.
KillChild ==
    /\ spawn.pc = "kill"
    /\ \E killed \in BOOLEAN :
          /\ killed => method = "Run0"
          /\ method = "Run0" /\ ChildAlive => killed
          /\ spawn' = [spawn EXCEPT !.pc = "stop", !.killed = killed]
    /\ child' = IF method = "Run0" /\ ChildAlive THEN "killed" ELSE child
    /\ link' = "closed"
    /\ UNCHANGED <<unit, proc>>

Reports(stopped) ==
    spawn' = [spawn EXCEPT !.pc = "done",
                           !.result = IF stopped /\ spawn.killed THEN "clean"
                                      ELSE "unconfirmed"]

\* stop_service: nothing to stop, stopped, or not confirmed.
StopService ==
    /\ spawn.pc = "stop"
    /\ \/ unit # "started" /\ Reports(TRUE) /\ UNCHANGED <<unit, proc>>
       \/ /\ unit = "started" /\ Reports(TRUE)
          /\ unit' = "collected" /\ proc' = "gone"
       \/ Reports(FALSE) /\ UNCHANGED <<unit, proc>>
    /\ UNCHANGED <<child, link>>

Terminate == KillChild \/ StopService

\* The future is dropped: Drop for DaemonLauncher kills, waits for the launcher
\* and stops the service; later, the connection's task does what it does after a
\* failed health check.
Cancel ==
    /\ \/ /\ spawn.pc \in {"connect", "authenticate"}
          /\ Goto("dropped")
          /\ child' = IF method = "Run0" /\ ChildAlive THEN "killed" ELSE child
       \/ spawn.pc = "ping" /\ Goto("grace") /\ UNCHANGED child
    /\ link' = "closed"
    /\ UNCHANGED <<unit, proc>>
DroppedChildEnds ==
    /\ spawn.pc = "dropped" /\ ~ ChildAlive
    /\ spawn' = [spawn EXCEPT !.pc = "stop", !.killed = TRUE]
    /\ UNCHANGED <<child, unit, proc, link>>

SpawnStep ==
    /\ frontend
    /\ \/ (ConnectRpcSocket \/ Authenticate \/ Ping) /\ UNCHANGED <<child, unit, proc>>
       \/ Grace \/ Terminate \/ Cancel \/ DroppedChildEnds
    /\ UNCHANGED <<method, frontend>>

\* The TUI's process ends: after a failure, in the middle, or when it is done.
FrontendEnds ==
    /\ frontend
    /\ frontend' = FALSE
    /\ link' = "closed"
    /\ UNCHANGED <<method, spawn, child, unit, proc>>

-----------------------------------------------------------------------------
LaunchInit ==
    /\ method \in Methods
    /\ frontend = TRUE /\ link = "none"
    /\ spawn = [pc |-> "connect", killed |-> FALSE, result |-> "none"]
    /\ child = "prompt" /\ unit = "absent" /\ proc = "none"

DaemonSide == DaemonBoots \/ AcceptRpc \/ DaemonEnds

LaunchNext ==
    \/ Authorize \/ ChildEnds \/ UnitEnds
    \/ DaemonSide \/ BootedDies
    \/ SpawnStep \/ FrontendEnds

\* The daemon's tasks are scheduled.
LaunchFairness == WF_launchVars(DaemonSide)
LaunchSpec == LaunchInit /\ [][LaunchNext]_launchVars /\ LaunchFairness

-----------------------------------------------------------------------------

\* A daemon whose TUI is gone ends, wherever its start-up was, also when the
\* launcher could not be killed and authorizes it afterwards (monitor_parent).
\* And a cleanup that reports success leaves no daemon behind, and none that the
\* launcher could still bring up: killing run0 does not end its service, and
\* stopping the service does not end a launcher that is still asking
\* (terminate, stop_service, Drop for DaemonLauncher).
NoOrphan ==
    /\ (~ frontend /\ Alive) ~> proc = "gone"
    /\ [](spawn.result = "clean" => ~ Alive /\ child # "prompt")
==============================================================================
