------------------------------ MODULE MCDaemon ------------------------------
(* The daemon's sessions, for TLC.  Either the registry moves on its own,    *)
(* with two children that were given one id and two closes of it; or the     *)
(* whole daemon moves, with one session, one close and one deployment, from  *)
(* its first request to its exit.                                            *)
EXTENDS DaemonShutdown
CONSTANTS i1, p2, c2
VARIABLE part    \* "registry" or "daemon"

MCIdOf == [p \in Processes |-> i1]

MCInit == part \in {"registry", "daemon"} /\ Init

\* A bound: the daemon is not asked for the second child and the second close.
OneSession == p2 \notin leases' /\ request'[c2] = request[c2]

MCNext ==
    /\ UNCHANGED part
    /\ \/ part = "registry" /\ SessionNext
          /\ UNCHANGED <<main, gateVars, request, queue, job, cancelled>>
       \/ part = "daemon" /\ Next /\ OneSession

\* SessionFairness and Fairness, each where that part moves.
RegistryFairness ==
    /\ \A p \in Processes :
          /\ WF_sessionVars(part = "registry" /\ Open(p))
          /\ WF_sessionVars(part = "registry" /\ Reaper(p))
          /\ WF_sessionVars(part = "registry" /\ p \in killed /\ Exit(p))
    /\ \A c \in Closers : WF_sessionVars(part = "registry" /\ Close(c))

DaemonFairness ==
    LET Session(A) == part = "daemon" /\ Running /\ A
                      /\ UNCHANGED <<main, gateVars, request, queue, job, cancelled>>
    IN  /\ WF_vars(part = "daemon" /\ Main)
        /\ WF_vars(part = "daemon" /\ BeginNotify)
        /\ \A c \in Closers : /\ WF_vars(part = "daemon" /\ Handle(c))
                              /\ WF_vars(part = "daemon" /\ Handled(c))
                              /\ WF_vars(Session(Close(c)))
        /\ \A p \in Processes : /\ WF_vars(part = "daemon" /\ Opened(p))
                                /\ WF_vars(Session(Open(p)))
        /\ \A j \in Jobs : WF_vars(part = "daemon" /\ JobSubmitted(j))

MCSpec == MCInit /\ [][MCNext]_<<vars, part>> /\ RegistryFairness /\ DaemonFairness

\* While the daemon serves, a session that is closed ends: the process that
\* was registered when the close came is gone, or is no longer the session
\* (SessionRegistry.CloseEndsSession).
ServedCloseEnds == part = "registry" => CloseEndsSession
=============================================================================
