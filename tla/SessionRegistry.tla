--------------------------- MODULE SessionRegistry ---------------------------
(***************************************************************************)
(* The daemon's session children: journalctl and terminal processes from the *)
(* moment they are spawned for a client until they are reaped                *)
(* (daemon/sessions/registry.rs, process.rs).  The registry finds a session   *)
(* by the id its client chose; a close asks the process to end and kills it   *)
(* after a delay; one reaper per process gives the entry up.  The registry    *)
(* is unlocked between any two of the steps below.                            *)
(***************************************************************************)
EXTENDS Naturals, FiniteSets

CONSTANTS
    Ids,         \* session ids
    Processes,   \* children, each spawned by one open request
    IdOf,        \* the id the request came with
    Nobody,      \* no process
    Closers      \* CloseSession requests

ASSUME RequestIds == IdOf \in [Processes -> Ids] /\ Nobody \notin Processes

VARIABLES
    sessions,   \* id -> the process registered under it
    kernel,     \* "none", "alive", "zombie" or "reaped"
    opener,     \* position of deliver, from the spawned child to the handoff
    reaper,     \* the task that owns the child afterwards
    completed,  \* processes whose completion flag is set
    killed,     \* processes whose group was sent SIGKILL
    closer      \* [at, process]: position of close_and_escalate

sessionVars == <<sessions, kernel, opener, reaper, completed, killed, closer>>

Idle == [at |-> "idle", process |-> Nobody]
Entry(p) == sessions[IdOf[p]]
SetEntry(id, p) == sessions' = [sessions EXCEPT ![id] = p]
Move(c, at) == closer' = [closer EXCEPT ![c].at = at]

-----------------------------------------------------------------------------
\* Opening a session.

Spawn(p) ==
    /\ kernel[p] = "none"
    /\ kernel' = [kernel EXCEPT ![p] = "alive"]
    /\ opener' = [opener EXCEPT ![p] = "check"]
    /\ UNCHANGED <<sessions, reaper, completed, killed, closer>>

\* The child could not be registered: it is killed and reaped without a status.
GiveUp(p) ==
    /\ killed' = killed \cup {p}
    /\ opener' = [opener EXCEPT ![p] = "failed"]
    /\ reaper' = [reaper EXCEPT ![p] = "discarding"]
    /\ UNCHANGED <<sessions, kernel, completed, closer>>

\* register: look, capture the pidfd with the registry unlocked, look again.
RegisterCheck(p) ==
    /\ opener[p] = "check"
    /\ \/ Entry(p) # Nobody /\ GiveUp(p)
       \/ /\ Entry(p) = Nobody
          /\ opener' = [opener EXCEPT ![p] = "capture"]
          /\ UNCHANGED <<sessions, kernel, reaper, completed, killed, closer>>

RegisterInsert(p) ==
    /\ opener[p] = "capture"
    /\ \/ GiveUp(p)
       \/ /\ Entry(p) = Nobody
          /\ SetEntry(IdOf[p], p)
          /\ opener' = [opener EXCEPT ![p] = "send"]
          /\ UNCHANGED <<kernel, reaper, completed, killed, closer>>

\* The descriptors reach the client, or the child is killed; either way the
\* reaper takes the child over.
Deliver(p) ==
    /\ opener[p] = "send"
    /\ \/ opener' = [opener EXCEPT ![p] = "delivered"] /\ UNCHANGED killed
       \/ opener' = [opener EXCEPT ![p] = "failed"] /\ killed' = killed \cup {p}
    /\ reaper' = [reaper EXCEPT ![p] = "waiting"]
    /\ UNCHANGED <<sessions, kernel, completed, closer>>

-----------------------------------------------------------------------------
\* The end of a session.

\* The child exits by itself, after SIGTERM or after SIGKILL.
Exit(p) ==
    /\ kernel[p] = "alive"
    /\ kernel' = [kernel EXCEPT ![p] = "zombie"]
    /\ UNCHANGED <<sessions, opener, reaper, completed, killed, closer>>

\* The pidfd can no longer be watched: the child is killed and polled for.
MonitorFails(p) ==
    /\ reaper[p] = "waiting" /\ kernel[p] # "reaped"
    /\ killed' = killed \cup {p}
    /\ UNCHANGED <<sessions, kernel, opener, reaper, completed, closer>>

Reap(p) ==
    /\ kernel[p] = "zombie"
    /\ reaper[p] \in {"discarding", "waiting"}
    /\ kernel' = [kernel EXCEPT ![p] = "reaped"]
    /\ reaper' = [reaper EXCEPT ![p] = IF @ = "waiting" THEN "finish" ELSE "done"]
    /\ UNCHANGED <<sessions, opener, completed, killed, closer>>

\* finish: the entry goes if it is still this process's.
Finish(p) ==
    /\ reaper[p] = "finish"
    /\ IF Entry(p) = p
       THEN SetEntry(IdOf[p], Nobody) /\ completed' = completed \cup {p}
       ELSE UNCHANGED <<sessions, completed>>
    /\ reaper' = [reaper EXCEPT ![p] = "status"]
    /\ UNCHANGED <<kernel, opener, killed, closer>>

\* lifecycle::write: the client learns that the session has ended.
WriteStatus(p) ==
    /\ reaper[p] = "status"
    /\ reaper' = [reaper EXCEPT ![p] = "done"]
    /\ UNCHANGED <<sessions, kernel, opener, completed, killed, closer>>

-----------------------------------------------------------------------------
\* close_and_escalate.

CloseSession(c, id) ==
    /\ closer[c] = Idle
    /\ sessions[id] # Nobody
    /\ closer' = [closer EXCEPT ![c] = [at |-> "validate", process |-> sessions[id]]]
    /\ UNCHANGED <<sessions, kernel, opener, reaper, completed, killed>>

\* Mutant: the entry is removed whoever has it now.
RemoveIfProcess_ById(p) == SetEntry(IdOf[p], Nobody)

RemoveIfProcess(p) ==
    IF Entry(p) = p THEN SetEntry(IdOf[p], Nobody) ELSE UNCHANGED sessions

\* revalidate_process, before SIGTERM and again before SIGKILL: a leader that
\* has exited is not signalled and loses its entry.
Revalidate(c) ==
    /\ closer[c].at \in {"validate", "revalidate"}
    /\ IF kernel[closer[c].process] = "alive"
       THEN /\ Move(c, IF closer[c].at = "validate" THEN "terminate" ELSE "kill")
            /\ UNCHANGED sessions
       ELSE /\ RemoveIfProcess(closer[c].process)
            /\ closer' = [closer EXCEPT ![c] = Idle]
    /\ UNCHANGED <<kernel, opener, reaper, completed, killed>>

\* SIGTERM, which a process may ignore; the escalation sleeps in its own task.
Terminate(c) ==
    /\ closer[c].at = "terminate"
    /\ Move(c, "sleep")
    /\ UNCHANGED <<sessions, kernel, opener, reaper, completed, killed>>

\* Mutant: only a process that has completed is escalated.
Wake_Inverted(c) ==
    /\ closer[c].at = "sleep"
    /\ IF Entry(closer[c].process) = closer[c].process
          /\ closer[c].process \in completed
       THEN Move(c, "revalidate")
       ELSE closer' = [closer EXCEPT ![c] = Idle]
    /\ UNCHANGED <<sessions, kernel, opener, reaper, completed, killed>>

\* After the delay: is it still owned, and not completed?
Wake(c) ==
    /\ closer[c].at = "sleep"
    /\ IF Entry(closer[c].process) = closer[c].process
          /\ closer[c].process \notin completed
       THEN Move(c, "revalidate")
       ELSE closer' = [closer EXCEPT ![c] = Idle]
    /\ UNCHANGED <<sessions, kernel, opener, reaper, completed, killed>>

\* The group may be gone by now, which is not an error.
Kill(c) ==
    /\ closer[c].at = "kill"
    /\ killed' = IF kernel[closer[c].process] = "reaped" THEN killed
                 ELSE killed \cup {closer[c].process}
    /\ closer' = [closer EXCEPT ![c] = Idle]
    /\ UNCHANGED <<sessions, kernel, opener, reaper, completed>>

SessionInit ==
    /\ sessions = [id \in Ids |-> Nobody]
    /\ kernel = [p \in Processes |-> "none"]
    /\ opener = [p \in Processes |-> "none"]
    /\ reaper = [p \in Processes |-> "none"]
    /\ completed = {}
    /\ killed = {}
    /\ closer = [c \in Closers |-> Idle]

Open(p) == RegisterCheck(p) \/ RegisterInsert(p) \/ Deliver(p)
Reaper(p) == Reap(p) \/ Finish(p) \/ WriteStatus(p)
Close(c) == Revalidate(c) \/ Terminate(c) \/ Wake(c) \/ Kill(c)

SessionNext ==
    \/ \E p \in Processes : Spawn(p) \/ Open(p) \/ Exit(p) \/ Reaper(p) \/ MonitorFails(p)
    \/ \E c \in Closers : Close(c) \/ \E id \in Ids : CloseSession(c, id)

\* Tasks are scheduled, timers fire, and a killed process exits; a process
\* that was only asked to end need not.
SessionFairness ==
    /\ \A p \in Processes :
          /\ WF_sessionVars(Open(p))
          /\ WF_sessionVars(Reaper(p))
          /\ WF_sessionVars(p \in killed /\ Exit(p))
    /\ \A c \in Closers : WF_sessionVars(Close(c))

SessionSpec == SessionInit /\ [][SessionNext]_sessionVars /\ SessionFairness

-----------------------------------------------------------------------------
\* Every variable has its type; a closer that is at work has a process.
SessionTypeOK ==
    /\ sessions \in [Ids -> Processes \cup {Nobody}]
    /\ kernel \in [Processes -> {"none", "alive", "zombie", "reaped"}]
    /\ opener \in [Processes -> {"none", "check", "capture", "send", "delivered", "failed"}]
    /\ reaper \in [Processes -> {"none", "discarding", "waiting", "finish", "status", "done"}]
    /\ completed \subseteq Processes /\ killed \subseteq Processes
    /\ \A c \in Closers :
          \/ closer[c] = Idle
          \/ /\ closer[c].process \in Processes
             /\ closer[c].at \in {"validate", "terminate", "sleep", "revalidate", "kill"}

\* A running session that was handed to a client, or is about to be, can be
\* found under its id, so a close and the daemon's shutdown reach it: no late
\* reaper and no late close of an earlier session with that id removes the
\* entry (same_process in finish and remove_if_process).  And when the client
\* learns that a session has ended, its id is free again for everybody but a
\* newer session: the entry is given up before the status.
RunningIsRegistered ==
    \A p \in Processes :
        /\ kernel[p] = "alive" /\ opener[p] \in {"send", "delivered"} => Entry(p) = p
        /\ reaper[p] = "done" => Entry(p) # p

\* A session that was asked to end is gone some time later even if it ignores
\* the request: the escalation is not lost between the delay and the kill.
CloseEndsSession ==
    \A c \in Closers, p \in Processes :
        closer[c].at = "sleep" /\ closer[c].process = p ~> kernel[p] = "reaped"
==============================================================================
