---------------------------- MODULE ChildProcess ----------------------------
(***************************************************************************)
(* The commands the program runs on the host and how it stops them: a      *)
(* bounded command with a deadline, a streamed deployment command, the     *)
(* extraction of an archive, a download, and an OCI transfer that importd  *)
(* runs on its behalf.  A command is a process group: a leader, and maybe  *)
(* a helper that keeps the pipes open after the leader is gone.  Either    *)
(* may take its time to die, or be stuck where no signal reaches it.       *)
(***************************************************************************)
EXTENDS Integers

VARIABLES
    command,        \* how the command is run, or "none"
    phase,          \* where the code that runs it is
    leader,         \* "none", "running", "success" or "failure"
    helper,         \* a descendant with the pipes open: "none", "running"
    stubborn,       \* the processes SIGTERM does not end
    stuck,          \* the processes no signal ends
    signals,        \* what the group has been sent
    asked,          \* cancellation was requested
    why,            \* why the command is being stopped
    report          \* what the caller was told
childVars == <<command, phase, leader, helper, stubborn, stuck, signals, asked, why,
               report>>

Streamed == {"stream", "oci"}
Cancellable == Streamed \cup {"extract", "decompress", "download"}
Commands == Cancellable \cup {"bounded"}

ChildInit ==
    /\ command = "none" /\ phase = "idle" /\ leader = "none" /\ helper = "none"
    /\ stubborn = {} /\ stuck = {} /\ signals = {}
    /\ asked = FALSE /\ why = "none" /\ report = "none"

Exited == leader \in {"success", "failure"}
PipesClosed == Exited /\ helper # "running"

Told(r) == phase' = "idle" /\ report' = r
Environment == <<leader, helper, stubborn, stuck, asked>>

-----------------------------------------------------------------------------
(* Running to completion.                                                  *)

\* spawn, in a process group of its own.  importd has no helper and no group.
Spawn(k) ==
    /\ phase = "idle" /\ (command = "none" \/ ~(leader = "running" \/ helper = "running"))
    /\ command' = k /\ leader' = "running" /\ signals' = {} /\ asked' = FALSE
    /\ why' = "none" /\ report' = "none"
    /\ phase' = IF k \in {"bounded", "extract", "decompress"} THEN "join" ELSE "read"
    /\ helper' \in IF k = "oci" THEN {"none"} ELSE {"none", "running"}
    /\ stubborn' \in SUBSET {"leader", "helper"}
    /\ stuck' \in SUBSET (stubborn' \cap {"leader"})

ByStatus == IF leader = "success" THEN "ok" ELSE "failed"

\* The status and both streams were joined in one future.
JoinEnds ==
    /\ phase = "join" /\ PipesClosed /\ Told(ByStatus)
    /\ UNCHANGED <<command, signals, why, Environment>>

\* The output was read to its end; a request that came by then is honoured.
StreamEnds ==
    /\ phase = "read" /\ helper # "running" /\ (command = "oci" => Exited)
    /\ phase' = IF asked THEN "stop" ELSE "wait"
    /\ why' = IF asked THEN "cancel" ELSE why
    /\ UNCHANGED <<command, signals, report, Environment>>
\* A request that came first is reported first, except by a download.
OutputFails ==
    /\ phase = "read" /\ phase' = "stop"
    /\ why' = IF asked /\ command # "download" THEN "cancel" ELSE "broken"
    /\ UNCHANGED <<command, signals, report, Environment>>

\* Only the status is missing: wait of a spawned process, or child.wait.
WaitEnds ==
    /\ phase = "wait" /\ Exited /\ Told(ByStatus)
    /\ UNCHANGED <<command, signals, why, Environment>>

-----------------------------------------------------------------------------
(* Stopping.                                                               *)

\* The deadline of a bounded command, or a cancellation seen while waiting;
\* the last wait for a streamed command no longer looks for one.
Deadline ==
    /\ command = "bounded" /\ phase = "join" /\ phase' = "stop" /\ why' = "deadline"
    /\ UNCHANGED <<command, signals, report, Environment>>
SeesCancellation ==
    /\ asked /\ command \in Cancellable
    /\ phase \in {"join", "read"} \/ (phase = "wait" /\ command = "download")
    /\ ~(command = "extract" /\ PipesClosed)
    /\ phase' = "stop" /\ why' = "cancel"
    /\ UNCHANGED <<command, signals, report, Environment>>

\* SIGTERM to the group, then SIGKILL once the grace is over.  Cancelling an
\* OCI transfer asks importd, whichever signal it stands for.
Terminate ==
    /\ phase = "stop" /\ phase' = "term" /\ signals' = signals \cup {"TERM"}
    /\ UNCHANGED <<command, why, report, Environment>>
Escalate ==
    /\ phase = "term" /\ phase' = "kill" /\ signals' = signals \cup {"KILL"}
    /\ UNCHANGED <<command, why, report, Environment>>

\* A signal that could not be sent proves nothing: one last wait remains.
TerminateFails ==
    /\ phase = "stop" /\ command = "stream" /\ phase' = "kill"
    /\ UNCHANGED <<command, signals, why, report, Environment>>

\* terminate_and_wait drains the output before it waits for the status;
\* terminate_child_process_group waits for the leader alone.
Stopped == IF command \in Streamed THEN PipesClosed ELSE Exited

\* completion_wins_cancellation: a transfer that was done stays done.
AfterStop_CancelWins == [deadline |-> "timed out", broken |-> "broken", cancel |-> "cancelled"][why]
AfterStop ==
    IF why = "cancel" /\ command = "oci" /\ leader = "success" THEN "ok"
    ELSE [deadline |-> "timed out", broken |-> "broken", cancel |-> "cancelled"][why]

StopConfirmed ==
    /\ phase \in {"term", "kill"} /\ Stopped /\ Told(AfterStop)
    /\ UNCHANGED <<command, signals, why, Environment>>

\* Not even SIGKILL was confirmed in time: the state of the process is
\* unknown, and that is what the caller is told.
StopUnconfirmed_WaitsOn ==
    /\ phase = "kill" /\ Exited /\ Told("unknown")
    /\ UNCHANGED <<command, signals, why, Environment>>
StopUnconfirmed ==
    /\ phase = "kill" /\ Told("unknown")
    /\ UNCHANGED <<command, signals, why, Environment>>

\* The result of a transfer is lost with the bus, or its task.
TransferLost ==
    /\ command = "oci" /\ phase \in {"read", "wait", "term", "kill"} /\ Told("unknown")
    /\ UNCHANGED <<command, signals, why, Environment>>

-----------------------------------------------------------------------------
(* The processes, and the user.                                            *)

\* A leader ends by itself, or because of a signal; a success may still
\* arrive after SIGTERM.  importd ends a cancelled transfer like that, too.
LeaderEnds ==
    /\ leader = "running" /\ "leader" \notin stuck
    /\ leader' \in IF "KILL" \in signals /\ command # "oci"
                   THEN {"failure"} ELSE {"success", "failure"}
    /\ UNCHANGED <<command, phase, helper, stubborn, stuck, signals, asked, why, report>>

HelperEnds ==
    /\ helper = "running" /\ helper' = "none"
    /\ UNCHANGED <<command, phase, leader, stubborn, stuck, signals, asked, why, report>>

RequestCancel ==
    /\ phase # "idle" /\ command \in Cancellable /\ ~asked /\ asked' = TRUE
    /\ UNCHANGED <<command, phase, leader, helper, stubborn, stuck, signals, why, report>>

ChildNext ==
    \/ \E k \in Commands : Spawn(k)
    \/ JoinEnds \/ StreamEnds \/ OutputFails \/ WaitEnds \/ Deadline \/ SeesCancellation
    \/ Terminate \/ TerminateFails \/ Escalate \/ StopConfirmed \/ StopUnconfirmed
    \/ TransferLost
    \/ LeaderEnds \/ HelperEnds \/ RequestCancel

\* The steps of the program itself: timers fire and futures are polled.
ChildProgram ==
    \/ JoinEnds \/ StreamEnds \/ WaitEnds \/ Deadline \/ SeesCancellation
    \/ Terminate \/ Escalate \/ StopConfirmed \/ StopUnconfirmed

\* What the kernel guarantees: a signal that is not caught ends its process,
\* unless that process is stuck.
SignalWorks(p) == ("TERM" \in signals /\ p \notin stubborn) \/ "KILL" \in signals
LeaderKilled == SignalWorks("leader") /\ LeaderEnds

ChildFairness == WF_childVars(ChildProgram) /\ WF_childVars(LeaderKilled)
ChildSpec == ChildInit /\ [][ChildNext]_childVars /\ ChildFairness

-----------------------------------------------------------------------------
(* What a caller is told about a command is true of its process: every     *)
(* report but "unknown" means that the leader has ended, so that it no     *)
(* longer writes to what a rollback will remove (a helper may: only the    *)
(* commands whose pipes are drained wait for it), and a transfer reported  *)
(* as cancelled did not complete.                                          *)
ReportIsTrue ==
    /\ report = "ok" => leader = "success"
    /\ report = "failed" => leader = "failure"
    /\ report \in {"cancelled", "broken", "timed out"} => Exited
    /\ report = "cancelled" /\ command = "oci" => leader = "failure"

(* A command with a deadline, and one whose cancellation was requested,    *)
(* returns to its caller: not even a stuck process, or a helper that holds *)
(* the pipes, can keep it.  (The last wait for a streamed command is over  *)
(* only when its leader ends.)                                             *)
CommandReturns ==
    phase # "idle" /\ (command = "bounded" \/ (asked /\ phase # "wait"))
        ~> (phase = "idle" \/ phase = "wait")
=============================================================================
