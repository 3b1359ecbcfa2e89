--------------------------- MODULE TerminalSession ---------------------------
(***************************************************************************)
(* One open terminal session, end to end.                                  *)
(*                                                                         *)
(* application/sessions/contract.rs joins two ends by bounded channels: a  *)
(* queue of commands, a queue of output chunks, a lifecycle and a close    *)
(* signal.  The far end (adapters/session/pty.rs, elevated.rs) owns a PTY: *)
(*   "login", "shell"  one task owns the master that machined handed over; *)
(*   "direct"          a reader thread, a writer thread and a task that    *)
(*                     owns the child process;                             *)
(*   "remote"          the same two threads on a descriptor the elevated   *)
(*                     daemon sent, and a task that talks to the daemon.   *)
(* The near end is one of                                                  *)
(*   "inherited"  `lasper shell` on the caller's terminal,                 *)
(*   "launcher"   `lasper launch`, which only copies output,               *)
(*   "panel"      a tab of the terminal panel and its output parser,       *)
(*   "bridge"     the embedded shell prompt's bridge.                      *)
(* Chunks carry no bytes here: what matters is who waits for whom.         *)
(***************************************************************************)
EXTENDS Naturals, Sequences, FiniteSets, Functions

CONSTANTS
    Links,      \* the pairs <<near end, far end>> to consider
    CmdCap,     \* TERMINAL_COMMAND_CAPACITY
    OutCap,     \* TERMINAL_OUTPUT_CAPACITY
    PtyCap,     \* chunks the kernel buffers in each direction of the PTY
    MaxFaults   \* failing system calls on the PTY in one behaviour

ASSUME CapAssumption == CmdCap \in Nat \ {0} /\ OutCap \in Nat \ {0} /\ PtyCap \in Nat \ {0}

ShellWorkers_Three == 3
ShellWorkers == 4

VARIABLES
    link,       \* <<near end, far end>> of this session
    near,       \* the near end's position, "gone" once its handle is dropped
    how,        \* why the near end returned
    leave,      \* the user asked to end the session
    jobs,       \* the near end's blocking reads and writes of its terminal
    cmds,       \* queued commands: "bytes" or "resize"
    out,        \* queued output chunks
    close,      \* the close signal was sent
    life,       \* the lifecycle the near end can read
    owner,      \* the task that owns the far end
    reader,     \* the reader thread ("ended" drops the output queue's sender)
    writer,     \* the writer thread ("ended" drops the command queue's receiver)
    pend,       \* input taken from the queue, not written yet
    held,       \* a chunk read from the PTY, not queued yet
    pty,        \* [i, o: chunks buffered, slave: the guest side is open]
    guest,      \* the child or the login service: "runs", "exited", "removed"
    faults      \* the failing system calls so far

nearVars == <<near, how, leave, jobs>>
farVars  == <<owner, reader, writer, pend, held>>
terminalVars == <<link, nearVars, cmds, out, close, life, farVars, pty, guest, faults>>

Near == link[1]
Far  == link[2]
Machine == Far \in {"login", "shell"}
Running == life = "running"

\* tokio drops the two queues' far ends with their owners.
OutputEnded  == out = 0 /\ reader = "ended"
CommandsOpen == writer # "ended"
Receiving    == near # "gone"

-----------------------------------------------------------------------------
(* The far end: one task that owns a machine PTY (spawn_machine_terminal). *)

\* The loop breaks: the master, both queues and the close receiver drop.
OwnerBreaks(state) ==
    /\ owner' = "ended" /\ reader' = "ended" /\ writer' = "ended"
    /\ pend' = FALSE /\ held' = FALSE /\ cmds' = << >>
    /\ life' = state
    /\ pty' = [pty EXCEPT !.slave = FALSE, !.i = 0, !.o = 0]
    /\ UNCHANGED <<link, nearVars, out, close, guest>>

\* close, machine removal and a dropped output receiver are watched both in
\* the outer select and while a chunk waits for room in the output queue.
MachineCloses ==
    /\ Machine /\ owner = "select"
    /\ close \/ ~Receiving
    /\ OwnerBreaks("closed") /\ UNCHANGED faults

MachineRemoved ==
    /\ Far = "login" /\ owner = "select" /\ guest = "removed"
    /\ OwnerBreaks("exited") /\ UNCHANGED faults

\* A command is taken only while no input is pending; a resize is done at once.
MachineCommand ==
    /\ Machine /\ owner = "select" /\ ~pend /\ ~held /\ cmds # << >>
    /\ cmds' = Tail(cmds)
    /\ pend' = (Head(cmds) = "bytes")
    /\ UNCHANGED <<link, nearVars, out, close, life, owner, reader, writer, held, pty, guest, faults>>

MachineReads ==
    /\ Machine /\ owner = "select" /\ ~held /\ pty.o > 0
    /\ pty' = [pty EXCEPT !.o = @ - 1]
    /\ held' = TRUE
    /\ UNCHANGED <<link, nearVars, cmds, out, close, life, owner, reader, writer, pend, guest, faults>>

\* While the chunk waits for room nothing else of the loop runs.
MachineDelivers ==
    /\ Machine /\ owner = "select" /\ held /\ Receiving /\ out < OutCap
    /\ out' = out + 1
    /\ held' = FALSE
    /\ UNCHANGED <<link, nearVars, cmds, close, life, owner, reader, writer, pend, pty, guest, faults>>

\* A shell ends with the hangup; a login PTY is read again after 25 ms.
MachineHangup ==
    /\ Far = "shell" /\ owner = "select" /\ ~held /\ pty.o = 0 /\ ~pty.slave
    /\ OwnerBreaks("exited") /\ UNCHANGED faults

\* A read or a write fails with something else than EIO.
MachineFails ==
    /\ Machine /\ owner = "select" /\ ~held
    /\ faults < MaxFaults /\ faults' = faults + 1
    /\ OwnerBreaks("failed")

MachineWrites ==
    /\ Machine /\ owner = "select" /\ ~held /\ pend /\ pty.slave /\ pty.i < PtyCap
    /\ pty' = [pty EXCEPT !.i = @ + 1]
    /\ pend' = FALSE
    /\ UNCHANGED <<link, nearVars, cmds, out, close, life, owner, reader, writer, held, guest, faults>>

-----------------------------------------------------------------------------
(* The far end: threads on a child's or a daemon's PTY.                    *)

ReaderReads ==
    /\ ~Machine /\ reader = "runs" /\ ~held /\ pty.o > 0
    /\ pty' = [pty EXCEPT !.o = @ - 1]
    /\ held' = TRUE
    /\ UNCHANGED <<link, nearVars, cmds, out, close, life, owner, reader, writer, pend, guest, faults>>

ReaderDelivers ==
    /\ ~Machine /\ reader = "runs" /\ held
    /\ \/ Receiving /\ out < OutCap /\ out' = out + 1 /\ UNCHANGED reader
       \/ ~Receiving /\ reader' = "ended" /\ UNCHANGED out
    /\ held' = FALSE
    /\ UNCHANGED <<link, nearVars, cmds, close, life, owner, writer, pend, pty, guest, faults>>

\* End of file or EIO ends the thread; another error fails the session too.
ReaderEnds ==
    /\ ~Machine /\ reader = "runs" /\ ~held
    /\ \/ pty.o = 0 /\ ~pty.slave /\ UNCHANGED <<life, faults>>
       \/ /\ faults < MaxFaults /\ faults' = faults + 1
          /\ life' = IF Running THEN "failed" ELSE life
    /\ reader' = "ended"
    /\ UNCHANGED <<link, nearVars, cmds, out, close, owner, writer, pend, held, pty, guest>>

WriterTakes ==
    /\ ~Machine /\ writer = "runs" /\ ~pend /\ cmds # << >>
    /\ cmds' = Tail(cmds)
    /\ pend' = (Head(cmds) = "bytes")
    /\ UNCHANGED <<link, nearVars, out, close, life, owner, reader, writer, held, pty, guest, faults>>

\* write_all blocks for room and fails once the guest side is closed.
WriterWrites ==
    /\ ~Machine /\ writer = "runs" /\ pend
    /\ \/ pty.slave /\ pty.i < PtyCap /\ pty' = [pty EXCEPT !.i = @ + 1] /\ UNCHANGED <<writer, cmds>>
       \/ ~pty.slave /\ writer' = "ended" /\ cmds' = << >> /\ UNCHANGED pty
    /\ pend' = FALSE
    /\ UNCHANGED <<link, nearVars, out, close, life, owner, reader, held, guest, faults>>

WriterEnds ==
    /\ ~Machine /\ writer = "runs" /\ ~pend /\ cmds = << >> /\ ~Receiving
    /\ writer' = "ended"
    /\ UNCHANGED <<link, nearVars, cmds, out, close, life, owner, reader, pend, held, pty, guest, faults>>

\* spawn_direct_owner: close signals the child and waits for it without a
\* limit.  A signal that fails is only logged, and a child may ignore it.
DirectCloses ==
    /\ Far = "direct"
    /\ \/ /\ close /\ owner = "select" /\ owner' \in {"killed", "unkilled"}
          /\ UNCHANGED life
       \/ /\ owner \in {"killed", "unkilled"} /\ guest = "exited"
          /\ owner' = "ended" /\ life' = "closed"
    /\ UNCHANGED <<link, nearVars, cmds, out, close, reader, writer, pend, held, pty, guest, faults>>

DirectExits ==
    /\ Far = "direct" /\ owner = "select" /\ guest = "exited"
    /\ owner' = "ended"
    /\ life' = IF Running THEN "exited" ELSE life
    /\ UNCHANGED <<link, nearVars, cmds, out, close, reader, writer, pend, held, pty, guest, faults>>

\* elevated.rs: the lifecycle is set first, the daemon is asked afterwards.
RemoteCloses ==
    /\ Far = "remote" /\ close
    /\ \/ /\ owner = "select" /\ owner' = "waiting"
          /\ life' = "closed" /\ UNCHANGED guest
       \/ /\ owner = "waiting" /\ owner' = "ended"
          /\ guest' \in {guest, "exited"} /\ UNCHANGED life
    /\ UNCHANGED <<link, nearVars, cmds, out, close, reader, writer, pend, held, pty, faults>>

\* The daemon's status pipe reports the exit, or closes without a report.
RemoteExits ==
    /\ Far = "remote" /\ owner = "select"
    /\ \E state \in {"exited", "failed"} :
         /\ state = "exited" => guest = "exited"
         /\ state = "failed" => faults < MaxFaults
         /\ faults' = IF state = "failed" THEN faults + 1 ELSE faults
         /\ life' = IF Running THEN state ELSE life
    /\ owner' = "ended"
    /\ UNCHANGED <<link, nearVars, cmds, out, close, reader, writer, pend, held, pty, guest>>

-----------------------------------------------------------------------------
(* The guest side of the PTY (external).                                   *)

GuestReads ==
    /\ pty.slave /\ pty.i > 0
    /\ pty' = [pty EXCEPT !.i = @ - 1]
    /\ UNCHANGED <<link, nearVars, cmds, out, close, life, farVars, guest, faults>>

GuestWrites ==
    /\ pty.slave /\ pty.o < PtyCap
    /\ pty' = [pty EXCEPT !.o = @ + 1]
    /\ UNCHANGED <<link, nearVars, cmds, out, close, life, farVars, guest, faults>>

\* The child exits; a descendant of it may keep the guest side open.
GuestExits ==
    /\ guest = "runs"
    /\ guest' = IF Far = "login" THEN "removed" ELSE "exited"
    /\ UNCHANGED <<link, nearVars, cmds, out, close, life, farVars, pty, faults>>

GuestKilled ==
    /\ owner = "killed" /\ guest = "runs"
    /\ guest' = "exited"
    /\ UNCHANGED <<link, nearVars, cmds, out, close, life, farVars, pty, faults>>

GuestHangsUp ==
    /\ guest # "runs" /\ pty.slave
    /\ pty' = [pty EXCEPT !.slave = FALSE]
    /\ UNCHANGED <<link, nearVars, cmds, out, close, life, farVars, guest, faults>>

-----------------------------------------------------------------------------
(* The near end.                                                           *)

NoJobs == [queue |-> << >>, busy |-> {}, typed |-> "none", flushing |-> FALSE]

\* Dropping the handle sends the close signal and drops the output receiver.
Return(reason) ==
    /\ near' = "gone" /\ how' = reason
    /\ close' = TRUE /\ out' = 0
    /\ jobs' = NoJobs
    /\ UNCHANGED <<link, leave, cmds, life, farVars, pty, guest, faults>>

\* tokio reads standard input and writes standard output on threads of the
\* runtime's blocking pool, which the far end's threads share; jobs without
\* a thread wait in a queue.
LongLived ==
    CASE Far = "direct" -> {t \in {"reader"} : reader # "ended"} \cup {t \in {"writer"} : writer # "ended"}
                             \cup {t \in {"wait"} : guest # "exited"}
      [] Far = "remote" -> {t \in {"reader"} : reader # "ended"} \cup {t \in {"writer"} : writer # "ended"}
      [] OTHER -> {}

StartJob ==
    /\ jobs.queue # << >>
    /\ Cardinality(LongLived) + Cardinality(jobs.busy) < ShellWorkers
    /\ jobs' = [jobs EXCEPT !.queue = Tail(@), !.busy = @ \cup {Head(jobs.queue)}]
    /\ UNCHANGED <<link, near, how, leave, cmds, out, close, life, farVars, pty, guest, faults>>

\* Polling the select (or the drain) issues a read that stays in flight.
IssueRead ==
    /\ Near = "inherited" /\ near \in {"select", "drain"} /\ ~jobs.flushing
    /\ jobs.typed = "none" /\ "stdin" \notin jobs.busy \cup Range(jobs.queue)
    /\ jobs' = [jobs EXCEPT !.queue = Append(@, "stdin")]
    /\ UNCHANGED <<link, near, how, leave, cmds, out, close, life, farVars, pty, guest, faults>>

ReadReturns ==
    /\ "stdin" \in jobs.busy
    /\ jobs' = [jobs EXCEPT !.busy = @ \ {"stdin"}, !.typed = IF leave THEN "detach" ELSE "in"]
    /\ UNCHANGED <<link, near, how, leave, cmds, out, close, life, farVars, pty, guest, faults>>

\* The user types the detach sequence or ends the input, or presses the
\* tab's close key.
UserLeaves ==
    /\ Near # "launcher" /\ Receiving /\ ~leave
    /\ leave' = TRUE
    /\ UNCHANGED <<link, near, how, jobs, cmds, out, close, life, farVars, pty, guest, faults>>

\* A completed detach sequence ends run_inherited_terminal, also while it
\* drains a finished session.  The bridge watches close in its select only;
\* close_active aborts the panel's parser wherever it is.
Leaves ==
    /\ leave
    /\ \/ Near = "inherited" /\ near \in {"select", "drain"} /\ ~jobs.flushing /\ jobs.typed = "detach"
       \/ Near = "bridge" /\ near = "select"
       \/ Near = "panel" /\ Receiving
    /\ Return("asked")

\* Input read from the caller's terminal or from the tab is sent with an
\* await; the panel's keys use try_input, which gives up on a full queue.
\* A draining session discards what is typed.
Input ==
    /\ ~jobs.flushing
    /\ \/ /\ Near = "inherited" /\ near \in {"select", "drain"} /\ jobs.typed = "in"
          /\ near' = IF near = "select" THEN "sending" ELSE near
          /\ jobs' = [jobs EXCEPT !.typed = "none"]
          /\ UNCHANGED cmds
       \/ /\ Near = "bridge" /\ near = "select" /\ Running
          /\ near' = "sending" /\ UNCHANGED <<cmds, jobs>>
       \/ /\ Near = "panel" /\ Receiving /\ Running /\ CommandsOpen /\ Len(cmds) < CmdCap
          /\ cmds' = Append(cmds, "bytes") /\ UNCHANGED <<near, jobs>>
    /\ UNCHANGED <<link, how, leave, out, close, life, farVars, pty, guest, faults>>

\* A chunk for the guest waits for room; the panel's parser waits with the
\* terminal's reply to a query.  A closed queue ends the wait.
Sends ==
    /\ near = "sending"
    /\ \/ /\ CommandsOpen /\ Len(cmds) < CmdCap
          /\ cmds' = Append(cmds, "bytes") /\ near' = "select"
       \/ /\ ~CommandsOpen
          /\ near' = CASE Near = "inherited" -> "refused" [] Near = "panel" -> "parked" [] OTHER -> "select"
          /\ UNCHANGED cmds
    /\ UNCHANGED <<link, how, leave, jobs, out, close, life, farVars, pty, guest, faults>>

\* A chunk is written out and flushed, forwarded to the tab, or parsed;
\* parsing may owe a reply.
Output ==
    /\ near \in {"select", "drain"} /\ ~jobs.flushing /\ out > 0
    /\ out' = out - 1
    /\ near' \in (IF Near = "panel" THEN {"select", "sending"} ELSE {near})
    /\ jobs' = IF Near \in {"inherited", "launcher"}
               THEN [jobs EXCEPT !.flushing = TRUE, !.queue = Append(@, "stdout")]
               ELSE jobs
    /\ UNCHANGED <<link, how, leave, cmds, close, life, farVars, pty, guest, faults>>

Flushed ==
    /\ "stdout" \in jobs.busy
    /\ jobs' = [jobs EXCEPT !.busy = @ \ {"stdout"}, !.flushing = FALSE]
    /\ UNCHANGED <<link, near, how, leave, cmds, out, close, life, farVars, pty, guest, faults>>

\* The output queue closed: wait for the lifecycle, or stop parsing.
OutputEnds ==
    /\ near = "select" /\ Near # "bridge" /\ ~jobs.flushing /\ OutputEnded
    /\ near' = IF Near = "panel" THEN "parked" ELSE "await"
    /\ UNCHANGED <<link, how, leave, jobs, cmds, out, close, life, farVars, pty, guest, faults>>

\* The lifecycle completed before the output did: drain what is left.
Completes_AtOnce ==
    /\ near = "select" /\ ~jobs.flushing /\ ~Running /\ Near \in {"inherited", "launcher"}
    /\ Return("drained")

Completes ==
    /\ near = "select" /\ ~jobs.flushing /\ ~Running /\ Near \in {"inherited", "launcher"}
    /\ near' = "drain"
    /\ UNCHANGED <<link, how, leave, jobs, cmds, out, close, life, farVars, pty, guest, faults>>

Drained ==
    /\ near = "drain" /\ ~jobs.flushing /\ OutputEnded
    /\ Return("drained")

DrainTimeout ==
    /\ near = "drain" /\ ~jobs.flushing
    /\ Return("timeout")

\* lifecycle.await after the output ended, or after input was refused (then
\* what is left of the output is not read); the bridge needs both.
Finished ==
    /\ ~Running
    /\ \/ near = "await" /\ Return("drained")
       \/ near = "refused" /\ Return("refused")
       \/ Near = "bridge" /\ near = "select" /\ OutputEnded /\ Return("drained")

\* The tab asks for its size when it is drawn, `lasper shell` when its terminal
\* changed, the bridge when it is told to; a full or closed queue drops it.
RequestResize ==
    /\ \/ Near = "panel" /\ Receiving
       \/ Near = "inherited" /\ near = "select" /\ ~jobs.flushing
       \/ Near = "bridge" /\ near = "select" /\ Running
    /\ CommandsOpen /\ Len(cmds) < CmdCap
    /\ cmds' = Append(cmds, "resize")
    /\ UNCHANGED <<link, nearVars, out, close, life, farVars, pty, guest, faults>>

-----------------------------------------------------------------------------
TerminalInit ==
    /\ link \in Links
    /\ near = "select" /\ how = "none" /\ leave = FALSE /\ jobs = NoJobs
    /\ cmds = << >> /\ out = 0 /\ close = FALSE /\ life = "running"
    /\ owner = "select" /\ reader = "runs" /\ writer = "runs" /\ pend = FALSE /\ held = FALSE
    /\ pty = [i |-> 0, o |-> 0, slave |-> TRUE] /\ guest = "runs" /\ faults = 0

MachineOwner == MachineCloses \/ MachineRemoved \/ MachineCommand \/ MachineReads \/ MachineDelivers
                  \/ MachineHangup \/ MachineFails \/ MachineWrites
ReaderThread == ReaderReads \/ ReaderDelivers \/ ReaderEnds
WriterThread == WriterTakes \/ WriterWrites \/ WriterEnds
OwnerTask    == DirectCloses \/ DirectExits \/ RemoteCloses \/ RemoteExits
GuestSide    == GuestReads \/ GuestWrites \/ GuestExits \/ GuestKilled \/ GuestHangsUp
NearEnd      == Leaves \/ Input \/ Sends \/ Output \/ OutputEnds \/ Completes \/ Drained
                  \/ DrainTimeout \/ Finished
Blocking     == StartJob \/ IssueRead \/ ReadReturns \/ Flushed

TerminalNext == \/ MachineOwner \/ ReaderThread \/ WriterThread \/ OwnerTask \/ GuestSide
                \/ NearEnd \/ Blocking \/ UserLeaves \/ RequestResize

\* Every task and thread is scheduled while it can run; tokio::select! polls
\* its branches in random order, so a branch that is ready again and again is
\* taken.  A child that was killed dies.  Nothing else is assumed of the guest,
\* nor of the user's typing or of failing system calls.
TerminalFairness ==
    /\ WF_terminalVars(MachineCloses \/ MachineReads \/ MachineDelivers \/ MachineHangup)
    /\ WF_terminalVars(ReaderReads \/ ReaderDelivers \/ (ReaderEnds /\ faults' = faults))
    /\ WF_terminalVars(WriterThread) /\ WF_terminalVars(DirectCloses \/ DirectExits)
    /\ WF_terminalVars(RemoteCloses \/ (RemoteExits /\ faults' = faults))
    /\ WF_terminalVars(Leaves /\ Near = "panel")
    /\ WF_terminalVars(Output) /\ WF_terminalVars(OutputEnds) /\ WF_terminalVars(Finished)
    /\ SF_terminalVars(Completes) /\ SF_terminalVars(DrainTimeout)
    /\ WF_terminalVars(StartJob) /\ WF_terminalVars(Flushed)
    /\ WF_terminalVars(GuestKilled)

TerminalSpec == TerminalInit /\ [][TerminalNext]_terminalVars /\ TerminalFairness

-----------------------------------------------------------------------------
(* Properties.                                                             *)

\* The far end let go: its owner task ended, the child was reaped, the
\* daemon was asked to close, or the machine PTY's master was dropped.
Released == owner = "ended"

\* A command that returned because its output ended has written everything
\* the guest wrote, even when the exit was reported before the last output
\* was read, unless a read of the terminal failed (the drain loops of
\* terminal_io.rs).
OutputIsComplete ==
    how = "drained" /\ life = "exited" /\ faults = 0 => pty.o = 0 /\ ~held

\* Nobody is left waiting for a terminal.  Closing a tab releases its terminal
\* wherever its owner and its parser are blocked (close_active, Drop for
\* TerminalSessionHandle, the owners' close branches), with one exception: the
\* owner of a direct child waits as long as a child lives that its signal did
\* not end.  When that child does exit, the terminal is released after all.
\* `lasper launch` returns after the guest command exits, even when a
\* descendant keeps the terminal open; a shell opened through machined ends
\* with the hangup (COMPLETED_OUTPUT_DRAIN_TIMEOUT).  And a write to the
\* caller's terminal completes without a key being pressed: the runtime has a
\* thread left for it (SHELL_MAX_BLOCKING_THREADS).  The exception is `lasper
\* shell` on a direct child: the child's three threads and the read of the
\* keyboard are all the runtime has, and until the child exits a write that
\* comes after that read waits for a key.
TerminalsLetGo ==
    /\ (leave /\ Near = "panel") ~> (Released \/ (owner = "unkilled" /\ guest = "runs"))
    /\ (leave /\ Near = "panel" /\ guest # "runs") ~> Released
    /\ (Near = "launcher" /\ guest = "exited" /\ (Far = "shell" => ~pty.slave)) ~> ~Receiving
    /\ (jobs.flushing /\ (link = <<"inherited", "direct">> => guest # "runs")) ~> ~jobs.flushing

=============================================================================
