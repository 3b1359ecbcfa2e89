----------------------------- MODULE ElevatedRpc -----------------------------
(***************************************************************************)
(* The control channel between Lasper and its root daemon: calls of the      *)
(* client, the task that owns the socket, the daemon's request pump with its  *)
(* admission and response queue, and the shutdown that ends with the          *)
(* launcher.  A response travels in two parts, because it may be longer than  *)
(* what one read returns; requests are read by a loop that is never           *)
(* interrupted, so they travel whole.  Timers may fire at any moment at which *)
(* their future is not ready.                                                 *)
(***************************************************************************)
EXTENDS Naturals, Sequences, FiniteSets

CONSTANTS
    Calls,           \* RPC calls, each with its own id
    Exit,            \* the call made by ElevatedDaemon::exit
    ClaimOf,         \* the resource a call claims exclusively, or Nothing
    Nothing,
    QueueCapacity,   \* requests waiting for the connection task
    SocketCapacity,  \* requests, or parts of responses, in the socket's buffers
    OutCapacity,     \* responses waiting for the daemon's writer
    MaxInFlight      \* RPC request slots

ASSUME CallSet == Exit \in Calls /\ Nothing \notin Calls
ASSUME Capacities == {QueueCapacity, SocketCapacity, OutCapacity, MaxInFlight} \subseteq Nat \ {0}

VARIABLES
    call,       \* [pc, result] of each call
    queue,      \* the mpsc channel of requests
    driver,     \* RpcConnection::run: [pc, call, partial]
    pending,    \* PendingRpcResponses
    up, down,   \* the socket
    permit,     \* the shutdown Notify holds a permit
    exiter,     \* ElevatedDaemon::exit
    launcher,   \* the watch the launcher's result is published in
    daemon,     \* the request pump: [pc, call]
    task,       \* the spawned request tasks
    answer,     \* what the daemon answers to a call
    held,       \* calls whose reservation is alive
    out,        \* the response queue
    writer,     \* the response the writer is in the middle of
    stopping    \* the daemon's shutdown was requested

clientVars == <<call, queue, driver, pending, permit, exiter, launcher>>
daemonVars == <<daemon, task, answer, held, out, writer, stopping>>
rpcVars == <<clientVars, up, down, daemonVars>>

Returned(result) == [pc |-> "returned", result |-> result]
Waiting(c) == call[c].pc = "waiting"

-----------------------------------------------------------------------------
(* send_rpc_request *)
Begin(c) ==
    /\ c # Exit /\ call[c].pc = "idle"
    /\ call' = [call EXCEPT ![c].pc = "sending"]
    /\ UNCHANGED <<queue, exiter>>

Enqueue(c) ==
    /\ call[c].pc = "sending" /\ driver.pc # "gone"
    /\ Len(queue) < QueueCapacity
    /\ queue' = Append(queue, c)
    /\ call' = [call EXCEPT ![c].pc = "waiting"]
    /\ UNCHANGED exiter

QueueTimeout(c) ==
    /\ call[c].pc = "sending" /\ driver.pc # "gone"
    /\ Len(queue) = QueueCapacity
    /\ call' = [call EXCEPT ![c] = Returned("not submitted")]
    /\ UNCHANGED <<queue, exiter>>

QueueClosed(c) ==
    /\ call[c].pc = "sending" /\ driver.pc = "gone"
    /\ call' = [call EXCEPT ![c] = Returned("broken")]
    /\ UNCHANGED <<queue, exiter>>

ResponseTimeout(c) ==
    /\ Waiting(c)
    /\ call' = [call EXCEPT ![c] = Returned("timeout")]
    /\ UNCHANGED <<queue, exiter>>

\* exit(): the call, whatever it returns, then the permit and the wait.
ExitBegin ==
    /\ exiter = "idle"
    /\ exiter' = "calling"
    /\ call' = [call EXCEPT ![Exit].pc = "sending"]
    /\ UNCHANGED <<queue, permit>>
ExitShutdown ==
    /\ exiter = "calling" /\ call[Exit].pc = "returned"
    /\ exiter' = "waiting"
    /\ permit' = TRUE
    /\ UNCHANGED <<call, queue>>
ExitReturns ==
    /\ exiter = "waiting" /\ launcher # "running"
    /\ exiter' = "returned"
    /\ UNCHANGED <<call, queue, permit>>

CallStep(c) ==
    /\ \/ Enqueue(c) \/ QueueTimeout(c) \/ QueueClosed(c) \/ ResponseTimeout(c)
    /\ UNCHANGED <<driver, pending, permit, launcher, up, down, daemonVars>>
ExitStep ==
    /\ ExitShutdown \/ ExitReturns
    /\ UNCHANGED <<driver, pending, launcher, up, down, daemonVars>>
Ask ==
    \/ \E c \in Calls : Begin(c) /\ UNCHANGED <<driver, pending, permit, launcher,
                                                up, down, daemonVars>>
    \/ ExitBegin /\ UNCHANGED <<driver, pending, launcher, up, down, daemonVars>>

-----------------------------------------------------------------------------
(* exchange.  read_bounded_line keeps what it has read in its own future: a   *)
(* branch of the select! that wins drops it.                                  *)
Select(partial) == [pc |-> "select", call |-> Nothing, partial |-> partial]
ClientKeeps == UNCHANGED <<permit, exiter, launcher, daemonVars>>

\* The socket, the queue and every response sender go with the exchange.
Hangs == /\ driver' = [Select(Nothing) EXCEPT !.pc = "gone"]
         /\ call' = [c \in Calls |-> IF Waiting(c) THEN Returned("broken") ELSE call[c]]
         /\ queue' = <<>> /\ pending' = {} /\ down' = <<>>

TakeRequest ==
    /\ driver.pc = "select" /\ queue # <<>>
    /\ driver' = IF Waiting(Head(queue))
                 THEN [pc |-> "write", call |-> Head(queue), partial |-> Nothing]
                 ELSE Select(Nothing)
    /\ queue' = Tail(queue)
    /\ UNCHANGED <<call, pending, up, down>>

WriteRequest ==
    /\ driver.pc = "write"
    /\ \/ /\ daemon.pc # "exited" /\ Len(up) < SocketCapacity
          /\ up' = Append(up, driver.call)
          /\ driver' = Select(Nothing)
          /\ pending' = IF Waiting(driver.call) THEN pending \cup {driver.call}
                        ELSE pending
          /\ UNCHANGED <<call, queue, down>>
       \/ daemon.pc = "exited" /\ Hangs /\ UNCHANGED up

Sweep ==
    /\ driver.pc = "select"
    /\ pending' = {c \in pending : Waiting(c)}
    /\ driver' = Select(Nothing)
    /\ UNCHANGED <<call, queue, up, down>>

ReadSome ==
    /\ driver.pc = "select" /\ driver.partial = Nothing
    /\ down # <<>> /\ Head(down).part = "head"
    /\ driver' = Select(Head(down).call)
    /\ down' = Tail(down)
    /\ UNCHANGED <<call, queue, pending, up>>

\* route_response.  The rest of a response whose head is lost is not JSON.
Route_Oldest(c) ==
    LET to == CHOOSE d \in pending : TRUE
    IN  IF pending = {} THEN UNCHANGED <<call, pending>>
        ELSE /\ pending' = pending \ {to}
             /\ call' = IF Waiting(to) THEN [call EXCEPT ![to] = Returned(answer[c])]
                        ELSE call
Route(c) ==
    /\ pending' = pending \ {c}
    /\ call' = IF c \in pending /\ Waiting(c) THEN [call EXCEPT ![c] = Returned(answer[c])]
               ELSE call

ReadLine ==
    /\ driver.pc = "select" /\ down # <<>> /\ Head(down).part = "tail"
    /\ IF driver.partial = Nothing THEN UNCHANGED <<call, pending>>
       ELSE Route(driver.partial)
    /\ driver' = Select(Nothing)
    /\ down' = Tail(down)
    /\ UNCHANGED <<queue, up>>

ReadEof ==
    /\ driver.pc = "select" /\ down = <<>> /\ daemon.pc = "exited"
    /\ Hangs
    /\ UNCHANGED up

Exchange ==
    /\ TakeRequest \/ WriteRequest \/ Sweep \/ ReadSome \/ ReadLine \/ ReadEof
    /\ ClientKeeps

\* run(): the permit is awaited next to the exchange, not inside its loop.
Shutdown_InLoop ==
    /\ permit /\ driver.pc = "select"
    /\ permit' = FALSE
    /\ Hangs
    /\ UNCHANGED <<up, exiter, launcher, daemonVars>>
Shutdown ==
    /\ permit /\ driver.pc # "gone"
    /\ permit' = FALSE
    /\ Hangs
    /\ UNCHANGED <<up, exiter, launcher, daemonVars>>

-----------------------------------------------------------------------------
(* The launcher, after run() has returned.  Terminating it ends the daemon, or *)
(* is refused by the host and reported.                                        *)
LauncherFinish ==
    /\ driver.pc = "gone" /\ launcher = "running"
    /\ \/ daemon.pc = "exited" /\ launcher' \in {"finished", "unconfirmed"}
          /\ UNCHANGED daemon
       \/ daemon.pc # "exited" /\ launcher' = "finished"
          /\ daemon' = [pc |-> "exited", call |-> Nothing]
       \/ daemon.pc # "exited" /\ launcher' = "unconfirmed" /\ UNCHANGED daemon
    /\ UNCHANGED <<call, queue, driver, pending, permit, exiter, up, down, task, answer,
                   held, out, writer, stopping>>

-----------------------------------------------------------------------------
(* run_rpc_request_pump *)
Pump(pc, c) == daemon' = [pc |-> pc, call |-> c]
Busy(c) == ClaimOf[c] # Nothing /\ \E d \in held : ClaimOf[d] = ClaimOf[c]
Slots == Cardinality({c \in Calls : task[c] \in {"running", "responding"}})
DaemonKeeps == UNCHANGED <<clientVars, down>>

Admit(c) ==
    /\ answer' = [answer EXCEPT ![c] = CASE Busy(c) -> "busy"
                                         [] ~ Busy(c) /\ Slots >= MaxInFlight -> "limit"
                                         [] OTHER -> "ok"]
    /\ IF answer'[c] = "ok"
       THEN /\ task' = [task EXCEPT ![c] = "running"]
            /\ held' = IF ClaimOf[c] = Nothing THEN held ELSE held \cup {c}
            /\ Pump("read", Nothing)
       ELSE Pump("reject", c) /\ UNCHANGED <<task, held>>

PumpRead ==
    /\ daemon.pc = "read" /\ ~ stopping /\ up # <<>>
    /\ Admit(Head(up))
    /\ up' = Tail(up)
    /\ UNCHANGED <<out, writer, stopping>>

PumpReject ==
    /\ daemon.pc = "reject"
    /\ \/ stopping /\ Pump("drain", Nothing) /\ UNCHANGED out
       \/ ~ stopping /\ Len(out) < OutCapacity
          /\ out' = Append(out, daemon.call) /\ Pump("read", Nothing)
    /\ UNCHANGED <<up, task, answer, held, writer, stopping>>

PumpEnds ==
    /\ daemon.pc = "read"
    /\ stopping \/ (up = <<>> /\ driver.pc = "gone")
    /\ Pump("drain", Nothing)
    /\ stopping' = TRUE
    /\ UNCHANGED <<up, task, answer, held, out, writer>>

Finish(c) ==
    /\ task[c] = "running"
    /\ task' = [task EXCEPT ![c] = "responding"]
    /\ held' = held \ {c}
    /\ stopping' = (stopping \/ c = Exit)
    /\ UNCHANGED <<daemon, up, answer, out, writer>>

Respond(c) ==
    /\ task[c] = "responding"
    /\ \/ stopping /\ UNCHANGED out
       \/ ~ stopping /\ Len(out) < OutCapacity /\ out' = Append(out, c)
    /\ task' = [task EXCEPT ![c] = "done"]
    /\ UNCHANGED <<daemon, up, answer, held, writer, stopping>>

\* Only operations are drained; a response may be lost with the process.
DaemonExits ==
    /\ daemon.pc = "drain"
    /\ \A c \in Calls : task[c] # "running"
    /\ Pump("exited", Nothing)
    /\ UNCHANGED <<up, task, answer, held, out, writer, stopping>>

DaemonStep ==
    /\ daemon.pc # "exited"
    /\ \/ PumpRead \/ PumpReject \/ PumpEnds \/ DaemonExits
       \/ \E c \in Calls : Finish(c) \/ Respond(c)
    /\ DaemonKeeps

\* The writer task.
WriterStep ==
    /\ daemon.pc # "exited"
    /\ \/ /\ driver.pc # "gone" /\ Len(down) < SocketCapacity
          /\ stopping' = stopping
          /\ \/ /\ writer = Nothing /\ out # <<>>
                /\ down' = Append(down, [call |-> Head(out), part |-> "head"])
                /\ writer' = Head(out) /\ out' = Tail(out)
             \/ /\ writer # Nothing
                /\ down' = Append(down, [call |-> writer, part |-> "tail"])
                /\ writer' = Nothing /\ out' = out
       \/ /\ driver.pc = "gone" /\ (writer # Nothing \/ out # <<>>)
          /\ writer' = Nothing /\ out' = <<>> /\ stopping' = TRUE /\ down' = down
    /\ UNCHANGED <<clientVars, up, daemon, task, answer, held>>

DaemonDies ==
    /\ daemon.pc # "exited"
    /\ Pump("exited", Nothing)
    /\ UNCHANGED <<up, task, answer, held, out, writer, stopping>>
    /\ DaemonKeeps

-----------------------------------------------------------------------------
RpcInit ==
    /\ call = [c \in Calls |-> [pc |-> "idle", result |-> "none"]]
    /\ queue = <<>> /\ pending = {} /\ up = <<>> /\ down = <<>>
    /\ driver = Select(Nothing)
    /\ permit = FALSE /\ exiter = "idle" /\ launcher = "running"
    /\ daemon = [pc |-> "read", call |-> Nothing]
    /\ task = [c \in Calls |-> "none"] /\ answer = [c \in Calls |-> "none"]
    /\ held = {} /\ out = <<>> /\ writer = Nothing /\ stopping = FALSE

ClientStep ==
    \/ \E c \in Calls : CallStep(c)
    \/ ExitStep \/ Exchange \/ Shutdown \/ LauncherFinish

RpcNext == Ask \/ ClientStep \/ DaemonStep \/ WriterStep \/ DaemonDies

\* Every task of the client is scheduled and every timer fires.  Nothing is
\* assumed of the daemon: it may hang.
RpcFairness ==
    /\ \A c \in Calls : WF_rpcVars(CallStep(c))
    /\ WF_rpcVars(ExitStep) /\ WF_rpcVars(Shutdown) /\ WF_rpcVars(LauncherFinish)

RpcSpec == RpcInit /\ [][RpcNext]_rpcVars /\ RpcFairness

-----------------------------------------------------------------------------
\* What a caller is told is what the daemon did for that very call: a result
\* only of an operation that ended, a refusal or "was not submitted" only of one
\* that never ran, also when answers come late, in another order or torn
\* (route_response, write_request, send_rpc_request).  And once a caller has its
\* answer the daemon holds no reservation for it, so a request it sends next is
\* not refused because of the one before (run_rpc_request_pump drops the
\* reservation before it responds).
ResultsAreHonest ==
    \A c \in Calls :
        /\ call[c].result = "ok" => task[c] \in {"responding", "done"} /\ c \notin held
        /\ call[c].result \in {"busy", "limit", "not submitted"} => task[c] = "none"

\* Every call returns and exit() ends with the launcher's result, although the
\* daemon may stop reading, stop answering, or never see the request
\* (RpcConnection::run, finish_shutdown).
CallsReturn ==
    /\ \A c \in Calls : call[c].pc = "sending" ~> call[c].pc = "returned"
    /\ exiter = "calling" ~> exiter = "returned"

\* The line that read_bounded_line hands over is one protocol frame.
OneFrame ==
    [][ReadLine => driver.partial # Nothing]_rpcVars
==============================================================================
