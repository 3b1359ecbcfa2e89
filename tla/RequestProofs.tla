---------------------------- MODULE RequestProofs ----------------------------
(* Proofs about requests that are still in flight when whoever made them has *)
(* moved on.  The inspector, for any machines and images: the document it    *)
(* paints is current whatever reads return late.  The access dialogs, for    *)
(* any users and displays: a check is shown beside what it is about.  The    *)
(* daemon, for any ids, children, closes, jobs and queue bound: its sessions *)
(* (SessionRegistry) and its shutdown (DaemonShutdown).                      *)
EXTENDS Inspector, AccessDialog, DaemonShutdown, TLAPS

-----------------------------------------------------------------------------
(* The daemon's registry of sessions.                                        *)

Pending == {p \in Processes : opener[p] \in {"check", "capture", "send"}}

\* RunningIsRegistered is not inductive: that nobody removes the entry of a
\* process that runs rests on where its opener and its reaper are.  A reaper
\* that finishes has reaped its process; an entry belongs to a process whose
\* registration is over, so it is never made a second time.
SessionInv ==
    /\ SessionTypeOK
    /\ closer \in [Closers -> [at : {"idle", "validate", "terminate", "sleep", "revalidate", "kill"},
                               process : Processes \cup {Nobody}]]
    /\ \A p \in Processes :
          /\ opener[p] = "none" <=> kernel[p] = "none"
          /\ reaper[p] # "none" <=> opener[p] \in {"delivered", "failed"}
          /\ Entry(p) = p => opener[p] \in {"send", "delivered", "failed"}
          /\ kernel[p] = "alive" /\ opener[p] \in {"send", "delivered"} => Entry(p) = p
          /\ reaper[p] \in {"finish", "status", "done"} => kernel[p] = "reaped"
          /\ reaper[p] \in {"discarding", "status", "done"} => Entry(p) # p
          /\ opener[p] = "failed" => p \in killed
          /\ p \in completed => kernel[p] = "reaped"

LEMMA SessionInitially == SessionInit => SessionInv
<1> SUFFICES ASSUME SessionInit PROVE SessionInv
  OBVIOUS
<1>1. closer \in [Closers -> [at : {"idle", "validate", "terminate", "sleep", "revalidate", "kill"},
                               process : Processes \cup {Nobody}]]
  BY DEF SessionInit, Idle
<1>2. SessionTypeOK
  BY DEF SessionInit, SessionTypeOK
<1> QED
  BY <1>1, <1>2, RequestIds DEF SessionInit, SessionInv, Entry

LEMMA SpawnPreserves ==
    ASSUME SessionInv, NEW p \in Processes, Spawn(p)
    PROVE  SessionInv'
<1>1. SessionTypeOK'
  BY DEF SessionInv, SessionTypeOK, Spawn
<1> QED
  BY <1>1 DEF SessionInv, SessionTypeOK, Spawn, Entry

LEMMA GiveUpPreserves ==
    ASSUME SessionInv, NEW p \in Processes, opener[p] \in {"check", "capture"}, GiveUp(p)
    PROVE  SessionInv'
<1>1. SessionTypeOK'
  BY DEF SessionInv, SessionTypeOK, GiveUp
<1> QED
  BY <1>1 DEF SessionInv, SessionTypeOK, GiveUp, Entry

LEMMA OpenPreserves ==
    ASSUME SessionInv, NEW p \in Processes, Open(p)
    PROVE  SessionInv'
<1>1. CASE RegisterCheck(p)
  <2>1. CASE GiveUp(p)
    BY <1>1, <2>1, GiveUpPreserves DEF RegisterCheck
  <2>2. CASE ~ GiveUp(p)
    <3>1. SessionTypeOK'
      BY <1>1, <2>2 DEF SessionInv, SessionTypeOK, RegisterCheck
    <3> QED
      BY <1>1, <2>2, <3>1 DEF SessionInv, SessionTypeOK, RegisterCheck, Entry
  <2> QED
    BY <2>1, <2>2
<1>2. CASE RegisterInsert(p)
  <2>1. CASE GiveUp(p)
    BY <1>2, <2>1, GiveUpPreserves DEF RegisterInsert
  <2>2. CASE ~ GiveUp(p)
    <3>1. SessionTypeOK'
      BY <1>2, <2>2, RequestIds DEF SessionInv, SessionTypeOK, RegisterInsert, SetEntry
    <3>2. \A q \in Processes : Entry(q)' = IF IdOf[q] = IdOf[p] THEN p ELSE Entry(q)
      BY <1>2, <2>2, RequestIds DEF SessionInv, SessionTypeOK, RegisterInsert, SetEntry, Entry
    <3>3. \A q \in Processes : IdOf[q] = IdOf[p] => Entry(q) = Nobody
      BY <1>2, <2>2 DEF RegisterInsert, Entry
    <3>4. p # Nobody /\ \A q \in Processes : q # Nobody
      BY RequestIds
    <3> QED
      BY <1>2, <2>2, <3>1, <3>2, <3>3, <3>4 DEF SessionInv, SessionTypeOK, RegisterInsert
  <2> QED
    BY <2>1, <2>2
<1>3. CASE Deliver(p)
  <2>1. SessionTypeOK'
    BY <1>3 DEF SessionInv, SessionTypeOK, Deliver
  <2> QED
    BY <1>3, <2>1 DEF SessionInv, SessionTypeOK, Deliver, Entry
<1> QED
  BY <1>1, <1>2, <1>3 DEF Open

LEMMA ExitPreserves ==
    ASSUME SessionInv, NEW p \in Processes, Exit(p) \/ MonitorFails(p)
    PROVE  SessionInv'
<1>1. SessionTypeOK'
  BY DEF SessionInv, SessionTypeOK, Exit, MonitorFails
<1> QED
  BY <1>1 DEF SessionInv, SessionTypeOK, Exit, MonitorFails, Entry

\* The position of a close is nothing the registry depends on.
CloserType ==
    /\ closer \in [Closers -> [at : {"idle", "validate", "terminate", "sleep", "revalidate", "kill"},
                               process : Processes \cup {Nobody}]]
    /\ \A c \in Closers :
          \/ closer[c] = Idle
          \/ /\ closer[c].process \in Processes
             /\ closer[c].at \in {"validate", "terminate", "sleep", "revalidate", "kill"}

\* Taking the entry of a process that no longer runs harms no other process.
LEMMA RemovePreserves ==
    ASSUME SessionInv, NEW p \in Processes, kernel[p] # "alive", RemoveIfProcess(p),
           UNCHANGED <<kernel, opener, killed>>, CloserType',
           reaper' = reaper \/ (reaper[p] = "finish" /\ reaper' = [reaper EXCEPT ![p] = "status"]),
           completed' = completed \/ (kernel[p] = "reaped" /\ completed' = completed \cup {p})
    PROVE  SessionInv'
<1>1. SessionTypeOK'
  BY RequestIds DEF SessionInv, SessionTypeOK, RemoveIfProcess, SetEntry, Entry, CloserType
<1>2. \A q \in Processes : Entry(q)' = Entry(q) \/ (Entry(q) = p /\ Entry(q)' = Nobody)
  BY RequestIds DEF SessionInv, SessionTypeOK, RemoveIfProcess, SetEntry, Entry
<1>3. Entry(p)' # p /\ \A q \in Processes : q # Nobody
  BY RequestIds DEF SessionInv, SessionTypeOK, RemoveIfProcess, SetEntry, Entry
<1> QED
  BY <1>1, <1>2, <1>3 DEF SessionInv, SessionTypeOK, CloserType

LEMMA ReaperPreserves ==
    ASSUME SessionInv, NEW p \in Processes, Reaper(p)
    PROVE  SessionInv'
<1>1. CASE Reap(p)
  <2>1. SessionTypeOK'
    BY <1>1 DEF SessionInv, SessionTypeOK, Reap
  <2> QED
    BY <1>1, <2>1 DEF SessionInv, SessionTypeOK, Reap, Entry
<1>2. CASE Finish(p)
  <2>1. kernel[p] = "reaped" /\ CloserType'
    BY <1>2 DEF Finish, SessionInv, SessionTypeOK, CloserType
  <2> QED
    BY <1>2, <2>1, RemovePreserves, Zenon DEF Finish, RemoveIfProcess
<1>3. CASE WriteStatus(p)
  <2>1. SessionTypeOK'
    BY <1>3 DEF SessionInv, SessionTypeOK, WriteStatus
  <2> QED
    BY <1>3, <2>1 DEF SessionInv, SessionTypeOK, WriteStatus, Entry
<1> QED
  BY <1>1, <1>2, <1>3 DEF Reaper

LEMMA MoveType ==
    ASSUME CloserType, NEW c \in Closers, closer[c].at # "idle",
           \/ closer' = [closer EXCEPT ![c] = Idle]
           \/ \E at \in {"terminate", "sleep", "revalidate", "kill"} : Move(c, at)
    PROVE  CloserType'
<1>1. CASE closer' = [closer EXCEPT ![c] = Idle]
  BY <1>1 DEF CloserType, Idle
<1>2. ASSUME NEW at \in {"terminate", "sleep", "revalidate", "kill"}, Move(c, at)
      PROVE  CloserType'
  <2>1. closer[c].process \in Processes
    BY DEF CloserType, Idle
  <2>2. closer' = [closer EXCEPT ![c] = [closer[c] EXCEPT !.at = at]]
    BY <1>2 DEF Move, CloserType
  <2>3. [closer[c] EXCEPT !.at = at] = [at |-> at, process |-> closer[c].process]
    BY DEF CloserType
  <2> QED
    BY <1>2, <2>1, <2>2, <2>3 DEF CloserType
<1> QED
  BY <1>1, <1>2

LEMMA CloserPreserves ==
    ASSUME SessionInv, UNCHANGED <<sessions, kernel, opener, reaper, completed>>,
           killed' \subseteq Processes, killed \subseteq killed', CloserType'
    PROVE  SessionInv'
BY DEF SessionInv, SessionTypeOK, CloserType, Entry

LEMMA CloseSessionPreserves ==
    ASSUME SessionInv, NEW c \in Closers, NEW id \in Ids, CloseSession(c, id)
    PROVE  SessionInv'
<1>1. sessions[id] \in Processes
  BY DEF SessionInv, SessionTypeOK, CloseSession
<1>2. CloserType'
  BY <1>1 DEF SessionInv, SessionTypeOK, CloseSession, CloserType
<1> QED
  BY <1>2, CloserPreserves DEF CloseSession, SessionInv, SessionTypeOK

LEMMA ClosePreserves ==
    ASSUME SessionInv, NEW c \in Closers, Close(c)
    PROVE  SessionInv'
<1>1. CloserType /\ closer[c].at # "idle" /\ closer[c].process \in Processes
  BY DEF SessionInv, SessionTypeOK, CloserType, Idle, Close, Revalidate, Terminate, Wake, Kill
<1>2. CloserType'
  BY <1>1, MoveType DEF Close, Revalidate, Terminate, Wake, Kill
<1>3. CASE Terminate(c) \/ Wake(c) \/ Kill(c)
  BY <1>1, <1>2, <1>3, CloserPreserves DEF Terminate, Wake, Kill, SessionInv, SessionTypeOK
<1>4. CASE Revalidate(c)
  <2>1. CASE UNCHANGED sessions
    BY <1>2, <1>4, <2>1, CloserPreserves, Zenon DEF Revalidate, SessionInv, SessionTypeOK
  <2>2. CASE sessions' # sessions
    <3> DEFINE p == closer[c].process
    <3>1. /\ kernel[p] # "alive" /\ RemoveIfProcess(p)
          /\ UNCHANGED <<kernel, opener, reaper, completed, killed>>
      BY <1>4, <2>2 DEF Revalidate
    <3> HIDE DEF p
    <3>2. p \in Processes
      BY <1>1 DEF p
    <3> QED
      BY <1>2, <3>1, <3>2, RemovePreserves
  <2> QED
    BY <2>1, <2>2
<1> QED
  BY <1>3, <1>4 DEF Close

\* The registry keeps its invariant whatever children are opened, exit, are
\* closed or reaped, in any order, for any number of them and of closes.
THEOREM SessionInvariant == SessionSpec => []SessionInv
<1>1. SessionInv /\ [SessionNext]_sessionVars => SessionInv'
  <2> SUFFICES ASSUME SessionInv, [SessionNext]_sessionVars PROVE SessionInv'
    OBVIOUS
  <2>1. CASE SessionNext
    BY <2>1, SpawnPreserves, OpenPreserves, ExitPreserves, ReaperPreserves, ClosePreserves,
       CloseSessionPreserves DEF SessionNext
  <2>2. CASE UNCHANGED sessionVars
    BY <2>2 DEF sessionVars, SessionInv, SessionTypeOK, Entry
  <2> QED
    BY <2>1, <2>2
<1> QED
  BY <1>1, SessionInitially, PTL DEF SessionSpec

\* A running session that was handed over, or is about to be, is found under
\* its id, and one whose end was reported is not (RunningIsRegistered).
THEOREM RunningStaysRegistered == SessionSpec => []RunningIsRegistered
<1>1. SessionInv => RunningIsRegistered
  BY DEF SessionInv, RunningIsRegistered
<1> QED
  BY <1>1, SessionInvariant, PTL

-----------------------------------------------------------------------------
(* The shutdown.                                                           *)

\* Sessions that run and were not killed.
Untold == {p \in Processes : kernel[p] = "alive" /\ p \notin killed}

\* Whatever else a session's tasks do, they start nothing.
LEMMA TasksStartNothing ==
    ASSUME SessionInv,
           \/ \E p \in Processes : Open(p) \/ Reaper(p) \/ MonitorFails(p) \/ Exit(p)
           \/ \E c \in Closers : Close(c) \/ \E id \in Ids : CloseSession(c, id)
    PROVE  Untold' \subseteq Untold /\ Pending' \subseteq Pending
<1>1. ASSUME NEW p \in Processes, Open(p)
      PROVE  Untold' \subseteq Untold /\ Pending' \subseteq Pending
  <2>1. killed \subseteq killed' /\ kernel' = kernel
    BY <1>1 DEF Open, RegisterCheck, RegisterInsert, Deliver, GiveUp
  <2>2. \E w : opener' = [opener EXCEPT ![p] = w]
    BY <1>1 DEF Open, RegisterCheck, RegisterInsert, Deliver, GiveUp
  <2>3. opener[p] \in {"check", "capture", "send"}
    BY <1>1 DEF Open, RegisterCheck, RegisterInsert, Deliver
  <2>4. \A q \in Processes : q # p => opener'[q] = opener[q]
    BY <2>2 DEF SessionInv, SessionTypeOK
  <2> QED
    BY <2>1, <2>3, <2>4 DEF Untold, Pending
<1>2. ASSUME NEW p \in Processes, Reaper(p) \/ MonitorFails(p) \/ Exit(p)
      PROVE  Untold' \subseteq Untold /\ Pending' \subseteq Pending
  BY <1>2, Zenon DEF Reaper, Reap, Finish, WriteStatus, MonitorFails, Exit, Untold, Pending, SessionInv,
              SessionTypeOK
<1>3. ASSUME NEW c \in Closers, Close(c) \/ \E id \in Ids : CloseSession(c, id)
      PROVE  Untold' \subseteq Untold /\ Pending' \subseteq Pending
  BY <1>3, Zenon DEF Close, Revalidate, Terminate, Wake, Kill, CloseSession, Untold, Pending
<1> QED
  BY <1>1, <1>2, <1>3

LEMMA TasksPreserve ==
    ASSUME SessionInv,
           \/ \E p \in Processes : Open(p) \/ Reaper(p) \/ MonitorFails(p) \/ Exit(p)
           \/ \E c \in Closers : Close(c) \/ \E id \in Ids : CloseSession(c, id)
    PROVE  SessionInv'
BY OpenPreserves, ExitPreserves, ReaperPreserves, ClosePreserves, CloseSessionPreserves

Mains == [pc : {"top", "check", "wait", "respond", "close", "drain", "drainCheck", "drainWait",
                "cancel", "jobs", "snapshot", "terminating", "waitEmpty", "killing", "exited"},
          ticket : {"none", "taken", "called"}, todo : SUBSET Processes, grace : BOOLEAN]
Closing == {"drain", "drainCheck", "drainWait", "cancel", "jobs", "snapshot", "terminating",
            "waitEmpty", "killing", "exited"}
Drained == {"cancel", "jobs", "snapshot", "terminating", "waitEmpty", "killing", "exited"}

\* What the shutdown knows at each of its steps.  A lease covers every session
\* that is being opened and every deployment that is being submitted; once the
\* gate is closed and the leases are gone, what runs is registered, killed or
\* on the list that is worked through.
ShutdownInv ==
    /\ SessionInv
    /\ main \in Mains
    /\ requested \in BOOLEAN
    /\ leases \subseteq Requests
    /\ request \in [Closers -> {"none", "admitted", "handling", "responding", "done"}]
    /\ job \in [Jobs -> {"none", "submitting", "running", "ended"}]
    /\ cancelled \subseteq Jobs
    /\ \A c \in Closers : request[c] \in {"admitted", "handling"} <=> c \in leases
    /\ \A j \in Jobs : job[j] = "submitting" <=> j \in leases
    /\ Pending \subseteq leases
    /\ main.pc \in Closing => requested
    /\ main.pc \in Drained => leases = {}
    /\ main.pc \in Drained \ {"cancel"} => \A j \in Jobs : job[j] = "running" => j \in cancelled
    /\ main.pc = "terminating" /\ ~ main.grace => Untold \subseteq main.todo
    /\ main.pc = "killing" => Untold \subseteq main.todo
    /\ main.pc = "exited" => Untold = {}

LEMMA ShutdownInitially == Init => ShutdownInv
<1> SUFFICES ASSUME Init PROVE ShutdownInv
  OBVIOUS
<1>1. SessionInv
  BY SessionInitially DEF Init
<1>2. main \in Mains /\ main.pc = "top"
  BY DEF Init, Mains
<1>3. Pending = {}
  BY DEF Init, SessionInit, Pending
<1> QED
  BY <1>1, <1>2, <1>3, Zenon DEF Init, ShutdownInv, Closing, Drained

\* With no lease left, every session that runs and was not killed is in the
\* registry's snapshot.
LEMMA UntoldIsRegistered ==
    ASSUME SessionInv, Pending = {}
    PROVE  Untold \subseteq Registered
BY DEF SessionInv, SessionTypeOK, Pending, Untold, Registered

LEMMA SessionsStay ==
    ASSUME SessionInv, UNCHANGED sessionVars
    PROVE  SessionInv' /\ Untold' = Untold /\ Pending' = Pending /\ Registered' = Registered
BY DEF sessionVars, SessionInv, SessionTypeOK, Entry, Untold, Pending, Registered

LEMMA WokenKeeps ==
    ASSUME NEW m \in Mains
    PROVE  /\ Woken(m) \in Mains /\ Woken(m).pc = m.pc /\ Woken(m).todo = m.todo
           /\ Woken(m).grace = m.grace
BY DEF Woken, Mains

LEMMA GotoKeeps ==
    ASSUME main \in Mains, NEW pc, pc \in Closing \cup {"top", "check", "wait", "respond", "close"},
           Goto(pc)
    PROVE  main' \in Mains /\ main'.pc = pc /\ main'.todo = main.todo /\ main'.grace = main.grace
BY DEF Goto, Mains, Closing

LEMMA GotoOpen ==
    ASSUME ShutdownInv, NEW pc \in {"top", "check", "wait", "respond", "close"}, Goto(pc)
    PROVE  main' \in Mains /\ main'.pc \notin Closing
<1>1. main \in Mains
  BY DEF ShutdownInv
<1>2. main' \in Mains /\ main'.pc = pc
  BY <1>1, GotoKeeps
<1> QED
  BY <1>2 DEF Closing

\* Steps of the tasks of sessions and of requests, which leave the main flow
\* and the leases alone.
LEMMA TaskPreserves ==
    ASSUME ShutdownInv, SessionInv', Untold' \subseteq Untold, Pending' \subseteq Pending,
           UNCHANGED <<main, requested, leases, job, cancelled>>,
           request' \in [Closers -> {"none", "admitted", "handling", "responding", "done"}],
           \A c \in Closers : request'[c] \in {"admitted", "handling"} <=>
                              request[c] \in {"admitted", "handling"}
    PROVE  ShutdownInv'
BY Zenon DEF ShutdownInv

\* A lease ends after what it covered; the main flow is woken, or goes on in
\* the pump or to the shutdown.
LEMMA DropPreserves ==
    ASSUME ShutdownInv, UNCHANGED <<sessionVars, cancelled>>, NEW r \in Requests, NEW m \in Mains,
           Drop(r, m), r \notin Pending,
           m = main \/ m.pc \notin Closing,
           request' \in [Closers -> {"none", "admitted", "handling", "responding", "done"}],
           \A c \in Closers : request'[c] \in {"admitted", "handling"} <=>
                              request[c] \in {"admitted", "handling"} /\ c # r,
           job' \in [Jobs -> {"none", "submitting", "running", "ended"}],
           \A j \in Jobs : job'[j] = IF j = r /\ j \in leases THEN job'[j] ELSE job[j],
           \A j \in Jobs : j = r => job'[j] # "submitting"
    PROVE  ShutdownInv'
<1>1. SessionInv' /\ Untold' = Untold /\ Pending' = Pending
  BY SessionsStay DEF ShutdownInv
<1>2. /\ main' \in Mains /\ main'.pc = m.pc /\ main'.todo = m.todo /\ main'.grace = m.grace
  BY WokenKeeps DEF Drop
<1>3. leases' = leases \ {r} /\ requested' = requested
  BY DEF Drop
<1>4. main'.pc \in Closing => main.pc = main'.pc /\ main'.todo = main.todo /\ main'.grace = main.grace
  BY <1>2
<1>5. \A j \in Jobs : job'[j] = "submitting" <=> j \in leases'
  BY <1>3 DEF ShutdownInv
<1>6. \A c \in Closers : request'[c] \in {"admitted", "handling"} <=> c \in leases'
  BY <1>3 DEF ShutdownInv
<1>7. main'.pc \in Drained => leases = {} /\ main'.pc \in Closing
  BY <1>4 DEF ShutdownInv, Drained, Closing
<1>8. main'.pc \in Drained => \A j \in Jobs : job'[j] = job[j]
  BY <1>7
<1> QED
  <2>1. Pending' \subseteq leases' /\ leases' \subseteq Requests
    BY <1>1, <1>3 DEF ShutdownInv
  <2>2. /\ main'.pc \in Closing => requested'
        /\ main'.pc \in Drained => leases' = {}
    BY <1>3, <1>4, <1>7 DEF ShutdownInv
  <2>3. main'.pc \in Drained \ {"cancel"} => \A j \in Jobs : job'[j] = "running" => j \in cancelled
    BY <1>4, <1>7, <1>8 DEF ShutdownInv
  <2>4. /\ main'.pc = "terminating" /\ ~ main'.grace => Untold' \subseteq main'.todo
        /\ main'.pc = "killing" => Untold' \subseteq main'.todo
        /\ main'.pc = "exited" => Untold' = {}
    BY <1>1, <1>4 DEF ShutdownInv, Closing
  <2> QED
    BY <1>1, <1>2, <1>3, <1>5, <1>6, <2>1, <2>2, <2>3, <2>4 DEF ShutdownInv

\* The pump and its requests, while the gate may be open.
LEMMA PumpPreserves ==
    ASSUME ShutdownInv, Pump \/ PumpEnds
    PROVE  ShutdownInv'
<1>1. SessionInv' /\ Untold' = Untold /\ Pending' = Pending
  BY SessionsStay DEF ShutdownInv, Pump, PumpEnds
<1>2. main' \in Mains /\ main'.pc \notin Closing
  <2>1. CASE PumpTop
    <3> DEFINE m == [main EXCEPT !.pc = "check"]
    <3>1. m \in Mains /\ main' = [m EXCEPT !.ticket = "taken"] /\ m.pc = "check"
      BY <2>1 DEF PumpTop, ShutdownInv, Mains
    <3> HIDE DEF m
    <3> QED
      BY <3>1 DEF Mains, Closing
  <2>2. CASE \E pc \in {"close", "wait", "top", "respond"} : Goto(pc)
    BY <2>2, GotoKeeps DEF ShutdownInv, Closing
  <2> QED
    BY <2>1, <2>2 DEF Pump, PumpCheck, PumpWoken, PumpEnds
<1> QED
  BY <1>1, <1>2, Zenon DEF ShutdownInv, Pump, PumpEnds, gateVars, Closing, Drained

LEMMA PumpRespondsPreserves ==
    ASSUME ShutdownInv, PumpResponds
    PROVE  ShutdownInv'
<1>1. PICK pc \in {"close", "top"} : Drop("pump", [main EXCEPT !.pc = pc])
  BY DEF PumpResponds
<1>2. [main EXCEPT !.pc = pc] \in Mains /\ [main EXCEPT !.pc = pc].pc \notin Closing
  BY DEF ShutdownInv, Mains, Closing
<1>3. "pump" \in Requests /\ "pump" \notin Pending
  BY RequestsDiffer DEF Requests, Pending
<1>4. UNCHANGED <<sessionVars, request, job, cancelled>>
  BY DEF PumpResponds
<1> QED
  BY <1>1, <1>2, <1>3, <1>4, RequestsDiffer, DropPreserves, Zenon DEF ShutdownInv

\* A request that is admitted gets its lease while the gate is open, so the
\* main flow is not past it.
LEMMA AdmitPreserves ==
    ASSUME ShutdownInv, UNCHANGED <<sessionVars, cancelled>>, NEW r \in Requests, Admit(r),
           main' = main \/ (main' \in Mains /\ main'.pc \notin Closing),
           request' \in [Closers -> {"none", "admitted", "handling", "responding", "done"}],
           \A c \in Closers : request'[c] \in {"admitted", "handling"} <=>
                              request[c] \in {"admitted", "handling"} \/ c = r,
           job' \in [Jobs -> {"none", "submitting", "running", "ended"}],
           \A j \in Jobs : job'[j] = "submitting" <=> job[j] = "submitting" \/ j = r
    PROVE  ShutdownInv'
<1>1. SessionInv' /\ Untold' = Untold /\ Pending' = Pending
  BY SessionsStay DEF ShutdownInv
<1>2. leases' = leases \cup {r} /\ ~ requested /\ requested' = requested
  BY DEF Admit
<1>3. main.pc \notin Closing /\ main'.pc \notin Closing /\ main' \in Mains
  BY <1>2, Zenon DEF ShutdownInv
<1> QED
  BY <1>1, <1>2, <1>3 DEF ShutdownInv, Closing, Drained

LEMMA PumpAdmitsPreserves ==
    ASSUME ShutdownInv, NEW c \in Closers, PumpAdmits(c)
    PROVE  ShutdownInv'
<1>1. UNCHANGED <<sessionVars, job, cancelled>> /\ request[c] = "none" /\ c \in Requests
  BY DEF PumpAdmits, Requests
<1>2. CASE Goto("close") /\ UNCHANGED <<gateVars, request>>
  <2>1. main' \in Mains /\ main'.pc \notin Closing
    BY <1>2, GotoOpen
  <2>2. SessionInv' /\ Untold' = Untold /\ Pending' = Pending
    BY <1>1, SessionsStay DEF ShutdownInv
  <2> QED
    BY <1>1, <1>2, <2>1, <2>2, Zenon DEF ShutdownInv, gateVars, Closing, Drained
<1>3. CASE Admit(c) /\ request' = [request EXCEPT ![c] = "admitted"] /\ Goto("top")
  <2>1. main' \in Mains /\ main'.pc \notin Closing
    BY <1>3, GotoOpen
  <2>2. /\ request' \in [Closers -> {"none", "admitted", "handling", "responding", "done"}]
        /\ \A d \in Closers : request'[d] \in {"admitted", "handling"} <=>
                               request[d] \in {"admitted", "handling"} \/ d = c
    BY <1>3 DEF ShutdownInv
  <2>3. \A j \in Jobs : j # c
    BY RequestsDiffer
  <2> QED
    BY <1>1, <1>3, <2>1, <2>2, <2>3, AdmitPreserves, Zenon DEF ShutdownInv
<1>4. CASE Admit("pump") /\ request' = [request EXCEPT ![c] = "done"] /\ Goto("respond")
  <2>1. main' \in Mains /\ main'.pc \notin Closing
    BY <1>4, GotoOpen
  <2>2. /\ request' \in [Closers -> {"none", "admitted", "handling", "responding", "done"}]
        /\ \A d \in Closers : request'[d] \in {"admitted", "handling"} <=>
                               request[d] \in {"admitted", "handling"}
    BY <1>1, <1>4 DEF ShutdownInv
  <2>3. "pump" \in Requests /\ (\A j \in Jobs : j # "pump") /\ (\A d \in Closers : d # "pump")
    BY RequestsDiffer DEF Requests
  <2> QED
    BY <1>1, <1>4, <2>1, <2>2, <2>3, AdmitPreserves, Zenon DEF ShutdownInv
<1> QED
  BY <1>2, <1>3, <1>4, Zenon DEF PumpAdmits

LEMMA HandlePreserves ==
    ASSUME ShutdownInv, NEW c \in Closers, Handle(c) \/ Respond(c)
    PROVE  ShutdownInv'
<1>1. SessionInv' /\ Untold' \subseteq Untold /\ Pending' \subseteq Pending
  BY SessionsStay, TasksPreserve, TasksStartNothing, Zenon DEF ShutdownInv, Handle, Respond
<1>2. /\ request' \in [Closers -> {"none", "admitted", "handling", "responding", "done"}]
      /\ \A d \in Closers : request'[d] \in {"admitted", "handling"} <=>
                             request[d] \in {"admitted", "handling"}
  BY Zenon DEF ShutdownInv, Handle, Respond
<1> QED
  BY <1>1, <1>2, TaskPreserves DEF Handle, Respond, gateVars

LEMMA HandledPreserves ==
    ASSUME ShutdownInv, NEW c \in Closers, Handled(c)
    PROVE  ShutdownInv'
<1>1. Drop(c, main) /\ UNCHANGED <<sessionVars, job, cancelled>> /\ main \in Mains
  BY Zenon DEF Handled, ShutdownInv
<1>2. /\ request' \in [Closers -> {"none", "admitted", "handling", "responding", "done"}]
      /\ \A d \in Closers : request'[d] \in {"admitted", "handling"} <=>
                             request[d] \in {"admitted", "handling"} /\ d # c
  BY DEF ShutdownInv, Handled
<1>3. c \in Requests /\ c \notin Pending /\ \A j \in Jobs : j # c
  BY RequestsDiffer DEF Requests, Pending
<1> QED
  BY <1>1, <1>2, <1>3, DropPreserves, Zenon DEF ShutdownInv

LEMMA SessionRequestPreserves ==
    ASSUME ShutdownInv, NEW p \in Processes, OpenSession(p) \/ StartSession(p) \/ Opened(p)
    PROVE  ShutdownInv'
<1>1. p \in Requests /\ (\A c \in Closers : c # p) /\ (\A j \in Jobs : j # p)
  BY RequestsDiffer DEF Requests
<1>2. CASE OpenSession(p)
  BY <1>1, <1>2, AdmitPreserves, Zenon DEF OpenSession, ShutdownInv
<1>3. CASE StartSession(p)
  <2>1. SessionInv'
    BY <1>3, SpawnPreserves, Zenon DEF StartSession, ShutdownInv
  <2>2. Pending' \subseteq leases /\ leases # {} /\ main.pc # "exited"
    <3>1. /\ p \in leases /\ main.pc # "exited" /\ Pending \subseteq leases
          /\ opener' = [opener EXCEPT ![p] = "check"]
      BY <1>3 DEF StartSession, Spawn, ShutdownInv, Running
    <3>2. opener \in [Processes -> {"none", "check", "capture", "send", "delivered", "failed"}]
      BY DEF ShutdownInv, SessionInv, SessionTypeOK
    <3>3. \A q \in Processes : q # p => opener'[q] = opener[q]
      BY ONLY <3>1, <3>2
    <3> QED
      BY <3>1, <3>3 DEF Pending
  <2>3. main.pc \notin Drained
    BY <2>2 DEF ShutdownInv
  <2> QED
    BY <1>3, <2>1, <2>2, <2>3, Zenon DEF StartSession, ShutdownInv, gateVars, Drained
<1>4. CASE Opened(p)
  <2>1. p \notin Pending
    BY <1>4 DEF Opened, Pending
  <2> QED
    BY <1>1, <1>4, <2>1, DropPreserves, Zenon DEF Opened, ShutdownInv
<1> QED
  BY <1>2, <1>3, <1>4

LEMMA JobPreserves ==
    ASSUME ShutdownInv, NEW j \in Jobs, SubmitJob(j) \/ JobSubmitted(j) \/ JobEnds(j)
    PROVE  ShutdownInv'
<1>1. j \in Requests /\ j \notin Pending /\ \A c \in Closers : c # j
  BY RequestsDiffer DEF Requests, Pending
<1>2. CASE SubmitJob(j)
  <2>1. /\ job' \in [Jobs -> {"none", "submitting", "running", "ended"}]
        /\ \A i \in Jobs : job'[i] = "submitting" <=> job[i] = "submitting" \/ i = j
    BY <1>2 DEF SubmitJob, ShutdownInv
  <2> QED
    BY <1>1, <1>2, <2>1, AdmitPreserves, Zenon DEF SubmitJob, ShutdownInv
<1>3. CASE JobSubmitted(j)
  <2>1. /\ job' \in [Jobs -> {"none", "submitting", "running", "ended"}]
        /\ j \in leases /\ job'[j] # "submitting"
        /\ \A i \in Jobs : i # j => job'[i] = job[i]
    BY <1>3, Zenon DEF JobSubmitted, ShutdownInv
  <2> QED
    BY <1>1, <1>3, <2>1, DropPreserves, Zenon DEF JobSubmitted, ShutdownInv
<1>4. CASE JobEnds(j)
  <2>1. SessionInv' /\ Untold' = Untold /\ Pending' = Pending
    BY <1>4, SessionsStay DEF JobEnds, ShutdownInv
  <2>2. /\ job' \in [Jobs -> {"none", "submitting", "running", "ended"}]
        /\ \A i \in Jobs : job'[i] = job[i] \/ (job[i] = "running" /\ job'[i] = "ended")
    BY <1>4 DEF JobEnds, ShutdownInv
  <2> QED
    BY <1>4, <2>1, <2>2, Zenon DEF JobEnds, ShutdownInv, gateVars
<1> QED
  BY <1>2, <1>3, <1>4

\* The main flow, from the closed gate to the exit.
LEMMA CloseGatePreserves ==
    ASSUME ShutdownInv, CloseGate
    PROVE  ShutdownInv'
<1>1. SessionInv' /\ Untold' = Untold /\ Pending' = Pending
  BY SessionsStay DEF ShutdownInv, CloseGate
<1>2. main' \in Mains /\ main'.pc = "drain"
  <2> DEFINE m == [main EXCEPT !.pc = "drain"]
  <2>1. m \in Mains /\ m.pc = "drain" /\ main' = [m EXCEPT !.ticket = "none"]
    BY DEF CloseGate, ShutdownInv, Mains
  <2> HIDE DEF m
  <2> QED
    BY <2>1 DEF Mains
<1> QED
  BY <1>1, <1>2 DEF ShutdownInv, CloseGate, Drained

LEMMA SnapshotType ==
    ASSUME main \in Mains, NEW pc \in {"terminating", "killing"}, NEW S \in SUBSET Processes,
           main' = [main EXCEPT !.pc = pc, !.todo = S]
    PROVE  main' \in Mains /\ main'.pc = pc /\ main'.todo = S
<1> DEFINE m == [main EXCEPT !.pc = pc]
<1>1. m \in Mains /\ m.pc = pc /\ main' = [m EXCEPT !.todo = S]
  BY DEF Mains
<1> HIDE DEF m
<1> QED
  BY <1>1 DEF Mains

\* A step of the main flow before the sessions are asked to end.
LEMMA MainMoves ==
    ASSUME ShutdownInv, SessionInv', Untold' = Untold, Pending' = Pending,
           UNCHANGED <<requested, leases, request, job, cancelled>>,
           main' \in Mains, main'.pc \notin {"terminating", "killing", "exited"},
           main'.pc \in Closing => main.pc \in Closing,
           main'.pc \in Drained => main.pc \in Drained,
           main'.pc \in Drained \ {"cancel"} => main.pc \in Drained \ {"cancel"}
    PROVE  ShutdownInv'
BY Zenon DEF ShutdownInv

LEMMA CleanupPreserves ==
    ASSUME ShutdownInv, Cleanup
    PROVE  ShutdownInv'
<1>1. /\ SessionInv' /\ Untold' = Untold /\ Pending' = Pending /\ Registered' = Registered
      /\ UNCHANGED <<requested, leases, request, job, cancelled>>
      /\ main \in Mains
  BY SessionsStay DEF ShutdownInv, Cleanup, gateVars
<1>2. main.pc \in Drained => Untold \subseteq Registered
  BY UntoldIsRegistered DEF ShutdownInv
<1>3. CASE DrainRegisters
  <2> DEFINE m == [main EXCEPT !.pc = "drainCheck"]
  <2>1. m \in Mains /\ m.pc = "drainCheck" /\ main' = [m EXCEPT !.ticket = "taken"]
    BY <1>1, <1>3 DEF DrainRegisters, Mains
  <2> HIDE DEF m
  <2>2. main' \in Mains /\ main'.pc = "drainCheck"
    BY <2>1 DEF Mains
  <2> QED
    BY <1>1, <1>3, <2>2 DEF DrainRegisters, ShutdownInv, Closing, Drained
<1>4. CASE DrainChecks
  <2>1. PICK pc \in {"cancel", "drainWait"} :
          Goto(pc) /\ (pc = "cancel" => leases = {}) /\ main.pc = "drainCheck"
    BY <1>4 DEF DrainChecks
  <2>2. main' \in Mains /\ main'.pc = pc
    BY <1>1, <2>1, GotoKeeps DEF Closing
  <2> QED
    BY <1>1, <2>1, <2>2 DEF ShutdownInv, Closing, Drained
<1>5. CASE DrainWoken
  <2>1. main.pc = "drainWait" /\ main' \in Mains /\ main'.pc = "drain"
    BY <1>1, <1>5, GotoKeeps DEF DrainWoken, Closing
  <2>2. main.pc \in Closing /\ main'.pc \notin Drained
    BY <2>1 DEF Closing, Drained
  <2> QED
    BY <1>1, <2>1, <2>2, MainMoves
<1>6. CASE JobsWaited
  <2>1. main.pc = "jobs" /\ main' \in Mains /\ main'.pc = "snapshot"
    BY <1>1, <1>6, GotoKeeps DEF JobsWaited, Closing
  <2>2. main.pc \in Closing /\ main.pc \in Drained \ {"cancel"}
    BY <2>1 DEF Closing, Drained
  <2> QED
    BY <1>1, <2>1, <2>2, MainMoves
<1>7. CASE Snapshot
  <2>1. main' \in Mains /\ main'.pc = "terminating" /\ main'.todo = Registered
    BY <1>1, <1>7, SnapshotType, Zenon DEF Snapshot, Registered
  <2> QED
    BY <1>1, <1>2, <1>7, <2>1 DEF Snapshot, ShutdownInv, Closing, Drained
<1>8. ASSUME NEW p \in Processes, SignalTerm(p)
      PROVE  ShutdownInv'
  <2> DEFINE g == main.grace \/ (p \notin completed /\ kernel[p] = "alive")
             m == [main EXCEPT !.todo = main.todo \ {p}]
  <2>1. m \in Mains /\ m.pc = main.pc /\ m.todo = main.todo \ {p} /\ m.grace = main.grace
    BY <1>1 DEF Mains
  <2>2. main' = [m EXCEPT !.grace = g] /\ main.pc = "terminating"
    BY <1>1, <1>8 DEF SignalTerm, Mains
  <2> HIDE DEF m
  <2>3. main' \in Mains /\ main'.pc = main.pc /\ main'.todo = main.todo \ {p} /\ main'.grace = g
    BY <2>1, <2>2, Zenon DEF Mains
  <2>4. p \in Untold => g
    BY DEF Untold, ShutdownInv, SessionInv
  <2> QED
    BY <1>1, <2>2, <2>3, <2>4, Zenon DEF ShutdownInv, Closing, Drained
<1>9. CASE AllSignalled
  <2>1. PICK pc \in {"waitEmpty", "exited"} :
          /\ Goto(pc) /\ main.pc = "terminating" /\ main.todo = {}
          /\ pc = "exited" => ~ main.grace
    BY <1>9 DEF AllSignalled
  <2>2. main' \in Mains /\ main'.pc = pc
    BY <1>1, <2>1, GotoKeeps DEF Closing
  <2>3. pc = "exited" => Untold = {}
    BY <2>1 DEF ShutdownInv
  <2> QED
    BY <1>1, <2>1, <2>2, <2>3 DEF ShutdownInv, Closing, Drained
<1>10. CASE SessionsEmpty
  BY <1>1, <1>2, <1>10, GotoKeeps DEF SessionsEmpty, ShutdownInv, Closing, Drained
<1>11. CASE GraceOver
  <2>1. main' \in Mains /\ main'.pc = "killing" /\ main'.todo = Registered
    BY <1>1, <1>11, SnapshotType, Zenon DEF GraceOver, Registered
  <2> QED
    BY <1>1, <1>2, <1>11, <2>1 DEF GraceOver, ShutdownInv, Closing, Drained
<1> QED
  BY <1>3, <1>4, <1>5, <1>6, <1>7, <1>8, <1>9, <1>10, <1>11 DEF Cleanup

LEMMA CancelAllPreserves ==
    ASSUME ShutdownInv, CancelAll
    PROVE  ShutdownInv'
<1>1. SessionInv' /\ Untold' = Untold /\ Pending' = Pending
  BY SessionsStay DEF ShutdownInv, CancelAll
<1>2. main' \in Mains /\ main'.pc = "jobs"
  BY GotoKeeps, Zenon DEF ShutdownInv, CancelAll, Closing
<1> QED
  BY <1>1, <1>2, Zenon DEF ShutdownInv, CancelAll, gateVars, Closing, Drained

LEMMA SignalKillPreserves ==
    ASSUME ShutdownInv, SignalKill
    PROVE  ShutdownInv'
<1>1. CASE main.todo = {} /\ Goto("exited") /\ UNCHANGED killed
  <2>1. UNCHANGED sessionVars
    BY <1>1 DEF SignalKill, sessionVars
  <2>2. SessionInv' /\ Untold' = Untold /\ Pending' = Pending
    BY <2>1, SessionsStay DEF ShutdownInv
  <2>3. main' \in Mains /\ main'.pc = "exited"
    BY <1>1, GotoKeeps DEF ShutdownInv, Closing
  <2> QED
    BY <1>1, <2>2, <2>3 DEF SignalKill, ShutdownInv, gateVars, Closing, Drained
<1>2. ASSUME NEW p \in main.todo,
             killed' = IF p \notin completed /\ kernel[p] = "alive" THEN killed \cup {p} ELSE killed,
             main' = [main EXCEPT !.todo = main.todo \ {p}]
      PROVE  ShutdownInv'
  <2>1. p \in Processes
    BY DEF ShutdownInv, Mains
  <2>2. main' \in Mains /\ main'.pc = "killing" /\ main'.todo = main.todo \ {p}
    BY <1>2 DEF SignalKill, ShutdownInv, Mains
  <2>3. SessionInv' /\ Pending' = Pending
    BY <1>2, <2>1 DEF SignalKill, ShutdownInv, SessionInv, SessionTypeOK, Entry, Pending
  <2>4. Untold' = Untold \ {p}
    BY <1>2, <2>1 DEF SignalKill, ShutdownInv, SessionInv, Untold
  <2> QED
    BY <2>2, <2>3, <2>4 DEF SignalKill, ShutdownInv, gateVars, Closing, Drained
<1> QED
  BY <1>1, <1>2 DEF SignalKill, ShutdownInv, Mains

LEMMA OtherPreserves ==
    ASSUME ShutdownInv, BeginFlag \/ BeginNotify \/ EventQueued \/ WriterTakes \/ UNCHANGED vars
    PROVE  ShutdownInv'
<1>1. SessionInv' /\ Untold' = Untold /\ Pending' = Pending
  BY SessionsStay, Zenon DEF ShutdownInv, BeginFlag, BeginNotify, EventQueued, WriterTakes, vars
<1>2. main' \in Mains /\ main'.pc = main.pc /\ main'.todo = main.todo /\ main'.grace = main.grace
  BY WokenKeeps, Zenon DEF ShutdownInv, BeginFlag, BeginNotify, EventQueued, WriterTakes, vars
<1> QED
  BY <1>1, <1>2, Zenon DEF ShutdownInv, BeginFlag, BeginNotify, EventQueued, WriterTakes, vars, gateVars

LEMMA SessionTasksPreserve ==
    ASSUME ShutdownInv, SessionTasks
    PROVE  ShutdownInv'
<1>1. SessionInv' /\ Untold' \subseteq Untold /\ Pending' \subseteq Pending
  BY TasksPreserve, TasksStartNothing, Zenon DEF SessionTasks, ShutdownInv
<1> QED
  BY <1>1, TaskPreserves, Zenon DEF SessionTasks, gateVars, ShutdownInv

\* ShutdownInv holds from the daemon's first request to its exit, whatever is
\* being opened, closed, submitted or reaped meanwhile.
THEOREM ShutdownInvariant == Spec => []ShutdownInv
<1>1. ShutdownInv /\ [Next]_vars => ShutdownInv'
  <2> SUFFICES ASSUME ShutdownInv, [Next]_vars PROVE ShutdownInv'
    OBVIOUS
  <2>1. CASE Main
    BY <2>1, PumpPreserves, PumpRespondsPreserves, CloseGatePreserves, CleanupPreserves,
       CancelAllPreserves, SignalKillPreserves DEF Main
  <2>2. CASE SessionTasks \/ BeginFlag \/ BeginNotify \/ PumpEnds \/ EventQueued \/ WriterTakes
             \/ UNCHANGED vars
    BY <2>2, SessionTasksPreserve, OtherPreserves, PumpPreserves
  <2>3. ASSUME NEW c \in Closers, PumpAdmits(c) \/ Handle(c) \/ Handled(c) \/ Respond(c)
        PROVE  ShutdownInv'
    BY <2>3, PumpAdmitsPreserves, HandlePreserves, HandledPreserves
  <2> QED
    BY <2>1, <2>2, <2>3, SessionRequestPreserves, JobPreserves DEF Next
<1> QED
  BY <1>1, ShutdownInitially, PTL DEF Spec

\* The daemon exits with nothing running that it did not tell to end
\* (shutdown_daemon_resources).
THEOREM NothingStaysUntold == Spec => []NothingLeftUntold
<1>1. ShutdownInv => NothingLeftUntold
  BY DEF ShutdownInv, NothingLeftUntold, Running, Untold, Drained
<1> QED
  BY <1>1, ShutdownInvariant, PTL

\* The snapshots of the registries are taken when no request can add to them,
\* which is what the comment in shutdown.rs promises (SnapshotsAreComplete).
THEOREM SnapshotsStayComplete == Spec => []SnapshotsAreComplete
<1>1. ShutdownInv => SnapshotsAreComplete
  BY DEF ShutdownInv, SnapshotsAreComplete, Pending, Drained
<1> QED
  BY <1>1, ShutdownInvariant, PTL

\* In the whole daemon, too, a running session is found under its id.
THEOREM DaemonKeepsSessions == Spec => []RunningIsRegistered
<1>1. ShutdownInv => RunningIsRegistered
  BY Zenon DEF ShutdownInv, SessionInv, RunningIsRegistered
<1> QED
  BY <1>1, ShutdownInvariant, PTL

-----------------------------------------------------------------------------
(* The inspector.                                                            *)

\* The inputs of a pane's document, whichever pane is active.
LinesOf(p) ==
    CASE p = "machineOverview" ->
             <<IF shown \in InspectedMachines THEN rows[shown] ELSE None, properties>>
      [] p = "details" -> <<properties, unit>>
      [] p \in {"config", "imageConfig"} -> <<config>>
      [] OTHER -> <<>>

CachedFits ==
    cached # None =>
        /\ DirtyFlag(cached.key[2]) # "uncached"
        /\ cached.key[1] = shown /\ DirtyFlag(cached.key[2]) \notin dirty
             => cached.lines = LinesOf(cached.key[2])

DataIsOwned == \A value \in {properties, config, unit} : value # None => value[1] = shown

\* DocumentIsCurrent is not inductive: a pane can be left and come back to
\* before a frame is drawn, so the cache has to be right for the pane it was
\* made for, whichever pane is active, unless that pane is dirty.
InspectorInv == CachedFits /\ DataIsOwned

\* The document of the active pane is made of the inputs of that pane.
LEMMA LinesOfPane == Lines = LinesOf(pane)
BY DEF Lines, LinesOf

\* A pane is drawn from one of three kinds of input, or is not cached.
LEMMA Flags ==
    ASSUME NEW p
    PROVE  /\ DirtyFlag(p) \in {"overview", "details", "config", "uncached"}
           /\ DirtyFlag(p) = "overview" <=> p \in {"machineOverview", "imageOverview"}
           /\ DirtyFlag(p) = "details" <=> p = "details"
           /\ DirtyFlag(p) = "config" <=> p \in {"config", "imageConfig"}
BY DEF DirtyFlag

Kinds == {"noop", "empty", "properties", "unit", "config", "journal"}

\* Every target and pane has a kind of read.
LEMMA ReadKinds ==
    ASSUME NEW t, NEW p
    PROVE  ReadKind(t, p) \in Kinds
BY DEF ReadKind, Kinds

\* A step that leaves the inputs of every pane alone.
LEMMA InspectorUnmoved ==
    ASSUME InspectorInv, UNCHANGED <<shown, rows, properties, config, unit, dirty, cached>>
    PROVE  InspectorInv'
BY DEF InspectorInv, CachedFits, DataIsOwned, LinesOf

\* Whatever a result changes it marks as dirty, and it is the target's.
LEMMA ResultKeeps ==
    ASSUME InspectorInv, NEW kind \in Kinds, NEW value, ApplyResult(kind, shown, value),
           UNCHANGED <<shown, rows, cached>>
    PROVE  InspectorInv'
<1> DEFINE p == cached.key[2]
<1>1. CASE kind \in {"noop", "journal"}
  <2>1. UNCHANGED <<properties, config, unit, dirty>>
    BY <1>1, Zenon DEF ApplyResult, readData
  <2> QED
    BY <2>1, InspectorUnmoved
<1>2. CASE kind = "empty"
  <2>1. /\ properties' = None /\ unit' = None /\ config' = None
        /\ dirty' = dirty \cup {"overview", "details"} \cup (IF config # None THEN {"config"} ELSE {})
    BY <1>2 DEF ApplyResult
  <2>2. DataIsOwned'
    BY <2>1 DEF DataIsOwned
  <2>3. CachedFits'
    BY <2>1, Flags DEF InspectorInv, CachedFits, LinesOf
  <2> QED
    BY <2>2, <2>3 DEF InspectorInv
<1>3. CASE kind = "properties"
  <2>1. /\ properties' = <<shown, value>> /\ UNCHANGED <<config, unit>>
        /\ dirty' = dirty \cup {"overview", "details"}
    BY <1>3 DEF ApplyResult
  <2>2. DataIsOwned'
    BY <2>1 DEF InspectorInv, DataIsOwned
  <2>3. CachedFits'
    BY <2>1, Flags DEF InspectorInv, CachedFits, LinesOf
  <2> QED
    BY <2>2, <2>3 DEF InspectorInv
<1>4. CASE kind = "unit"
  <2>1. /\ properties' = <<shown, value>> /\ unit' = <<shown, value>> /\ UNCHANGED config
        /\ dirty' = dirty \cup {"overview", "details"}
    BY <1>4 DEF ApplyResult
  <2>2. DataIsOwned'
    BY <2>1 DEF InspectorInv, DataIsOwned
  <2>3. CachedFits'
    BY <2>1, Flags DEF InspectorInv, CachedFits, LinesOf
  <2> QED
    BY <2>2, <2>3 DEF InspectorInv
<1>5. CASE kind = "config"
  <2>1. /\ config' = <<shown, value>> /\ UNCHANGED <<properties, unit>>
        /\ dirty' = IF config # config' THEN dirty \cup {"config"} ELSE dirty
    BY <1>5 DEF ApplyResult
  <2>2. DataIsOwned'
    <3>1. config'[1] = shown
      BY ONLY <2>1
    <3> QED
      BY <2>1, <3>1, Zenon DEF InspectorInv, DataIsOwned
  <2>3. CachedFits'
    BY <2>1, Flags DEF InspectorInv, CachedFits, LinesOf
  <2> QED
    BY <2>2, <2>3 DEF InspectorInv
<1> QED
  BY <1>1, <1>2, <1>3, <1>4, <1>5 DEF Kinds

\* Another target drops what was read for the one before.
LEMMA ReplaceTargetKeeps ==
    ASSUME InspectorInv, NEW t, ReplaceTarget(t), UNCHANGED <<rows, cached>>
    PROVE  InspectorInv'
<1>1. CASE t = shown
  BY <1>1, InspectorUnmoved DEF ReplaceTarget, panelVars, readData
<1>2. CASE t # shown
  <2>1. /\ properties' = None /\ config' = None /\ unit' = None
        /\ dirty' = {"overview", "details", "config"}
    BY <1>2 DEF ReplaceTarget
  <2>2. CachedFits'
    BY <2>1, Flags DEF InspectorInv, CachedFits
  <2>3. DataIsOwned'
    BY <2>1 DEF DataIsOwned
  <2> QED
    BY <2>2, <2>3 DEF InspectorInv
<1> QED
  BY <1>1, <1>2

LEMMA ReplaceMachinesKeeps == InspectorInv /\ ReplaceMachines => InspectorInv'
<1> SUFFICES ASSUME InspectorInv, ReplaceMachines PROVE InspectorInv'
  OBVIOUS
<1>1. dirty' = dirty \cup {"overview"} /\ UNCHANGED <<shown, properties, config, unit, cached>>
  BY DEF ReplaceMachines, panelVars, readData
<1>2. CachedFits'
  BY <1>1, Flags DEF InspectorInv, CachedFits, LinesOf
<1>3. DataIsOwned'
  BY <1>1 DEF InspectorInv, DataIsOwned
<1> QED
  BY <1>2, <1>3 DEF InspectorInv

\* Only a result for the visible target is applied.
LEMMA ReceiveCompletionKeeps == InspectorInv /\ ReceiveCompletion => InspectorInv'
<1> SUFFICES ASSUME InspectorInv, ReceiveCompletion PROVE InspectorInv'
  OBVIOUS
<1> DEFINE c == Head(completions)
<1>1. UNCHANGED <<shown, rows, cached>>
  BY DEF ReceiveCompletion, panelVars
<1>2. CASE c.current /\ Visible(c.ticket)
  <2>1. ApplyResult(ResultKind(c.ticket), c.ticket.target, c.value) /\ c.ticket.target = shown
    BY <1>2 DEF ReceiveCompletion, Visible
  <2>2. ResultKind(c.ticket) \in Kinds
    BY ReadKinds DEF ResultKind, Kinds
  <2> QED
    BY <1>1, <2>1, <2>2, ResultKeeps, Zenon
<1>3. CASE ~(c.current /\ Visible(c.ticket))
  BY <1>1, <1>3, InspectorUnmoved DEF ReceiveCompletion, readData
<1> QED
  BY <1>2, <1>3

LEMMA StartRefreshKeeps == InspectorInv /\ StartRefresh => InspectorInv'
<1> SUFFICES ASSUME InspectorInv, StartRefresh PROVE InspectorInv'
  OBVIOUS
<1>1. UNCHANGED <<shown, rows, cached>>
  BY DEF StartRefresh, panelVars
<1>2. \/ UNCHANGED <<properties, config, unit, dirty>>
      \/ ApplyResult("empty", pending.target, 0)
  BY DEF StartRefresh, readData
<1>3. ApplyResult("empty", pending.target, 0) => ApplyResult("empty", shown, 0)
  BY DEF ApplyResult
<1> QED
  BY <1>1, <1>2, <1>3, InspectorUnmoved, ResultKeeps DEF Kinds

\* A frame leaves a document that was just made, or one that was right already.
LEMMA DrawInspectorKeeps == InspectorInv /\ DrawInspector => InspectorInv'
<1> SUFFICES ASSUME InspectorInv, DrawInspector PROVE InspectorInv'
  OBVIOUS
<1>1. /\ UNCHANGED <<shown, pane, rows, properties, config, unit>>
      /\ dirty' = dirty \ {DirtyFlag(pane)}
  BY DEF DrawInspector, panelVars, readData
<1>2. DataIsOwned'
  BY <1>1 DEF InspectorInv, DataIsOwned
<1>3. CachedFits'
  <2>1. CASE DirtyFlag(pane) = "uncached"
    BY <2>1 DEF DrawInspector, CachedFits
  <2>2. CASE DirtyFlag(pane) # "uncached" /\ Reusable
    <3>1. cached' = cached /\ dirty' = dirty
      BY <1>1, <2>2 DEF DrawInspector, Reusable
    <3> QED
      BY <1>1, <3>1 DEF InspectorInv, CachedFits, LinesOf
  <2>3. CASE DirtyFlag(pane) # "uncached" /\ ~Reusable
    <3>1. cached' = [key |-> <<shown, pane>>, lines |-> Lines]
      BY <2>3 DEF DrawInspector
    <3>2. cached'.key[1] = shown /\ cached'.key[2] = pane /\ cached'.lines = LinesOf(pane)
      BY <3>1, LinesOfPane
    <3>3. LinesOf(pane) = LinesOf(pane)'
      BY <1>1 DEF LinesOf
    <3> QED
      BY <1>1, <2>3, <3>2, <3>3 DEF CachedFits, DirtyFlag, LinesOf
  <2> QED
    BY <2>1, <2>2, <2>3
<1> QED
  BY <1>2, <1>3 DEF InspectorInv

\* The cache is right for the pane it was made for, and the data is the
\* target's, whatever order reads, snapshots, switches and frames come in.
THEOREM InspectorInvariant == InspectorSpec => []InspectorInv
<1>1. InspectorInit => InspectorInv
  BY DEF InspectorInit, InspectorInv, CachedFits, DataIsOwned
<1>2. InspectorInv /\ [InspectorNext]_inspectorVars => InspectorInv'
  <2> SUFFICES ASSUME InspectorInv, [InspectorNext]_inspectorVars PROVE InspectorInv'
    OBVIOUS
  <2>1. CASE RequestInspection
    BY <2>1, ReplaceTargetKeeps DEF RequestInspection
  <2>2. CASE SwitchPane
    BY <2>2, InspectorUnmoved DEF SwitchPane, readData
  <2>3. CASE ReplaceMachines
    BY <2>3, ReplaceMachinesKeeps
  <2>4. CASE StartRefresh
    BY <2>4, StartRefreshKeeps
  <2>5. CASE ReadReturnsData
    BY <2>5, InspectorUnmoved DEF ReadReturnsData, panelVars, readData
  <2>6. CASE SendCompletion
    BY <2>6, InspectorUnmoved DEF SendCompletion, panelVars, readData
  <2>7. CASE ReceiveCompletion
    BY <2>7, ReceiveCompletionKeeps
  <2>8. CASE JournalEnds
    BY <2>8, InspectorUnmoved DEF JournalEnds, panelVars, readData
  <2>9. CASE DrawInspector
    BY <2>9, DrawInspectorKeeps
  <2>10. CASE UNCHANGED inspectorVars
    BY <2>10, InspectorUnmoved DEF inspectorVars
  <2> QED
    BY <2>1, <2>2, <2>3, <2>4, <2>5, <2>6, <2>7, <2>8, <2>9, <2>10 DEF InspectorNext
<1> QED
  BY <1>1, <1>2, PTL DEF InspectorSpec

\* DocumentIsCurrent holds: what a frame would paint again is what rebuilding
\* it would give, and what was read belongs to the target that is shown
\* (sync_viewport, replace_target, apply_refresh).
THEOREM DocumentStaysCurrent == InspectorSpec => []DocumentIsCurrent
<1>1. InspectorInv => DocumentIsCurrent
  <2> SUFFICES ASSUME InspectorInv PROVE DocumentIsCurrent
    OBVIOUS
  <2>1. ASSUME Reusable, DirtyFlag(pane) # "uncached"
        PROVE  cached.lines = Lines
    <3>1. cached # None /\ cached.key[1] = shown /\ cached.key[2] = pane
          /\ DirtyFlag(pane) \notin dirty
      BY <2>1 DEF Reusable
    <3> QED
      BY <3>1, LinesOfPane, Zenon DEF InspectorInv, CachedFits
  <2> QED
    BY <2>1, Zenon DEF InspectorInv, DataIsOwned, DocumentIsCurrent
<1> QED
  BY <1>1, InspectorInvariant, PTL
-----------------------------------------------------------------------------
(* The access dialogs.                                                       *)

Operations == {"check", "authorize", "revoke"}
Grants == {"absent", "managed"}
Tasks == [what : Operations, kind : {"x11", "wayland"}, dialog : Nat, generation : Nat,
          about : Pairs, result : Grants \cup {"none", "error"}]
Checks == [about : Pairs, grant : Grants \cup {"none"}, of : Operations \X Nat]
Dialogs == [kind : {"x11", "wayland"}, user : Typed, display : Displays, generation : Nat,
            state : {"untested", "loading", "ready", "failed", "authorizing", "revoking"},
            check : Checks \cup {<<>>}, confirm : {"no", "authorize", "revoke", "root"},
            intent : Pairs \cup {<<>>}, tracked : SUBSET Operations]

\* A task of dialog number n is not ahead of it, and a check of its present
\* generation is about its present selection.
Fits(t, d, n) ==
    t.dialog = n => /\ t.generation <= d.generation
                    /\ t.what = "check" /\ t.generation = d.generation
                         => t.about = <<d.user, d.display>>

\* What an open dialog knows of itself.
DialogOK(d, n) ==
    /\ d \in Dialogs
    /\ d.state = "ready" => d.check \in Checks
    /\ d.confirm \in {"authorize", "revoke"} => d.intent \in Pairs
    /\ d.state = "ready" /\ d.check.of = <<"check", n>> => d.check.about = <<d.user, d.display>>

TasksOK(tasks) == tasks \subseteq Tasks /\ \A t \in tasks : t.dialog <= opened
Answers == {answers[i] : i \in DOMAIN answers}

\* ReadyMatchesSelection is not inductive: a result that waits in the queue is
\* accepted by its generation, so every check of the present generation has to
\* be about the present selection, and no later dialog can have tasks yet.
DialogInv ==
    /\ opened \in Nat
    /\ acl \in [Pairs -> Grants]
    /\ answers \in Seq(Tasks)
    /\ TasksOK(work) /\ TasksOK(Answers)
    /\ Shown => /\ DialogOK(dialog, opened)
                /\ \A t \in work \cup Answers : Fits(t, dialog, opened)

-----------------------------------------------------------------------------

\* A dialog that moves on keeps what fits, if its generation does not fall and
\* a generation that stays leaves the selection alone.
LEMMA StillFits ==
    ASSUME NEW d \in Dialogs, NEW e \in Dialogs, NEW t \in Tasks, NEW n, Fits(t, d, n),
           \/ e.generation = d.generation + 1
           \/ e.generation = d.generation /\ e.user = d.user /\ e.display = d.display
    PROVE  Fits(t, e, n)
<1>1. d.generation \in Nat /\ e.generation \in Nat /\ t.generation \in Nat
  BY DEF Dialogs, Tasks
<1>2. CASE t.dialog # n
  BY <1>2 DEF Fits
<1>3. CASE t.dialog = n
  <2>1. /\ t.generation <= d.generation
        /\ t.what = "check" /\ t.generation = d.generation => t.about = <<d.user, d.display>>
    BY <1>3, Zenon DEF Fits
  <2>2. CASE e.generation = d.generation + 1
    <3>1. t.generation <= e.generation /\ t.generation # e.generation
      BY ONLY <1>1, <2>1, <2>2
    <3> QED
      BY <3>1, Zenon DEF Fits
  <2>3. CASE e.generation = d.generation /\ e.user = d.user /\ e.display = d.display
    BY <2>1, <2>3, Zenon DEF Fits
  <2> QED
    BY <2>2, <2>3
<1> QED
  BY <1>2, <1>3

\* Dropping tasks leaves tasks.
LEMMA FewerTasks ==
    ASSUME NEW S, NEW T, TasksOK(S), T \subseteq S, opened' = opened
    PROVE  TasksOK(T)'
BY DEF TasksOK

\* Every task is typed and of a dialog opened so far.
LEMMA TasksTyped ==
    ASSUME DialogInv, NEW t \in work \cup Answers
    PROVE  t \in Tasks /\ t.dialog <= opened
BY DEF DialogInv, TasksOK

\* The open dialog takes a step: it keeps what it knows, its generation moves
\* on or its selection stays, and a task that was not there before fits.
LEMMA DialogMoves ==
    ASSUME DialogInv, Shown, opened' = opened, DialogOK(dialog', opened),
           \/ dialog'.generation = dialog.generation + 1
           \/ /\ dialog'.generation = dialog.generation
              /\ dialog'.user = dialog.user /\ dialog'.display = dialog.display,
           \A t \in (work \cup Answers)' :
               \/ t \in work \cup Answers
               \/ t \in Tasks /\ t.dialog <= opened /\ Fits(t, dialog', opened),
           answers' \in Seq(Tasks), acl' \in [Pairs -> Grants]
    PROVE  DialogInv'
<1>1. DialogOK(dialog, opened) /\ \A t \in work \cup Answers : Fits(t, dialog, opened)
  BY DEF DialogInv
<1>2. dialog \in Dialogs /\ dialog' \in Dialogs
  BY <1>1 DEF DialogOK
<1>3. ASSUME NEW t \in (work \cup Answers)'
      PROVE  t \in Tasks /\ t.dialog <= opened /\ Fits(t, dialog', opened)
  <2>1. CASE t \in work \cup Answers
    BY <2>1, <1>1, <1>2, TasksTyped, StillFits
  <2>2. CASE t \in Tasks /\ t.dialog <= opened /\ Fits(t, dialog', opened)
    BY <2>2
  <2> QED
    BY <2>1, <2>2
<1>4. TasksOK(work)' /\ TasksOK(Answers)'
  BY <1>3 DEF TasksOK
<1>5. \A t \in (work \cup Answers)' : Fits(t, dialog, opened)'
  BY <1>3 DEF Fits
<1>6. DialogOK(dialog, opened)'
  BY Zenon DEF DialogOK, Dialogs, Checks, Typed, Pairs
<1> QED
  BY <1>4, <1>5, <1>6 DEF DialogInv

\* The dialog is closed.
LEMMA DialogGone ==
    ASSUME DialogInv, dialog' = NoDialog, work' \subseteq work, UNCHANGED <<opened, answers, acl>>
    PROVE  DialogInv'
<1>1. Answers' = Answers
  BY DEF Answers
<1>2. TasksOK(work)' /\ TasksOK(Answers)'
  BY <1>1 DEF DialogInv, TasksOK
<1> QED
  BY <1>2 DEF DialogInv, Shown

\* Only the tasks change: each one is an old one up to its result.
LEMMA TasksMove ==
    ASSUME DialogInv, UNCHANGED <<dialog, opened>>,
           \A t \in (work \cup Answers)' :
               /\ t \in Tasks
               /\ \E s \in work \cup Answers :
                     /\ t.dialog = s.dialog /\ t.generation = s.generation
                     /\ t.what = s.what /\ t.about = s.about,
           answers' \in Seq(Tasks), acl' \in [Pairs -> Grants]
    PROVE  DialogInv'
<1>1. ASSUME NEW t \in (work \cup Answers)'
      PROVE  t \in Tasks /\ t.dialog <= opened /\ (Shown => Fits(t, dialog, opened))
  <2>1. PICK s \in work \cup Answers : /\ t.dialog = s.dialog /\ t.generation = s.generation
                                       /\ t.what = s.what /\ t.about = s.about
    OBVIOUS
  <2>2. s.dialog <= opened /\ (Shown => Fits(s, dialog, opened))
    BY TasksTyped DEF DialogInv
  <2> QED
    BY <2>1, <2>2 DEF Fits
<1>2. TasksOK(work)' /\ TasksOK(Answers)'
  BY <1>1 DEF TasksOK
<1>3. Shown' => \A t \in (work \cup Answers)' : Fits(t, dialog, opened)'
  BY <1>1 DEF Fits, Shown
<1>4. Shown' => DialogOK(dialog, opened)'
  BY DEF DialogInv, Shown, DialogOK
<1> QED
  BY <1>2, <1>3, <1>4 DEF DialogInv

-----------------------------------------------------------------------------
LEMMA OpenKeeps ==
    ASSUME DialogInv, NEW k \in {"x11", "wayland"}, NEW d \in Displays, OpenAccessDialog(k, d)
    PROVE  DialogInv'
<1>1. opened' = opened + 1 /\ UNCHANGED <<work, answers, acl>>
  BY Zenon DEF OpenAccessDialog
<1>10. dialog' = [kind |-> k, user |-> "", display |-> d, generation |-> 0,
                   state |-> "untested", check |-> <<>>, confirm |-> "no", intent |-> <<>>,
                   tracked |-> {}]
  BY Zenon DEF OpenAccessDialog
<1>2. dialog' \in Dialogs /\ dialog'.state = "untested" /\ dialog'.confirm = "no"
  BY <1>10, Zenon DEF Dialogs, Typed
<1>3. DialogOK(dialog, opened)'
  BY <1>2, Zenon DEF DialogOK, Dialogs, Checks, Typed, Pairs
<1>4. Answers' = Answers /\ opened \in Nat
  BY <1>1 DEF Answers, DialogInv
<1>5. \A t \in (work \cup Answers)' : t \in Tasks /\ t.dialog <= opened
  BY <1>1, <1>4, TasksTyped
<1>6. ASSUME NEW t \in (work \cup Answers)'
      PROVE  t.dialog <= opened' /\ t.dialog # opened'
  <2>1. t.dialog \in Nat /\ t.dialog <= opened
    BY <1>5 DEF Tasks
  <2> QED
    BY <1>1, <1>4, <2>1
<1>7. \A t \in (work \cup Answers)' : Fits(t, dialog, opened)'
  BY <1>6 DEF Fits
<1>8. TasksOK(work)' /\ TasksOK(Answers)'
  BY <1>5, <1>6 DEF TasksOK
<1>9. opened' \in Nat /\ acl' \in [Pairs -> Grants] /\ answers' \in Seq(Tasks)
  BY <1>1 DEF DialogInv
<1> QED
  BY <1>3, <1>7, <1>8, <1>9 DEF DialogInv

LEMMA SelectionKeeps ==
    ASSUME DialogInv, NEW u \in Typed, NEW x \in Displays, ChangeSelection(u, x)
    PROVE  DialogInv'
<1>1. /\ Shown /\ UNCHANGED <<opened, answers, acl>> /\ work' \subseteq work
      /\ dialog' = [dialog EXCEPT !.user = u, !.display = x, !.generation = @ + 1,
                                  !.state = "untested"]
  BY DEF ChangeSelection, AtForm, WithoutCheck
<1>2. DialogOK(dialog, opened)
  BY <1>1 DEF DialogInv
<1>3. PICK g \in Nat : g = dialog.generation + 1 /\ dialog \in Dialogs
  <2>1. dialog \in Dialogs /\ dialog.generation \in Nat
    BY <1>2, Zenon DEF DialogOK, Dialogs
  <2>2. dialog.generation + 1 \in Nat
    BY ONLY <2>1
  <2> QED
    BY <2>1, <2>2, Zenon
<1>6. /\ dialog' \in Dialogs /\ dialog'.generation = g
      /\ dialog'.state = "untested" /\ dialog'.confirm = dialog.confirm
      /\ dialog'.intent = dialog.intent
  <2> DEFINE d1 == [dialog EXCEPT !.user = u]
             d2 == [d1 EXCEPT !.display = x]
  <2>1. dialog' = [d2 EXCEPT !.generation = g, !.state = "untested"]
    BY <1>1, <1>3 DEF Dialogs
  <2>2. d1 \in Dialogs /\ d1.confirm = dialog.confirm /\ d1.intent = dialog.intent
    BY <1>3 DEF Dialogs
  <2> HIDE DEF d1
  <2>3. d2 \in Dialogs /\ d2.confirm = dialog.confirm /\ d2.intent = dialog.intent
    BY <2>2 DEF Dialogs
  <2> HIDE DEF d2
  <2> QED
    BY <1>3, <2>1, <2>3, Zenon DEF Dialogs
<1>4. DialogOK(dialog', opened)
  BY <1>2, <1>6 DEF DialogOK
<1>5. \A t \in (work \cup Answers)' : t \in work \cup Answers
  BY <1>1 DEF Answers
<1> QED
  BY <1>1, <1>3, <1>4, <1>5, <1>6, DialogMoves DEF DialogInv

\* The dialog without its check, or with a new one, in another state.
LEMMA CheckKeeps ==
    ASSUME DialogInv, RequestCheck
    PROVE  DialogInv'
<1>1. Shown /\ UNCHANGED <<opened, answers, acl>> /\ Answers' = Answers
  BY DEF RequestCheck, AtForm, Answers
<1>2. DialogOK(dialog, opened) /\ dialog \in Dialogs /\ dialog.generation \in Nat /\ opened \in Nat
  BY <1>1, Zenon DEF DialogInv, DialogOK, Dialogs
<1>3. CASE SelectionValid
  <2> DEFINE t == Task("check", Selected)
  <2>8. PICK g \in Nat : g = dialog.generation + 1
    BY <1>2
  <2>1. /\ dialog' = [dialog EXCEPT !.generation = g, !.state = "loading"]
        /\ work' = WithoutCheck \cup {t}
    BY <1>3, <2>8 DEF RequestCheck
  <2>2. /\ dialog' \in Dialogs /\ dialog'.user = dialog.user /\ dialog'.display = dialog.display
        /\ dialog'.generation = g /\ dialog'.state = "loading"
        /\ dialog'.confirm = dialog.confirm /\ dialog'.intent = dialog.intent
    BY <1>2, <2>1, Zenon DEF Dialogs
  <2>3. DialogOK(dialog', opened)
    BY <1>2, <2>2 DEF DialogOK
  <2>4. Selected \in Pairs
    BY <1>2, <1>3, Zenon DEF Selected, SelectionValid, Pairs, Dialogs, Typed
  <2>5. /\ t \in Tasks /\ t.dialog = opened /\ t.generation = g
        /\ t.about = Selected
    BY <1>2, <2>4, <2>8 DEF Task, Tasks, Operations, Dialogs
  <2> HIDE DEF t
  <2>10. g <= g
    BY ONLY g \in Nat
  <2>9. t.generation <= dialog'.generation
    BY <2>2, <2>5, <2>10, Zenon
  <2>6. Fits(t, dialog', opened)
    BY <2>2, <2>5, <2>9, Zenon DEF Fits, Selected
  <2>7. \A s \in (work \cup Answers)' :
            \/ s \in work \cup Answers
            \/ s \in Tasks /\ s.dialog <= opened /\ Fits(s, dialog', opened)
    BY <1>1, <1>2, <2>1, <2>5, <2>6 DEF WithoutCheck
  <2> QED
    BY <1>1, <2>2, <2>3, <2>7, <2>8, DialogMoves DEF DialogInv
<1>4. CASE ~SelectionValid
  <2>1. PICK g \in Nat : /\ g \in {dialog.generation, dialog.generation + 1}
                         /\ dialog' = [dialog EXCEPT !.state = "failed", !.generation = g]
    <3>1. CASE dialog.kind = "x11"
      <4>1. dialog' = [dialog EXCEPT !.state = "failed", !.generation = dialog.generation + 1]
        BY <1>4, <3>1 DEF RequestCheck
      <4>2. dialog.generation + 1 \in Nat
        BY <1>2
      <4> QED
        BY <4>1, <4>2, Zenon
    <3>2. CASE dialog.kind # "x11"
      BY <1>2, <1>4, <3>2, Zenon DEF RequestCheck
    <3> QED
      BY <3>1, <3>2, Zenon
  <2>2. /\ dialog' \in Dialogs /\ dialog'.user = dialog.user /\ dialog'.display = dialog.display
        /\ dialog'.generation = g /\ dialog'.state = "failed"
        /\ dialog'.confirm = dialog.confirm /\ dialog'.intent = dialog.intent
    BY <1>2, <2>1, Zenon DEF Dialogs
  <2>3. DialogOK(dialog', opened)
    BY <1>2, <2>2 DEF DialogOK
  <2>4. \A t \in (work \cup Answers)' : t \in work \cup Answers
    BY <1>1, <1>4 DEF RequestCheck
  <2> QED
    BY <1>1, <2>1, <2>2, <2>3, <2>4, DialogMoves DEF DialogInv
<1> QED
  BY <1>3, <1>4

\* Only the state or the confirmation of the dialog changes.
LEMMA AskingKeeps ==
    ASSUME DialogInv, NEW what \in {"authorize", "revoke"}, RequestConfirmation(what)
    PROVE  DialogInv'
<1>1. /\ Shown /\ UNCHANGED <<opened, work, answers, acl>> /\ Answers' = Answers
      /\ dialog.state = "ready"
  BY DEF RequestConfirmation, AtForm, Answers, CanAuthorize, CanRevoke
<1>2. DialogOK(dialog, opened) /\ dialog \in Dialogs /\ dialog.generation \in Nat
  BY <1>1, Zenon DEF DialogInv, DialogOK, Dialogs
<1>3. CASE SelectionValid
  <2> DEFINE i == <<dialog.user, dialog.check.about[2]>>
  <2>1. dialog' = [dialog EXCEPT !.confirm = what, !.intent = i]
    BY <1>3 DEF RequestConfirmation
  <2>2. dialog.check \in Checks
    BY <1>1, <1>2 DEF DialogOK
  <2>3. dialog.check.about \in Pairs
    BY <2>2 DEF Checks
  <2>4. i \in Pairs
    BY <1>2, <1>3, <2>3, Zenon DEF SelectionValid, Pairs, Dialogs, Typed
  <2> HIDE DEF i
  <2>5. /\ dialog' \in Dialogs /\ dialog'.user = dialog.user /\ dialog'.display = dialog.display
        /\ dialog'.generation = dialog.generation /\ dialog'.state = dialog.state
        /\ dialog'.check = dialog.check /\ dialog'.confirm = what /\ dialog'.intent = i
    BY <1>2, <2>1, <2>4, Zenon DEF Dialogs
  <2>6. DialogOK(dialog', opened)
    BY <1>2, <2>4, <2>5 DEF DialogOK
  <2> QED
    BY <1>1, <2>5, <2>6, DialogMoves DEF DialogInv
<1>4. CASE ~SelectionValid
  <2>1. PICK g \in Nat : g = dialog.generation + 1
    BY <1>2
  <2>2. dialog' = [dialog EXCEPT !.generation = g, !.state = "failed"]
    BY <1>4, <2>1 DEF RequestConfirmation
  <2>3. /\ dialog' \in Dialogs /\ dialog'.generation = g /\ dialog'.state = "failed"
        /\ dialog'.confirm = dialog.confirm /\ dialog'.intent = dialog.intent
    BY <1>2, <2>2, Zenon DEF Dialogs
  <2>4. DialogOK(dialog', opened)
    BY <1>2, <2>3 DEF DialogOK
  <2> QED
    BY <1>1, <2>1, <2>3, <2>4, DialogMoves DEF DialogInv
<1> QED
  BY <1>3, <1>4

\* A confirmation is withdrawn.
LEMMA WithdrawKeeps ==
    ASSUME DialogInv, Shown, dialog' = [dialog EXCEPT !.confirm = "no"],
           UNCHANGED <<opened, work, answers, acl>>
    PROVE  DialogInv'
<1>1. DialogOK(dialog, opened) /\ dialog \in Dialogs /\ Answers' = Answers
  BY DEF DialogInv, DialogOK, Answers
<1>2. /\ dialog' \in Dialogs /\ dialog'.user = dialog.user /\ dialog'.display = dialog.display
      /\ dialog'.generation = dialog.generation /\ dialog'.state = dialog.state
      /\ dialog'.check = dialog.check /\ dialog'.confirm = "no"
  BY <1>1 DEF Dialogs
<1>3. DialogOK(dialog', opened)
  BY <1>1, <1>2 DEF DialogOK
<1> QED
  BY <1>1, <1>2, <1>3, DialogMoves DEF DialogInv

\* A mutation gets the next generation and is about what was confirmed.
LEMMA ConfirmKeeps ==
    ASSUME DialogInv, NEW yes \in BOOLEAN, Confirm(yes)
    PROVE  DialogInv'
<1>1. /\ Shown /\ UNCHANGED <<opened, answers, acl>> /\ Answers' = Answers
      /\ dialog.confirm \in {"authorize", "revoke"}
  BY DEF Confirm, Answers
<1>2. DialogOK(dialog, opened) /\ dialog \in Dialogs /\ dialog.generation \in Nat /\ opened \in Nat
  BY <1>1, Zenon DEF DialogInv, DialogOK, Dialogs
<1>3. CASE yes
  <2> DEFINE t == Task(dialog.confirm, dialog.intent)
             d1 == [dialog EXCEPT !.confirm = "no"]
  <2>g. PICK g \in Nat : g = dialog.generation + 1
    BY <1>2
  <2>s. PICK s \in {"authorizing", "revoking"} :
            s = IF dialog.confirm = "authorize" THEN "authorizing" ELSE "revoking"
    OBVIOUS
  <2>T. PICK T \in SUBSET Operations : T = dialog.tracked \cup {dialog.confirm}
    BY <1>1, <1>2, Zenon DEF Dialogs, Operations
  <2> DEFINE d2 == [d1 EXCEPT !.generation = g]
             d3 == [d2 EXCEPT !.state = s]
  <2>2. work' = work \cup {t} /\ dialog' = [d3 EXCEPT !.tracked = T]
    BY <1>2, <1>3, <2>g, <2>s, <2>T DEF Confirm, Dialogs
  <2>3. d1 \in Dialogs /\ d1.confirm = "no"
    BY <1>2 DEF Dialogs
  <2> HIDE DEF d1
  <2>4. d2 \in Dialogs /\ d2.confirm = "no" /\ d2.generation = g
    BY <2>3 DEF Dialogs
  <2> HIDE DEF d2
  <2>5. d3 \in Dialogs /\ d3.confirm = "no" /\ d3.generation = g /\ d3.state = s
    BY <2>4 DEF Dialogs
  <2> HIDE DEF d3
  <2>6. /\ dialog' \in Dialogs /\ dialog'.confirm = "no" /\ dialog'.generation = g
        /\ dialog'.state # "ready"
    BY <2>2, <2>5 DEF Dialogs
  <2>7. DialogOK(dialog', opened)
    BY <2>6 DEF DialogOK
  <2>8. /\ t \in Tasks /\ t.dialog = opened /\ t.generation = g
        /\ t.what # "check"
    BY <1>1, <1>2, <2>g, Zenon DEF Task, Tasks, Operations, Dialogs, DialogOK
  <2> HIDE DEF t
  <2>12. g <= g
    BY ONLY g \in Nat
  <2>11. t.generation <= dialog'.generation
    BY <2>6, <2>8, <2>12, Zenon
  <2>9. Fits(t, dialog', opened)
    BY <2>8, <2>11, Zenon DEF Fits
  <2>10. \A s2 \in (work \cup Answers)' :
            \/ s2 \in work \cup Answers
            \/ s2 \in Tasks /\ s2.dialog <= opened /\ Fits(s2, dialog', opened)
    BY <1>1, <1>2, <2>2, <2>8, <2>9
  <2> QED
    BY <1>1, <2>g, <2>6, <2>7, <2>10, DialogMoves DEF DialogInv
<1>4. CASE ~yes
  BY <1>1, <1>4, WithdrawKeeps DEF Confirm
<1> QED
  BY <1>3, <1>4

\* A shell opens and closes the dialog, or its failure is shown.
LEMMA ShellKeeps ==
    ASSUME DialogInv, Shown, ShellOpens \/ ShellRejected
    PROVE  DialogInv'
<1>1. CASE ShellOpens
  BY <1>1, DialogGone DEF ShellOpens, WithoutCheck
<1>2. CASE ShellRejected
  <2>1. DialogOK(dialog, opened) /\ dialog \in Dialogs
    BY DEF DialogInv, DialogOK
  <2>2. /\ UNCHANGED <<opened, work, answers, acl>> /\ Answers' = Answers
        /\ dialog' = [dialog EXCEPT !.state = "failed", !.confirm = "no"]
    BY <1>2 DEF ShellRejected, Answers
  <2>3. /\ dialog' \in Dialogs /\ dialog'.user = dialog.user /\ dialog'.display = dialog.display
        /\ dialog'.generation = dialog.generation /\ dialog'.state = "failed"
        /\ dialog'.confirm = "no"
    BY <2>1, <2>2, Zenon DEF Dialogs
  <2>4. DialogOK(dialog', opened)
    BY <2>3 DEF DialogOK
  <2> QED
    BY <2>2, <2>3, <2>4, DialogMoves DEF DialogInv
<1> QED
  BY <1>1, <1>2

LEMMA EnterShellKeeps == DialogInv /\ EnterShell => DialogInv'
<1> SUFFICES ASSUME DialogInv, EnterShell PROVE DialogInv'
  OBVIOUS
<1>1. Shown
  BY DEF EnterShell, AtForm
<1>2. \/ ShellOpens \/ ShellRejected
      \/ /\ dialog' = [dialog EXCEPT !.confirm = "root"]
         /\ UNCHANGED <<opened, work, answers, acl>>
  BY DEF EnterShell
<1>3. CASE /\ dialog' = [dialog EXCEPT !.confirm = "root"]
           /\ UNCHANGED <<opened, work, answers, acl>>
  <2>1. DialogOK(dialog, opened) /\ dialog \in Dialogs /\ Answers' = Answers
    BY <1>1, <1>3 DEF DialogInv, DialogOK, Answers
  <2>2. /\ dialog' \in Dialogs /\ dialog'.user = dialog.user /\ dialog'.display = dialog.display
        /\ dialog'.generation = dialog.generation /\ dialog'.state = dialog.state
        /\ dialog'.check = dialog.check /\ dialog'.confirm = "root"
    BY <1>3, <2>1 DEF Dialogs
  <2>3. DialogOK(dialog', opened)
    BY <2>1, <2>2 DEF DialogOK
  <2> QED
    BY <1>1, <1>3, <2>1, <2>2, <2>3, DialogMoves DEF DialogInv
<1> QED
  BY <1>1, <1>2, <1>3, ShellKeeps

LEMMA ConfirmRootKeeps ==
    ASSUME DialogInv, NEW yes \in BOOLEAN, ConfirmRoot(yes)
    PROVE  DialogInv'
<1>1. CASE yes
  BY <1>1, ShellKeeps DEF ConfirmRoot
<1>2. CASE ~yes
  BY <1>2, WithdrawKeeps DEF ConfirmRoot
<1> QED
  BY <1>1, <1>2

-----------------------------------------------------------------------------
\* A task gets its result: it stays what it was about.
LEMMA ResultOfTask ==
    ASSUME DialogInv, NEW t \in work, NEW r \in Grants \cup {"error"},
           work' = (work \ {t}) \cup {[t EXCEPT !.result = r]},
           UNCHANGED <<dialog, opened, answers>>, acl' \in [Pairs -> Grants]
    PROVE  DialogInv'
<1> DEFINE s == [t EXCEPT !.result = r]
<1>1. t \in Tasks
  BY TasksTyped
<1>2. /\ s \in Tasks /\ s.dialog = t.dialog /\ s.generation = t.generation
      /\ s.what = t.what /\ s.about = t.about
  BY <1>1 DEF Tasks
<1> HIDE DEF s
<1>3. Answers' = Answers
  BY DEF Answers
<1>4. \A u \in (work \cup Answers)' : u \in work \cup Answers \/ u = s
  BY <1>3 DEF s
<1>5. ASSUME NEW u \in (work \cup Answers)'
      PROVE  /\ u \in Tasks
             /\ \E v \in work \cup Answers : /\ u.dialog = v.dialog /\ u.generation = v.generation
                                             /\ u.what = v.what /\ u.about = v.about
  BY <1>2, <1>4, TasksTyped
<1> QED
  BY <1>5, TasksMove DEF DialogInv

LEMMA TaskEndKeeps ==
    ASSUME DialogInv, NEW t \in work, CheckEnds(t) \/ MutationEnds(t)
    PROVE  DialogInv'
<1>1. acl \in [Pairs -> Grants] /\ t.about \in Pairs
  BY TasksTyped DEF DialogInv, Tasks
<1>2. UNCHANGED <<dialog, opened, answers>>
  BY DEF CheckEnds, MutationEnds
<1>3. CASE CheckEnds(t)
  <2>1. PICK r \in {acl[t.about], "error"} : work' = (work \ {t}) \cup {[t EXCEPT !.result = r]}
    BY <1>3 DEF CheckEnds
  <2>2. r \in Grants \cup {"error"}
    BY <1>1, <2>1
  <2>3. acl' \in [Pairs -> Grants]
    BY <1>1, <1>3 DEF CheckEnds
  <2> QED
    BY <1>2, <2>1, <2>2, <2>3, ResultOfTask
<1>4. CASE MutationEnds(t)
  <2>1. acl' \in [Pairs -> Grants]
    BY <1>1, <1>4 DEF MutationEnds, Grants
  <2>2. \E r \in Grants \cup {"error"} : work' = (work \ {t}) \cup {[t EXCEPT !.result = r]}
    <3>1. acl'[t.about] \in Grants
      BY <1>1, <2>1
    <3> QED
      BY <1>4, <3>1 DEF MutationEnds
  <2> QED
    BY <1>2, <2>1, <2>2, ResultOfTask
<1> QED
  BY <1>3, <1>4

LEMMA AppendedElement ==
    ASSUME NEW S, NEW s \in Seq(S), NEW e \in S, NEW i \in DOMAIN Append(s, e)
    PROVE  Append(s, e)[i] = e \/ (i \in DOMAIN s /\ Append(s, e)[i] = s[i])
OBVIOUS

LEMMA TailElement ==
    ASSUME NEW S, NEW s \in Seq(S), s # <<>>
    PROVE  /\ Tail(s) \in Seq(S) /\ 1 \in DOMAIN s /\ Head(s) = s[1]
           /\ \A i \in DOMAIN Tail(s) : i + 1 \in DOMAIN s /\ Tail(s)[i] = s[i + 1]
OBVIOUS

LEMMA PublishKeeps ==
    ASSUME DialogInv, NEW t \in work, Publish(t)
    PROVE  DialogInv'
<1>1. t \in Tasks /\ answers \in Seq(Tasks) /\ acl \in [Pairs -> Grants]
  BY TasksTyped DEF DialogInv
<1>2. /\ answers' = Append(answers, t) /\ work' = work \ {t} /\ UNCHANGED <<dialog, opened, acl>>
  BY DEF Publish
<1>3. answers' \in Seq(Tasks)
  BY <1>1, <1>2
<1>4. Answers' \subseteq Answers \cup {t}
  <2>1. ASSUME NEW i \in DOMAIN answers'
        PROVE  answers'[i] = t \/ (i \in DOMAIN answers /\ answers'[i] = answers[i])
    <3>1. i \in DOMAIN Append(answers, t)
      BY <1>2
    <3>2. \/ Append(answers, t)[i] = t
          \/ i \in DOMAIN answers /\ Append(answers, t)[i] = answers[i]
      <4>1. answers \in Seq(Tasks) /\ t \in Tasks
        BY <1>1, Zenon
      <4> QED
        BY ONLY <4>1, <3>1, AppendedElement
    <3> QED
      BY <1>2, <3>2, Zenon
  <2> QED
    BY <2>1, Zenon DEF Answers
<1>5. \A u \in (work \cup Answers)' : u \in work \cup Answers
  BY <1>2, <1>4
<1> QED
  BY <1>1, <1>2, <1>3, <1>5, TasksTyped, TasksMove

\* A result that waits is taken over only by the generation that asked for it.
LEMMA DeliverKeeps == DialogInv /\ DeliverAnswer => DialogInv'
<1> SUFFICES ASSUME DialogInv, DeliverAnswer PROVE DialogInv'
  OBVIOUS
<1> DEFINE e == Head(answers)
<1>1. /\ answers # <<>> /\ answers' = Tail(answers) /\ UNCHANGED <<opened, work, acl>>
      /\ answers \in Seq(Tasks) /\ acl \in [Pairs -> Grants] /\ opened \in Nat
  BY DEF DeliverAnswer, DialogInv
<1>2. answers' \in Seq(Tasks) /\ Answers' \subseteq Answers /\ e \in Answers
  <2>1. answers \in Seq(Tasks) /\ answers # <<>>
    BY <1>1
  <2>2. /\ Tail(answers) \in Seq(Tasks) /\ 1 \in DOMAIN answers /\ e = answers[1]
        /\ \A i \in DOMAIN Tail(answers) :
              i + 1 \in DOMAIN answers /\ Tail(answers)[i] = answers[i + 1]
    BY ONLY <2>1, TailElement
  <2>3. ASSUME NEW i \in DOMAIN answers' PROVE answers'[i] \in Answers
    <3>1. i + 1 \in DOMAIN answers /\ answers'[i] = answers[i + 1]
      BY <1>1, <2>2, Zenon
    <3> QED
      BY <3>1, Zenon DEF Answers
  <2>4. Answers' \subseteq Answers
    BY <2>3, Zenon DEF Answers
  <2>5. e \in Answers
    BY <2>2, Zenon DEF Answers
  <2> QED
    BY <1>1, <2>2, <2>4, <2>5, Zenon
<1>3. \A u \in (work \cup Answers)' : u \in work \cup Answers
  BY <1>1, <1>2
<1>4. CASE dialog' = dialog
  BY <1>1, <1>2, <1>3, <1>4, TasksTyped, TasksMove
<1>5. CASE dialog' # dialog
  <2>1. Shown /\ dialog' = Finished(e) /\ e.generation = dialog.generation
    BY <1>5 DEF DeliverAnswer, FinishTask
  <2>2. DialogOK(dialog, opened) /\ dialog \in Dialogs /\ Fits(e, dialog, opened) /\ e \in Tasks
    BY <1>2, <2>1, TasksTyped, Zenon DEF DialogInv, DialogOK
  <2> DEFINE c == [about |-> e.about, grant |-> e.result, of |-> <<e.what, e.dialog>>]
             T == dialog.tracked \ {e.what}
  <2>3. T \in SUBSET Operations
    BY <2>2 DEF Dialogs
  <2>4. CASE e.result = "error"
    <3>1. dialog' = [dialog EXCEPT !.state = "failed", !.check = dialog.check, !.tracked = T]
      BY <2>1, <2>4 DEF Finished
    <3> HIDE DEF T
    <3>2. /\ dialog' \in Dialogs /\ dialog'.user = dialog.user /\ dialog'.display = dialog.display
          /\ dialog'.generation = dialog.generation /\ dialog'.state = "failed"
          /\ dialog'.confirm = dialog.confirm /\ dialog'.intent = dialog.intent
      BY <2>2, <2>3, <3>1, Zenon DEF Dialogs
    <3>3. DialogOK(dialog', opened)
      BY <2>2, <3>2 DEF DialogOK
    <3> QED
      BY <1>1, <1>2, <1>3, <2>1, <3>2, <3>3, DialogMoves, Zenon
  <2>5. CASE e.result # "error"
    <3>1. dialog' = [dialog EXCEPT !.state = "ready", !.check = c, !.tracked = T]
      BY <2>1, <2>5 DEF Finished
    <3>2. /\ c \in Checks /\ c.about = e.about /\ c.of = <<e.what, e.dialog>>
      BY <2>2, <2>5 DEF Checks, Tasks
    <3> HIDE DEF T, c
    <3>3. /\ dialog' \in Dialogs /\ dialog'.user = dialog.user /\ dialog'.display = dialog.display
          /\ dialog'.generation = dialog.generation /\ dialog'.check = c
          /\ dialog'.confirm = dialog.confirm /\ dialog'.intent = dialog.intent
      BY <2>2, <2>3, <3>1, <3>2, Zenon DEF Dialogs
    <3>4. c.of = <<"check", opened>> => c.about = <<dialog.user, dialog.display>>
      <4> SUFFICES ASSUME c.of = <<"check", opened>>
                   PROVE  c.about = <<dialog.user, dialog.display>>
        OBVIOUS
      <4>1. e.what = "check" /\ e.dialog = opened
        BY <3>2
      <4> QED
        BY <2>1, <2>2, <3>2, <4>1 DEF Fits
    <3>5. DialogOK(dialog', opened)
      BY <2>2, <3>2, <3>3, <3>4, Zenon DEF DialogOK
    <3> QED
      BY <1>1, <1>2, <1>3, <2>1, <3>3, <3>5, DialogMoves
  <2> QED
    BY <2>4, <2>5
<1> QED
  BY <1>4, <1>5

\* A check of the present generation is about the present selection, wherever
\* it is: running, in the event queue or shown.
THEOREM DialogInvariant == DialogSpec => []DialogInv
<1>1. DialogInit => DialogInv
  <2> SUFFICES ASSUME DialogInit PROVE DialogInv
    OBVIOUS
  <2>1. /\ opened = 0 /\ work = {} /\ answers = <<>> /\ ~Shown
        /\ acl \in [Pairs -> Grants]
    BY DEF DialogInit, Shown, Grants
  <2>2. answers \in Seq(Tasks) /\ Answers = {}
    BY <2>1 DEF Answers
  <2> QED
    BY <2>1, <2>2 DEF DialogInv, TasksOK
<1>2. DialogInv /\ [DialogNext]_dialogVars => DialogInv'
  <2> SUFFICES ASSUME DialogInv, [DialogNext]_dialogVars PROVE DialogInv'
    OBVIOUS
  <2>1. CASE \E k \in {"x11", "wayland"}, d \in Displays : OpenAccessDialog(k, d)
    BY <2>1, OpenKeeps
  <2>2. CASE CloseDialog
    BY <2>2, DialogGone DEF CloseDialog, WithoutCheck
  <2>3. CASE \E u \in Typed, d \in Displays : ChangeSelection(u, d)
    BY <2>3, SelectionKeeps
  <2>4. CASE RequestCheck
    BY <2>4, CheckKeeps
  <2>5. CASE \E w \in {"authorize", "revoke"} : RequestConfirmation(w)
    BY <2>5, AskingKeeps
  <2>6. CASE \E yes \in BOOLEAN : Confirm(yes) \/ ConfirmRoot(yes)
    BY <2>6, ConfirmKeeps, ConfirmRootKeeps
  <2>7. CASE EnterShell
    BY <2>7, EnterShellKeeps
  <2>8. CASE ReopenView \/ UNCHANGED dialogVars
    <3>1. UNCHANGED <<dialog, opened, work, answers, acl>>
      BY <2>8 DEF ReopenView, dialogVars
    <3>2. Answers' = Answers
      BY <3>1 DEF Answers
    <3> QED
      BY <3>1, <3>2, TasksTyped, TasksMove DEF DialogInv
  <2>9. CASE \E t \in work : CheckEnds(t) \/ MutationEnds(t) \/ Publish(t)
    BY <2>9, TaskEndKeeps, PublishKeeps
  <2>10. CASE DeliverAnswer
    BY <2>10, DeliverKeeps
  <2> QED
    BY <2>1, <2>2, <2>3, <2>4, <2>5, <2>6, <2>7, <2>8, <2>9, <2>10 DEF DialogNext
<1> QED
  BY <1>1, <1>2, PTL DEF DialogSpec

\* ReadyMatchesSelection holds for any users, displays and bounds: a check is
\* shown only beside the user and the display it is about (invalidate_check,
\* finish_check).
THEOREM ReadyAlwaysMatches == DialogSpec => []ReadyMatchesSelection
<1>1. DialogInv => ReadyMatchesSelection
  BY DEF DialogInv, DialogOK, ReadyMatchesSelection, Selected
<1> QED
  BY <1>1, DialogInvariant, PTL
=============================================================================
