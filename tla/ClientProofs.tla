---------------------------- MODULE ClientProofs -----------------------------
(* Proofs that the client and its user are told the truth: by the control    *)
(* channel to the root daemon (ElevatedRpc), for any calls, claims and       *)
(* capacities, by the code that runs a command and stops it (ChildProcess),  *)
(* and by the main screen (Workspace), for any machines and images.          *)
EXTENDS ElevatedRpc, ChildProcess, Workspace, TLAPS

Elems(q) == {q[i] : i \in 1 .. Len(q)}
Once(q) == \A i, j \in 1 .. Len(q) : q[i] = q[j] => i = j

CallState ==
    [pc : {"idle", "sending", "waiting", "returned"},
     result : {"none", "not submitted", "broken", "timeout", "ok", "busy", "limit"}]
Frame == [call : Calls, part : {"head", "tail"}]
Driver ==
    [pc : {"select", "write", "gone"}, call : Calls \cup {Nothing}, partial : Calls \cup {Nothing}]
PumpState == [pc : {"read", "reject", "drain", "exited"}, call : Calls \cup {Nothing}]

RpcTypeOK ==
    /\ call \in [Calls -> CallState]
    /\ queue \in Seq(Calls) /\ up \in Seq(Calls) /\ out \in Seq(Calls)
    /\ down \in Seq(Frame)
    /\ driver \in Driver
    /\ driver.pc = "write" => driver.call \in Calls
    /\ pending \subseteq Calls /\ held \subseteq Calls
    /\ daemon \in PumpState
    /\ daemon.pc = "reject" => daemon.call \in Calls
    /\ task \in [Calls -> {"none", "running", "responding", "done"}]
    /\ answer \in [Calls -> {"none", "ok", "busy", "limit"}]
    /\ writer \in Calls \cup {Nothing}

\* A request is in one place at a time, and in none once the daemon has
\* admitted or refused it: it is answered once.
InOnePlace ==
    /\ Once(queue) /\ Once(up)
    /\ \A c \in Elems(queue) : c \notin Elems(up) /\ ~ (driver.pc = "write" /\ driver.call = c)
    /\ driver.pc = "write" => driver.call \notin Elems(up)

\* Only a call that was submitted is in a place or has an answer.
Submitted(c) == call[c].pc \in {"waiting", "returned"} /\ call[c].result # "not submitted"
Travels(c) ==
    \/ c \in Elems(queue) \/ c \in Elems(up)
    \/ driver.pc = "write" /\ driver.call = c
OnlySubmitted ==
    \A c \in Calls : /\ Travels(c) => answer[c] = "none" /\ Submitted(c)
                     /\ answer[c] # "none" => Submitted(c)
                     /\ call[c].result # "none" => call[c].pc = "returned"

\* What the daemon does for a call is what it answers.
TaskIsAnswered ==
    /\ \A c \in Calls : task[c] # "none" => answer[c] = "ok"
    /\ \A c \in held : task[c] = "running"
    /\ daemon.pc = "reject" => answer[daemon.call] \in {"busy", "limit"}

\* Nothing is sent before it is known.
Sent(c) == answer[c] # "none" /\ (answer[c] = "ok" => task[c] \in {"responding", "done"})
OnlyKnownIsSent ==
    /\ \A c \in Elems(out) : Sent(c)
    /\ \A f \in Elems(down) : Sent(f.call)
    /\ writer # Nothing => Sent(writer)
    /\ driver.partial # Nothing => Sent(driver.partial)
    /\ \A c \in Calls : call[c].result \in {"ok", "busy", "limit"} =>
          Sent(c) /\ answer[c] = call[c].result

ExitNotBegun == exiter = "idle" => call[Exit].pc = "idle"

RpcInv ==
    /\ RpcTypeOK /\ InOnePlace /\ OnlySubmitted /\ TaskIsAnswered /\ OnlyKnownIsSent
    /\ ExitNotBegun

-----------------------------------------------------------------------------
(* Sequences.                                                              *)

LEMMA Appended ==
    ASSUME NEW S, NEW q \in Seq(S), NEW x \in S
    PROVE  /\ Append(q, x) \in Seq(S) /\ Elems(Append(q, x)) = Elems(q) \cup {x}
           /\ Once(q) /\ x \notin Elems(q) => Once(Append(q, x))
<1>1. /\ Append(q, x) \in Seq(S) /\ Len(Append(q, x)) = Len(q) + 1 /\ Len(q) \in Nat
      /\ \A i \in 1 .. Len(q) : Append(q, x)[i] = q[i]
      /\ Append(q, x)[Len(q) + 1] = x
  OBVIOUS
<1> DEFINE r == Append(q, x)
           n == Len(q)
<1>2. /\ r \in Seq(S) /\ Len(r) = n + 1 /\ n \in Nat /\ r[n + 1] = x
      /\ \A i \in 1 .. n : r[i] = q[i]
  BY <1>1
<1>3. \A i : i \in 1 .. n + 1 <=> i \in 1 .. n \/ i = n + 1
  BY <1>2
<1> HIDE DEF r
<1>4. Elems(r) = Elems(q) \cup {x}
  BY <1>2, <1>3 DEF Elems
<1>5. Once(q) /\ x \notin Elems(q) => Once(r)
  BY <1>2, <1>3 DEF Elems, Once
<1> QED
  BY <1>2, <1>4, <1>5 DEF r

LEMMA TookHead ==
    ASSUME NEW S, NEW q \in Seq(S), q # <<>>
    PROVE  /\ Tail(q) \in Seq(S) /\ Head(q) \in S /\ Head(q) \in Elems(q)
           /\ Elems(Tail(q)) \subseteq Elems(q)
           /\ Once(q) => Once(Tail(q)) /\ Head(q) \notin Elems(Tail(q))
<1>1. /\ Tail(q) \in Seq(S) /\ Head(q) \in S /\ Head(q) = q[1]
      /\ Len(q) \in Nat /\ Len(q) >= 1 /\ Len(Tail(q)) = Len(q) - 1
      /\ \A i \in 1 .. Len(Tail(q)) : Tail(q)[i] = q[i + 1]
  OBVIOUS
<1> DEFINE t == Tail(q)
           n == Len(q)
<1>2. /\ n \in Nat /\ n >= 1 /\ Len(t) = n - 1 /\ Head(q) = q[1]
      /\ \A i \in 1 .. n - 1 : t[i] = q[i + 1] /\ i + 1 \in 1 .. n /\ i + 1 # 1
  BY <1>1
<1> HIDE DEF t
<1>3. Head(q) \in Elems(q)
  BY <1>2 DEF Elems
<1>4. Elems(t) \subseteq Elems(q)
  BY <1>2 DEF Elems
<1>5. Once(q) => Head(q) \notin Elems(t)
  BY <1>2 DEF Elems, Once
<1>6. Once(q) => Once(t)
  <2> SUFFICES ASSUME Once(q), NEW i \in 1 .. n - 1, NEW j \in 1 .. n - 1, t[i] = t[j]
               PROVE  i = j
    BY <1>2 DEF Once
  <2>1. q[i + 1] = q[j + 1] /\ i + 1 \in 1 .. n /\ j + 1 \in 1 .. n
    BY <1>2
  <2>2. i + 1 = j + 1
    BY <2>1 DEF Once
  <2> QED
    BY <2>2
<1> QED
  BY <1>1, <1>3, <1>4, <1>5, <1>6 DEF t

LEMMA NoElements == Elems(<<>>) = {} /\ Once(<<>>) /\ \A S : <<>> \in Seq(S)
<1>1. Len(<<>>) = 0 /\ 1 .. 0 = {}
  OBVIOUS
<1> QED
  BY <1>1 DEF Elems, Once

LEMMA ElementsIn == ASSUME NEW S, NEW q \in Seq(S) PROVE Elems(q) \subseteq S
  BY DEF Elems

-----------------------------------------------------------------------------
(* The calls.                                                              *)

\* Values of the records that the steps build.
LEMMA Values ==
    /\ \A e \in {"not submitted", "broken", "timeout", "ok", "busy", "limit"} :
          /\ Returned(e) \in CallState
          /\ Returned(e).pc = "returned" /\ Returned(e).result = e
    /\ \A c \in Calls \cup {Nothing} :
          /\ Select(c) \in Driver /\ Select(c).pc = "select" /\ Select(c).partial = c
<1>1. ASSUME NEW e \in {"not submitted", "broken", "timeout", "ok", "busy", "limit"}
      PROVE  /\ Returned(e) \in CallState
             /\ Returned(e).pc = "returned" /\ Returned(e).result = e
  BY Zenon DEF Returned, CallState
<1>2. ASSUME NEW c \in Calls \cup {Nothing}
      PROVE  /\ Select(c) \in Driver /\ Select(c).pc = "select" /\ Select(c).partial = c
  BY DEF Select, Driver
<1> QED
  BY <1>1, <1>2, Zenon

LEMMA RpcInitially == RpcInit => RpcInv
<1> SUFFICES ASSUME RpcInit PROVE RpcInv
  OBVIOUS
<1>1. Select(Nothing) \in Driver /\ Select(Nothing).pc = "select" /\ Select(Nothing).partial = Nothing
  BY Values, Zenon
<1>2. \A c \in Calls : call[c] \in CallState /\ call[c].pc = "idle" /\ call[c].result = "none"
  BY DEF RpcInit, CallState
<1>3. call \in [Calls -> CallState]
  BY <1>2 DEF RpcInit
<1>4. daemon \in PumpState /\ daemon.pc = "read"
  BY DEF RpcInit, PumpState
<1>5. RpcTypeOK
  BY <1>1, <1>3, <1>4, NoElements DEF RpcInit, RpcTypeOK
<1>6. InOnePlace
  BY <1>1, NoElements DEF RpcInit, InOnePlace
<1>7. OnlySubmitted
  BY <1>1, <1>2, NoElements DEF RpcInit, OnlySubmitted, Travels
<1>8. TaskIsAnswered
  BY <1>4 DEF RpcInit, TaskIsAnswered
<1>9. OnlyKnownIsSent
  BY <1>1, <1>2, NoElements DEF RpcInit, OnlyKnownIsSent
<1>10. ExitNotBegun
  BY <1>2, CallSet DEF RpcInit, ExitNotBegun
<1> QED
  BY <1>5, <1>6, <1>7, <1>8, <1>9, <1>10 DEF RpcInv

\* A call moves by itself and is told nothing of the daemon.
LEMMA CallMoves ==
    ASSUME RpcInv, NEW c \in Calls, NEW v \in CallState, call' = [call EXCEPT ![c] = v],
           UNCHANGED <<queue, driver, pending, up, down, daemonVars>>,
           v.result \notin {"ok", "busy", "limit"}, v.result # "none" => v.pc = "returned",
           Travels(c) \/ answer[c] # "none" => v.pc \in {"waiting", "returned"} /\ v.result # "not submitted",
           exiter' = "idle" => exiter = "idle" /\ c # Exit
    PROVE  RpcInv'
<1>1. UNCHANGED <<queue, driver, pending, up, down, daemon, task, answer, held, out, writer>>
  BY Zenon DEF daemonVars
<1>2. /\ call' \in [Calls -> CallState] /\ call'[c] = v
      /\ \A d \in Calls \ {c} : call'[d] = call[d]
  BY Zenon DEF RpcInv, RpcTypeOK
<1>3. RpcTypeOK'
  BY <1>1, <1>2, Zenon DEF RpcInv, RpcTypeOK
<1>4. InOnePlace'
  BY <1>1, Zenon DEF RpcInv, InOnePlace
<1>5. \A d \in Calls : Travels(d)' <=> Travels(d)
  BY <1>1, Zenon DEF Travels
<1>6. OnlySubmitted'
  <2> SUFFICES ASSUME NEW d \in Calls
               PROVE  /\ Travels(d) => answer[d] = "none" /\ Submitted(d)'
                      /\ answer[d] # "none" => Submitted(d)'
                      /\ call'[d].result # "none" => call'[d].pc = "returned"
    BY <1>1, <1>5, Zenon DEF OnlySubmitted
  <2>1. CASE d = c
    BY <1>2, <2>1, Zenon DEF RpcInv, OnlySubmitted, Submitted
  <2>2. CASE d # c
    BY <1>2, <2>2, Zenon DEF RpcInv, OnlySubmitted, Submitted
  <2> QED
    BY <2>1, <2>2, Zenon
<1>7. TaskIsAnswered'
  BY <1>1, Zenon DEF RpcInv, TaskIsAnswered
<1>8. \A d : Sent(d)' <=> Sent(d)
  BY <1>1, Zenon DEF Sent
<1>9. OnlyKnownIsSent'
  <2>1. \A d \in Calls : call'[d].result \in {"ok", "busy", "limit"} =>
            call'[d] = call[d]
    BY <1>2, Zenon
  <2> QED
    BY <1>1, <1>8, <2>1, Zenon DEF RpcInv, OnlyKnownIsSent
<1>10. ExitNotBegun'
  BY <1>2, CallSet, Zenon DEF RpcInv, ExitNotBegun, RpcTypeOK
<1> QED
  BY <1>3, <1>4, <1>6, <1>7, <1>9, <1>10, Zenon DEF RpcInv

LEMMA AskKeeps == ASSUME RpcInv, Ask PROVE RpcInv'
<1>1. ASSUME NEW c \in Calls, call[c].pc = "idle", call' = [call EXCEPT ![c].pc = "sending"],
             UNCHANGED <<queue, driver, pending, up, down, daemonVars>>,
             exiter' = "idle" => exiter = "idle" /\ c # Exit
      PROVE  RpcInv'
  <2> DEFINE v == [call[c] EXCEPT !.pc = "sending"]
  <2>1. call[c] \in CallState
    BY DEF RpcInv, RpcTypeOK
  <2>2. v \in CallState /\ v.pc = "sending" /\ v.result = call[c].result
    BY <2>1, Zenon DEF CallState
  <2>3. call[c].result = "none" /\ ~ Travels(c) /\ answer[c] = "none"
    BY <1>1, Zenon DEF RpcInv, OnlySubmitted, Submitted
  <2>4. call' = [call EXCEPT ![c] = v]
    BY <1>1 DEF RpcInv, RpcTypeOK
  <2> HIDE DEF v
  <2> QED
    BY <1>1, <2>2, <2>3, <2>4, CallMoves, Zenon
<1>2. CASE \E c \in Calls : Begin(c) /\ UNCHANGED <<driver, pending, permit, launcher, up, down, daemonVars>>
  BY <1>1, <1>2, Zenon DEF Begin
<1>3. CASE ExitBegin /\ UNCHANGED <<driver, pending, launcher, up, down, daemonVars>>
  BY <1>1, <1>3, CallSet, Zenon DEF ExitBegin, RpcInv, ExitNotBegun
<1> QED
  BY <1>2, <1>3 DEF Ask

LEMMA EnqueueKeeps ==
    ASSUME RpcInv, NEW c \in Calls, Enqueue(c),
           UNCHANGED <<driver, pending, permit, launcher, up, down, daemonVars>>
    PROVE  RpcInv'
<1> DEFINE v == [call[c] EXCEPT !.pc = "waiting"]
<1>1. /\ call[c].pc = "sending" /\ queue' = Append(queue, c)
      /\ UNCHANGED <<exiter, driver, pending, up, down, daemon, task, answer, held, out, writer>>
  BY DEF Enqueue, daemonVars
<1>2. call[c] \in CallState /\ queue \in Seq(Calls)
  BY DEF RpcInv, RpcTypeOK
<1>3. v \in CallState /\ v.pc = "waiting" /\ v.result = call[c].result
  BY <1>2, Zenon DEF CallState
<1>4. call[c].result = "none" /\ ~ Travels(c) /\ answer[c] = "none"
  BY <1>1, Zenon DEF RpcInv, OnlySubmitted, Submitted
<1>5. call' = [call EXCEPT ![c] = v]
  BY DEF Enqueue, RpcInv, RpcTypeOK
<1> HIDE DEF v
<1>6. /\ call' \in [Calls -> CallState] /\ call'[c] = v
      /\ \A d \in Calls \ {c} : call'[d] = call[d]
  BY <1>3, <1>5 DEF RpcInv, RpcTypeOK
<1>7. c \notin Elems(queue)
  BY <1>4 DEF Travels
<1>8. /\ queue' \in Seq(Calls) /\ Elems(queue') = Elems(queue) \cup {c}
      /\ Once(queue) => Once(queue')
  BY <1>1, <1>2, <1>7, Appended
<1>9. RpcTypeOK'
  BY <1>1, <1>6, <1>8 DEF RpcInv, RpcTypeOK
<1>10. InOnePlace'
  BY <1>1, <1>4, <1>8 DEF RpcInv, InOnePlace, Travels
<1>11. \A d \in Calls : Travels(d)' <=> Travels(d) \/ d = c
  BY <1>1, <1>8 DEF Travels
<1>12. OnlySubmitted'
  BY <1>1, <1>3, <1>4, <1>6, <1>11, Zenon DEF RpcInv, OnlySubmitted, Submitted
<1>13. TaskIsAnswered'
  BY <1>1 DEF RpcInv, TaskIsAnswered
<1>14. \A d : Sent(d)' <=> Sent(d)
  BY <1>1 DEF Sent
<1>15. OnlyKnownIsSent'
  <2>1. \A d \in Calls : call'[d].result = call[d].result
    BY <1>3, <1>6
  <2> QED
    BY <1>1, <1>14, <2>1 DEF RpcInv, OnlyKnownIsSent
<1>16. ExitNotBegun'
  BY <1>1, <1>6, CallSet DEF RpcInv, ExitNotBegun
<1> QED
  BY <1>9, <1>10, <1>12, <1>13, <1>15, <1>16 DEF RpcInv

LEMMA CallStepKeeps == ASSUME RpcInv, NEW c \in Calls, CallStep(c) PROVE RpcInv'
<1>1. CASE Enqueue(c)
  BY <1>1, EnqueueKeeps DEF CallStep
<1>2. ASSUME call[c].pc = "sending" \/ (Waiting(c) /\ call' = [call EXCEPT ![c] = Returned("timeout")]),
             \E e \in {"not submitted", "broken", "timeout"} : call' = [call EXCEPT ![c] = Returned(e)],
             UNCHANGED <<queue, driver, pending, up, down, daemonVars>>, exiter' = exiter
      PROVE  RpcInv'
  <2>1. PICK e \in {"not submitted", "broken", "timeout"} :
            call' = [call EXCEPT ![c] = Returned(e)] /\ (Waiting(c) => e = "timeout")
    <3>1. Waiting(c) => call' = [call EXCEPT ![c] = Returned("timeout")]
      BY <1>2, Zenon DEF Waiting
    <3> QED
      BY <1>2, <3>1, Zenon
  <2>2. Returned(e) \in CallState /\ Returned(e).pc = "returned" /\ Returned(e).result = e
    BY Values, Zenon
  <2>3. call[c].pc = "sending" => ~ Travels(c) /\ answer[c] = "none"
    BY Zenon DEF RpcInv, OnlySubmitted, Submitted
  <2>4. exiter = "idle" => c # Exit
    BY <1>2, Zenon DEF RpcInv, ExitNotBegun, Waiting
  <2>5. Travels(c) \/ answer[c] # "none" => e # "not submitted"
    BY <1>2, <2>1, <2>3, Zenon
  <2> QED
    BY <1>2, <2>1, <2>2, <2>4, <2>5, CallMoves, Zenon
<1>3. CASE QueueTimeout(c) \/ QueueClosed(c) \/ ResponseTimeout(c)
  BY <1>2, <1>3, Zenon DEF CallStep, QueueTimeout, QueueClosed, ResponseTimeout
<1> QED
  BY <1>1, <1>3 DEF CallStep

\* exit() waiting, the launcher and the end of the daemon's pump leave alone
\* what the invariant speaks of.
LEMMA IdleKeeps ==
    ASSUME RpcInv,
           UNCHANGED <<call, queue, driver, up, down, task, answer, held, out, writer>>,
           pending' \subseteq pending,
           daemon' = daemon \/ (daemon' \in PumpState /\ daemon'.pc # "reject"),
           exiter' = "idle" => exiter = "idle"
    PROVE  RpcInv'
<1>1. RpcTypeOK'
  BY DEF RpcInv, RpcTypeOK
<1>2. InOnePlace'
  BY DEF RpcInv, InOnePlace
<1>3. OnlySubmitted'
  BY Zenon DEF RpcInv, OnlySubmitted, Travels, Submitted
<1>4. TaskIsAnswered'
  BY DEF RpcInv, TaskIsAnswered
<1>5. OnlyKnownIsSent'
  BY DEF RpcInv, OnlyKnownIsSent, Sent
<1>6. ExitNotBegun'
  BY DEF RpcInv, ExitNotBegun
<1> QED
  BY <1>1, <1>2, <1>3, <1>4, <1>5, <1>6 DEF RpcInv

-----------------------------------------------------------------------------
(* The connection task.                                                    *)

\* The exchange moves the queue, the socket, its own position and the answers
\* of calls; what the daemon has decided stays.
LEMMA ExchangeKeeps ==
    ASSUME RpcInv, UNCHANGED <<exiter, daemonVars>>,
           call' \in [Calls -> CallState], queue' \in Seq(Calls), up' \in Seq(Calls),
           down' \in Seq(Frame), driver' \in Driver, pending' \subseteq Calls,
           driver'.pc = "write" => driver'.call \in Calls,
           InOnePlace',
           \A c \in Calls : Travels(c)' => Travels(c),
           \A c \in Calls : call'[c] # call[c] =>
                /\ Waiting(c)
                /\ \E e \in {"broken", "ok", "busy", "limit"} :
                      /\ call'[c] = Returned(e)
                      /\ e # "broken" => Sent(c) /\ answer[c] = e,
           Elems(down') \subseteq Elems(down),
           driver'.partial # Nothing => Sent(driver'.partial)
    PROVE  RpcInv'
<1>1. UNCHANGED <<daemon, task, answer, held, out, writer>>
  BY DEF daemonVars
<1>2. RpcTypeOK'
  BY <1>1 DEF RpcInv, RpcTypeOK
<1>3. ASSUME NEW c \in Calls, call'[c] # call[c]
      PROVE  /\ call'[c].pc = "returned" /\ call'[c].result \in {"broken", "ok", "busy", "limit"}
             /\ call[c].pc = "waiting"
             /\ call'[c].result # "broken" => Sent(c) /\ answer[c] = call'[c].result
  <2>1. PICK e \in {"broken", "ok", "busy", "limit"} :
            Waiting(c) /\ call'[c] = Returned(e) /\ (e # "broken" => Sent(c) /\ answer[c] = e)
    BY <1>3
  <2>2. Returned(e).pc = "returned" /\ Returned(e).result = e
    BY Values, Zenon
  <2> QED
    BY <2>1, <2>2 DEF Waiting
<1>4. OnlySubmitted'
  <2> SUFFICES ASSUME NEW c \in Calls
               PROVE  /\ Travels(c)' => answer[c] = "none" /\ Submitted(c)'
                      /\ answer[c] # "none" => Submitted(c)'
                      /\ call'[c].result # "none" => call'[c].pc = "returned"
    BY <1>1 DEF OnlySubmitted
  <2>1. CASE call'[c] = call[c]
    BY <2>1, Zenon DEF RpcInv, OnlySubmitted, Submitted
  <2>2. CASE call'[c] # call[c]
    <3>1. /\ call'[c].pc = "returned" /\ call'[c].result \in {"broken", "ok", "busy", "limit"}
      BY <1>3, <2>2
    <3>2. Travels(c)' => answer[c] = "none"
      BY DEF RpcInv, OnlySubmitted
    <3>3. Submitted(c)'
      BY <3>1, Zenon DEF Submitted
    <3> QED
      BY <3>1, <3>2, <3>3
  <2> QED
    BY <2>1, <2>2
<1>5. TaskIsAnswered'
  BY <1>1 DEF RpcInv, TaskIsAnswered
<1>6. \A c : Sent(c)' <=> Sent(c)
  BY <1>1 DEF Sent
<1>7. OnlyKnownIsSent'
  <2>1. ASSUME NEW c \in Calls, call'[c].result \in {"ok", "busy", "limit"}
        PROVE  Sent(c) /\ answer[c] = call'[c].result
    <3>1. CASE call'[c] = call[c]
      BY <2>1, <3>1 DEF RpcInv, OnlyKnownIsSent
    <3>2. CASE call'[c] # call[c]
      BY <1>3, <2>1, <3>2
    <3> QED
      BY <3>1, <3>2
  <2>2. (\A c \in Elems(out) : Sent(c)) /\ (writer # Nothing => Sent(writer))
        /\ \A f \in Elems(down) : Sent(f.call)
    BY DEF RpcInv, OnlyKnownIsSent
  <2> QED
    BY <1>1, <1>6, <2>1, <2>2 DEF OnlyKnownIsSent
<1>8. ExitNotBegun'
  <2>1. call[Exit].pc = "idle" => call'[Exit] = call[Exit]
    BY <1>3, CallSet
  <2> QED
    BY <2>1 DEF RpcInv, ExitNotBegun
<1> QED
  BY <1>2, <1>4, <1>5, <1>7, <1>8 DEF RpcInv

LEMMA HangsKeeps ==
    ASSUME RpcInv, Hangs, UNCHANGED <<up, exiter, daemonVars>>
    PROVE  RpcInv'
<1>1. /\ driver' = [Select(Nothing) EXCEPT !.pc = "gone"] /\ queue' = <<>> /\ pending' = {}
      /\ down' = <<>>
      /\ call' = [c \in Calls |-> IF Waiting(c) THEN Returned("broken") ELSE call[c]]
  BY DEF Hangs
<1>2. driver' \in Driver /\ driver'.pc = "gone" /\ driver'.partial = Nothing
  BY <1>1 DEF Select, Driver
<1>3. /\ \A c \in Calls : call'[c] # call[c] => Waiting(c) /\ call'[c] = Returned("broken")
      /\ call' \in [Calls -> CallState]
  BY <1>1, Values, Zenon DEF RpcInv, RpcTypeOK
<1>4. InOnePlace'
  BY <1>1, <1>2, NoElements DEF RpcInv, InOnePlace
<1>5. \A c \in Calls : Travels(c)' => Travels(c)
  BY <1>1, <1>2, NoElements DEF Travels
<1>6. queue' \in Seq(Calls) /\ down' \in Seq(Frame) /\ up' \in Seq(Calls) /\ pending' \subseteq Calls
      /\ Elems(down') \subseteq Elems(down)
  BY <1>1, NoElements DEF RpcInv, RpcTypeOK
<1> QED
  BY <1>2, <1>3, <1>4, <1>5, <1>6, ExchangeKeeps

LEMMA TakeRequestKeeps ==
    ASSUME RpcInv, TakeRequest, UNCHANGED <<exiter, daemonVars>>
    PROVE  RpcInv'
<1> DEFINE h == Head(queue)
           w == [pc |-> "write", call |-> h, partial |-> Nothing]
<1>1. /\ driver.pc = "select" /\ queue # <<>> /\ queue' = Tail(queue)
      /\ driver' = w \/ driver' = Select(Nothing)
      /\ UNCHANGED <<call, pending, up, down>>
  BY DEF TakeRequest
<1>2. /\ queue \in Seq(Calls) /\ up \in Seq(Calls) /\ down \in Seq(Frame) /\ pending \subseteq Calls
      /\ call \in [Calls -> CallState] /\ Once(queue) /\ Once(up)
  BY DEF RpcInv, RpcTypeOK, InOnePlace
<1>3. /\ queue' \in Seq(Calls) /\ h \in Calls /\ h \in Elems(queue) /\ Elems(queue') \subseteq Elems(queue)
      /\ Once(queue') /\ h \notin Elems(queue')
  BY <1>1, <1>2, TookHead
<1> HIDE DEF h
<1>4. w \in Driver /\ w.pc = "write" /\ w.call = h /\ w.partial = Nothing
  BY <1>3 DEF Driver
<1>5. Select(Nothing) \in Driver /\ Select(Nothing).pc = "select" /\ Select(Nothing).partial = Nothing
  BY Values, Zenon
<1> HIDE DEF w
<1>6. /\ driver' \in Driver /\ driver'.partial = Nothing
      /\ driver'.pc = "write" => driver'.call = h
  BY <1>1, <1>4, <1>5
<1>7. InOnePlace'
  BY <1>1, <1>2, <1>3, <1>6 DEF RpcInv, InOnePlace
<1>8. \A c \in Calls : Travels(c)' => Travels(c)
  BY <1>1, <1>3, <1>6 DEF Travels
<1> QED
  BY <1>1, <1>2, <1>3, <1>6, <1>7, <1>8, ExchangeKeeps

LEMMA WriteRequestKeeps ==
    ASSUME RpcInv, WriteRequest, UNCHANGED <<exiter, daemonVars>>
    PROVE  RpcInv'
<1>1. CASE Hangs /\ UNCHANGED up
  BY <1>1, HangsKeeps
<1>2. CASE ~ (Hangs /\ UNCHANGED up)
  <2>1. /\ driver.pc = "write" /\ up' = Append(up, driver.call) /\ driver' = Select(Nothing)
        /\ pending' \subseteq pending \cup {driver.call}
        /\ UNCHANGED <<call, queue, down>>
    BY <1>2 DEF WriteRequest
  <2>2. /\ queue \in Seq(Calls) /\ up \in Seq(Calls) /\ down \in Seq(Frame) /\ pending \subseteq Calls
        /\ call \in [Calls -> CallState] /\ driver.call \in Calls
        /\ Once(up) /\ driver.call \notin Elems(up) /\ Once(queue)
    BY <2>1 DEF RpcInv, RpcTypeOK, InOnePlace
  <2>3. /\ up' \in Seq(Calls) /\ Elems(up') = Elems(up) \cup {driver.call} /\ Once(up')
    BY <2>1, <2>2, Appended
  <2>4. driver' \in Driver /\ driver'.pc = "select" /\ driver'.partial = Nothing
    BY <2>1, Values, Zenon
  <2>5. InOnePlace'
    BY <2>1, <2>2, <2>3, <2>4 DEF RpcInv, InOnePlace
  <2>6. \A c \in Calls : Travels(c)' => Travels(c)
    BY <2>1, <2>3, <2>4 DEF Travels
  <2>7. pending' \subseteq Calls
    BY <2>1, <2>2
  <2> QED
    BY <2>1, <2>2, <2>3, <2>4, <2>5, <2>6, <2>7, ExchangeKeeps
<1> QED
  BY <1>1, <1>2

LEMMA ReadKeeps ==
    ASSUME RpcInv, Sweep \/ ReadSome \/ ReadLine, UNCHANGED <<exiter, daemonVars>>
    PROVE  RpcInv'
<1>1. /\ driver.pc = "select" /\ UNCHANGED <<queue, up>> /\ pending' \subseteq pending
      /\ down' = down \/ (down # <<>> /\ down' = Tail(down))
  BY DEF Sweep, ReadSome, ReadLine, Route
<1>2. /\ queue \in Seq(Calls) /\ up \in Seq(Calls) /\ down \in Seq(Frame) /\ pending \subseteq Calls
      /\ call \in [Calls -> CallState] /\ driver \in Driver /\ answer \in [Calls -> {"none", "ok", "busy", "limit"}]
  BY DEF RpcInv, RpcTypeOK
<1>3. down' \in Seq(Frame) /\ Elems(down') \subseteq Elems(down)
  <2>1. CASE down' = down
    BY <1>2, <2>1
  <2>2. CASE down # <<>> /\ down' = Tail(down)
    BY <1>2, <2>2, TookHead
  <2> QED
    BY <1>1, <2>1, <2>2
<1>4. PICK c \in Calls \cup {Nothing} :
        driver' = Select(c) /\ (c # Nothing => Sent(c))
  <2>1. CASE Sweep \/ ReadLine
    BY <2>1 DEF Sweep, ReadLine
  <2>2. CASE ReadSome
    <3>1. down # <<>> /\ driver' = Select(Head(down).call)
      BY <2>2 DEF ReadSome
    <3>2. Head(down) \in Frame /\ Head(down) \in Elems(down)
      BY <1>2, <3>1, TookHead
    <3>3. Head(down).call \in Calls /\ Sent(Head(down).call)
      BY <3>2 DEF Frame, RpcInv, OnlyKnownIsSent
    <3> QED
      BY <3>1, <3>3
  <2> QED
    BY <2>1, <2>2
<1>5. driver' \in Driver /\ driver'.pc = "select" /\ driver'.partial = c
  BY <1>4, Values, Zenon
<1>6. InOnePlace'
  BY <1>1, <1>5 DEF RpcInv, InOnePlace
<1>7. \A d \in Calls : Travels(d)' => Travels(d)
  BY <1>1, <1>5 DEF Travels
<1>8. /\ call' \in [Calls -> CallState]
      /\ \A d \in Calls : call'[d] # call[d] =>
            /\ Waiting(d) /\ Sent(d) /\ answer[d] \in {"ok", "busy", "limit"}
            /\ call'[d] = Returned(answer[d])
  <2>1. CASE UNCHANGED call
    BY <1>2, <2>1
  <2>2. CASE ~ UNCHANGED call
    <3> PICK p : p = driver.partial
      OBVIOUS
    <3>1. p # Nothing /\ Waiting(p) /\ call' = [call EXCEPT ![p] = Returned(answer[p])]
      BY <2>2 DEF Sweep, ReadSome, ReadLine, Route
    <3>2. p \in Calls /\ Sent(p)
      BY <1>2, <3>1 DEF Driver, RpcInv, OnlyKnownIsSent
    <3>3. answer[p] \in {"ok", "busy", "limit"}
      BY <1>2, <3>2 DEF Sent
    <3>4. Returned(answer[p]) \in CallState
      BY <3>3, Values, Zenon
    <3> QED
      BY <1>2, <3>1, <3>2, <3>3, <3>4
  <2> QED
    BY <2>1, <2>2
<1> QED
  BY <1>1, <1>2, <1>3, <1>4, <1>5, <1>6, <1>7, <1>8, ExchangeKeeps

LEMMA ClientStepKeeps == ASSUME RpcInv, ClientStep PROVE RpcInv'
<1>1. ASSUME NEW c \in Calls, CallStep(c) PROVE RpcInv'
  BY <1>1, CallStepKeeps
<1>2. CASE ExitStep
  <2>1. UNCHANGED <<call, queue, driver, up, down, task, answer, held, out, writer, pending, daemon>>
        /\ exiter' # "idle"
    BY <1>2 DEF ExitStep, ExitShutdown, ExitReturns, daemonVars
  <2> QED
    BY <2>1, IdleKeeps
<1>3. CASE Exchange
  <2>1. UNCHANGED <<exiter, daemonVars>>
    BY <1>3 DEF Exchange, ClientKeeps
  <2>2. CASE ReadEof
    BY <2>1, <2>2, HangsKeeps DEF ReadEof
  <2> QED
    BY <1>3, <2>1, <2>2, TakeRequestKeeps, WriteRequestKeeps, ReadKeeps DEF Exchange
<1>4. CASE Shutdown
  BY <1>4, HangsKeeps DEF Shutdown
<1>5. CASE LauncherFinish
  <2>1. [pc |-> "exited", call |-> Nothing] \in PumpState /\ [pc |-> "exited", call |-> Nothing].pc # "reject"
    BY DEF PumpState
  <2>2. /\ UNCHANGED <<call, queue, driver, up, down, task, answer, held, out, writer, pending, exiter>>
        /\ daemon' = daemon \/ daemon' = [pc |-> "exited", call |-> Nothing]
    BY <1>5 DEF LauncherFinish
  <2> QED
    BY <2>1, <2>2, IdleKeeps
<1> QED
  BY <1>1, <1>2, <1>3, <1>4, <1>5 DEF ClientStep

-----------------------------------------------------------------------------
(* The daemon.                                                             *)

\* The daemon decides, works and answers; the client's side stays.
LEMMA DaemonKeepsInv ==
    ASSUME RpcInv, UNCHANGED <<call, queue, driver, pending, exiter>>,
           up' \in Seq(Calls), down' \in Seq(Frame), out' \in Seq(Calls),
           daemon' \in PumpState, held' \subseteq Calls, writer' \in Calls \cup {Nothing},
           task' \in [Calls -> {"none", "running", "responding", "done"}],
           answer' \in [Calls -> {"none", "ok", "busy", "limit"}],
           Elems(up') \subseteq Elems(up), Once(up'),
           \A c \in Calls : answer'[c] # answer[c] => c \in Elems(up) \ Elems(up'),
           \A c \in Calls : Sent(c) => Sent(c)',
           \A c \in Calls : task'[c] # "none" => answer'[c] = "ok",
           \A c \in held' : task'[c] = "running",
           daemon'.pc = "reject" => daemon'.call \in Calls /\ answer'[daemon'.call] \in {"busy", "limit"},
           \A c \in Elems(out') : Sent(c)',
           \A f \in Elems(down') : Sent(f.call)',
           \A c \in {writer'} \ {Nothing} : Sent(c)'
    PROVE  RpcInv'
<1>1. RpcTypeOK'
  BY DEF RpcInv, RpcTypeOK
<1>2. InOnePlace'
  BY DEF RpcInv, InOnePlace
<1>3. \A c \in Calls : Travels(c)' => Travels(c)
  BY Zenon DEF Travels
<1>4. ASSUME NEW c \in Calls, answer'[c] # answer[c]
      PROVE  answer[c] = "none" /\ Submitted(c) /\ ~ Travels(c)'
  <2>1. Travels(c) /\ c \in Elems(up) /\ c \notin Elems(up')
    BY <1>4 DEF Travels
  <2>2. answer[c] = "none" /\ Submitted(c)
    BY <2>1 DEF RpcInv, OnlySubmitted
  <2>3. c \notin Elems(queue) /\ ~ (driver.pc = "write" /\ driver.call = c)
    BY <2>1 DEF RpcInv, InOnePlace
  <2> QED
    BY <2>1, <2>2, <2>3 DEF Travels
<1>5. \A c \in Calls : Submitted(c)' <=> Submitted(c)
  BY DEF Submitted
<1>6. OnlySubmitted'
  BY <1>3, <1>4, <1>5, Zenon DEF RpcInv, OnlySubmitted
<1>7. TaskIsAnswered'
  BY DEF TaskIsAnswered
<1>8. OnlyKnownIsSent'
  <2>1. (driver.partial # Nothing => Sent(driver.partial))'
    <3> PICK p : p = driver.partial
      OBVIOUS
    <3>1. p # Nothing => p \in Calls /\ Sent(p)
      BY DEF RpcInv, RpcTypeOK, Driver, OnlyKnownIsSent
    <3>2. p # Nothing => Sent(p)'
      BY <3>1
    <3> QED
      BY <3>2 DEF Sent
  <2>2. ASSUME NEW c \in Calls, call[c].result \in {"ok", "busy", "limit"}
        PROVE  Sent(c)' /\ answer'[c] = call[c].result
    <3>1. Sent(c) /\ answer[c] = call[c].result
      BY <2>2 DEF RpcInv, OnlyKnownIsSent
    <3>2. answer[c] # "none"
      BY <3>1 DEF Sent
    <3> QED
      BY <1>4, <3>1, <3>2
  <2>3. (writer # Nothing => Sent(writer))'
    <3> PICK p : p = writer'
      OBVIOUS
    <3>1. p # Nothing => Sent(p)'
      OBVIOUS
    <3> QED
      BY <3>1 DEF Sent
  <2> QED
    BY <2>1, <2>2, <2>3 DEF OnlyKnownIsSent
<1>9. ExitNotBegun'
  BY DEF RpcInv, ExitNotBegun
<1> QED
  BY <1>1, <1>2, <1>6, <1>7, <1>8, <1>9 DEF RpcInv

LEMMA PumpValues ==
    ASSUME NEW c \in Calls \cup {Nothing}, NEW pc \in {"read", "reject", "drain", "exited"}
    PROVE  /\ [pc |-> pc, call |-> c] \in PumpState
           /\ [pc |-> pc, call |-> c].pc = pc /\ [pc |-> pc, call |-> c].call = c
  BY DEF PumpState

\* What was under way stays right while nothing that is known gets lost.
LEMMA StaysSent ==
    ASSUME RpcInv, \A d \in Calls : Sent(d) => Sent(d)'
    PROVE  /\ \A d \in Elems(out) \cup ({writer} \ {Nothing}) : d \in Calls /\ Sent(d)'
           /\ \A f \in Elems(down) : f \in Frame /\ Sent(f.call)'
<1>1. Elems(out) \subseteq Calls /\ Elems(down) \subseteq Frame /\ writer \in Calls \cup {Nothing}
  BY ElementsIn DEF RpcInv, RpcTypeOK
<1>2. \A f \in Frame : f.call \in Calls
  BY DEF Frame
<1>3. (\A d \in Elems(out) : Sent(d)) /\ (\A f \in Elems(down) : Sent(f.call))
  BY DEF RpcInv, OnlyKnownIsSent
<1>4. writer # Nothing => Sent(writer)
  BY DEF RpcInv, OnlyKnownIsSent
<1>5. \A d \in Elems(out) : d \in Calls /\ Sent(d)'
  BY <1>1, <1>3
<1>6. \A d \in {writer} \ {Nothing} : d \in Calls /\ Sent(d)'
  BY <1>1, <1>4
<1>7. \A f \in Elems(down) : f \in Frame /\ Sent(f.call)'
  <2> SUFFICES ASSUME NEW f \in Elems(down) PROVE f \in Frame /\ Sent(f.call)'
    OBVIOUS
  <2> PICK d : d = f.call
    OBVIOUS
  <2>1. d \in Calls /\ Sent(d)
    BY <1>1, <1>2, <1>3
  <2>2. Sent(d)'
    BY <2>1
  <2> QED
    BY <1>1, <2>2
<1> QED
  BY <1>5, <1>6, <1>7

LEMMA PumpReadKeeps == ASSUME RpcInv, PumpRead, DaemonKeeps PROVE RpcInv'
<1> PICK c : c = Head(up)
  OBVIOUS
<1>1. /\ UNCHANGED <<call, queue, driver, pending, exiter, down, out, writer>>
      /\ up # <<>> /\ up' = Tail(up) /\ Admit(c)
  BY DEF PumpRead, DaemonKeeps, clientVars
<1>2. /\ up \in Seq(Calls) /\ out \in Seq(Calls) /\ down \in Seq(Frame) /\ Once(up)
      /\ writer \in Calls \cup {Nothing} /\ held \subseteq Calls
      /\ task \in [Calls -> {"none", "running", "responding", "done"}]
      /\ answer \in [Calls -> {"none", "ok", "busy", "limit"}]
  BY DEF RpcInv, RpcTypeOK, InOnePlace
<1>3. /\ up' \in Seq(Calls) /\ c \in Calls /\ c \in Elems(up) /\ Elems(up') \subseteq Elems(up)
      /\ Once(up') /\ c \notin Elems(up')
  BY <1>1, <1>2, TookHead
<1>4. answer[c] = "none" /\ task[c] = "none"
  BY <1>2, <1>3 DEF RpcInv, OnlySubmitted, TaskIsAnswered, Travels
<1>5. PICK a \in {"ok", "busy", "limit"} :
        /\ answer' = [answer EXCEPT ![c] = a]
        /\ IF a = "ok" THEN /\ task' = [task EXCEPT ![c] = "running"]
                            /\ held' \subseteq held \cup {c}
                            /\ Pump("read", Nothing)
           ELSE Pump("reject", c) /\ UNCHANGED <<task, held>>
  <2> DEFINE b == CASE Busy(c) -> "busy" [] ~ Busy(c) /\ Slots >= MaxInFlight -> "limit"
                    [] OTHER -> "ok"
  <2>1. b \in {"ok", "busy", "limit"}
    OBVIOUS
  <2>2. answer' = [answer EXCEPT ![c] = b]
    BY <1>1 DEF Admit
  <2> HIDE DEF b
  <2>3. answer'[c] = b
    BY <1>2, <1>3, <2>2
  <2> QED
    BY <1>1, <2>1, <2>2, <2>3, Zenon DEF Admit
<1>6. /\ answer' \in [Calls -> {"none", "ok", "busy", "limit"}] /\ answer'[c] = a
      /\ \A d \in Calls \ {c} : answer'[d] = answer[d]
  BY <1>2, <1>3, <1>5
<1>7. /\ task' \in [Calls -> {"none", "running", "responding", "done"}]
      /\ task'[c] = IF a = "ok" THEN "running" ELSE "none"
      /\ \A d \in Calls \ {c} : task'[d] = task[d]
  BY <1>2, <1>3, <1>4, <1>5, Zenon
<1>8. /\ held' \subseteq Calls
      /\ \A d \in held' : task'[d] = "running"
  BY <1>2, <1>3, <1>5, <1>7, ZenonT(30) DEF RpcInv, TaskIsAnswered
<1>9. /\ daemon' \in PumpState
      /\ daemon'.pc = "reject" => daemon'.call = c /\ a # "ok"
  <2>1. CASE a = "ok"
    <3>1. daemon' = [pc |-> "read", call |-> Nothing]
      BY <1>5, <2>1 DEF Pump
    <3> QED
      BY <3>1, PumpValues, Zenon
  <2>2. CASE a # "ok"
    <3>1. daemon' = [pc |-> "reject", call |-> c]
      BY <1>5, <2>2 DEF Pump
    <3> QED
      BY <1>3, <2>2, <3>1, PumpValues, Zenon
  <2> QED
    BY <2>1, <2>2
<1>10. \A d \in Calls : Sent(d) => Sent(d)'
  BY <1>4, <1>6, <1>7 DEF Sent
<1>11. \A d \in Calls : task'[d] # "none" => answer'[d] = "ok"
  BY <1>6, <1>7, SMTT(30) DEF RpcInv, TaskIsAnswered
<1>12. /\ \A d \in Elems(out) \cup ({writer} \ {Nothing}) : Sent(d)'
       /\ \A f \in Elems(down) : Sent(f.call)'
  BY <1>10, StaysSent
<1> QED
  <2>1. /\ UNCHANGED <<call, queue, driver, pending, exiter, down, out, writer>>
    BY <1>1, Zenon
  <2>2. \A d \in Calls : answer'[d] # answer[d] => d \in Elems(up) \ Elems(up')
    BY <1>3, <1>6, Zenon
  <2>3. daemon'.pc = "reject" => daemon'.call \in Calls /\ answer'[daemon'.call] \in {"busy", "limit"}
    BY <1>3, <1>6, <1>9
  <2> QED
    BY <1>2, <1>3, <1>6, <1>7, <1>8, <1>9, <1>10, <1>11, <1>12, <2>1, <2>2, <2>3, DaemonKeepsInv,
       Zenon

\* The pump ends, or the process does.
LEMMA PumpStopsKeeps ==
    ASSUME RpcInv, NEW pc \in {"read", "drain", "exited"}, Pump(pc, Nothing),
           UNCHANGED <<call, queue, driver, pending, exiter, up, down, task, answer, held, out, writer>>
    PROVE  RpcInv'
<1>1. daemon' = [pc |-> pc, call |-> Nothing]
  BY DEF Pump
<1>2. daemon' \in PumpState /\ daemon'.pc = pc
  BY <1>1, PumpValues, Zenon
<1> QED
  BY <1>2, IdleKeeps

\* A response is queued: of a refused call, or of one whose work has ended.
LEMMA QueuedKeeps ==
    ASSUME RpcInv, NEW c \in Calls, UNCHANGED <<call, queue, driver, pending, exiter, up, down, answer, held, writer>>,
           out' = out \/ out' = Append(out, c), daemon' \in PumpState, daemon' = daemon \/ daemon'.pc # "reject",
           \/ answer[c] \in {"busy", "limit"} /\ UNCHANGED task
           \/ task[c] = "responding" /\ task' = [task EXCEPT ![c] = "done"]
    PROVE  RpcInv'
<1>1. /\ up \in Seq(Calls) /\ out \in Seq(Calls) /\ down \in Seq(Frame) /\ Once(up)
      /\ writer \in Calls \cup {Nothing} /\ held \subseteq Calls
      /\ task \in [Calls -> {"none", "running", "responding", "done"}]
      /\ answer \in [Calls -> {"none", "ok", "busy", "limit"}]
      /\ \A d \in held : task[d] = "running"
      /\ \A d \in Calls : task[d] # "none" => answer[d] = "ok"
      /\ daemon.pc = "reject" => daemon.call \in Calls /\ answer[daemon.call] \in {"busy", "limit"}
  BY Zenon DEF RpcInv, RpcTypeOK, InOnePlace, TaskIsAnswered
<1>2. /\ task' \in [Calls -> {"none", "running", "responding", "done"}]
      /\ \A d \in Calls \ {c} : task'[d] = task[d]
      /\ task'[c] = task[c] \/ (task[c] = "responding" /\ task'[c] = "done")
  BY <1>1
<1>3. \A d \in Calls : Sent(d) => Sent(d)'
  BY <1>2 DEF Sent
<1>4. Sent(c)'
  BY <1>1, <1>2 DEF Sent
<1>5. /\ \A d \in Elems(out) \cup ({writer} \ {Nothing}) : d \in Calls /\ Sent(d)'
      /\ \A f \in Elems(down) : Sent(f.call)'
  BY <1>3, StaysSent
<1>6. out' \in Seq(Calls) /\ Elems(out') \subseteq Elems(out) \cup {c}
  <2>1. CASE out' = out
    BY <1>1, <2>1
  <2>2. CASE out' = Append(out, c)
    <3>2. out \in Seq(Calls) /\ c \in Calls
      BY <1>1, Zenon
    <3>1. Append(out, c) \in Seq(Calls) /\ Elems(Append(out, c)) = Elems(out) \cup {c}
      BY ONLY <3>2, Appended
    <3> QED
      BY <2>2, <3>1, Zenon
  <2> QED
    BY <2>1, <2>2
<1>7. \A d \in Elems(out') : Sent(d)'
  BY <1>4, <1>5, <1>6
<1>8. \A d \in Calls : task'[d] # "none" => answer'[d] = "ok"
  BY <1>1, <1>2
<1>9. \A d \in held' : task'[d] = "running"
  BY <1>1, <1>2, SMTT(30)
<1>10. daemon'.pc = "reject" => daemon'.call \in Calls /\ answer'[daemon'.call] \in {"busy", "limit"}
  BY <1>1
<1> QED
  BY <1>1, <1>2, <1>3, <1>5, <1>6, <1>7, <1>8, <1>9, <1>10, DaemonKeepsInv

LEMMA FinishKeeps == ASSUME RpcInv, NEW c \in Calls, Finish(c), DaemonKeeps PROVE RpcInv'
<1>1. /\ UNCHANGED <<call, queue, driver, pending, exiter, down, daemon, up, answer, out, writer>>
      /\ task[c] = "running" /\ task' = [task EXCEPT ![c] = "responding"] /\ held' = held \ {c}
  BY DEF Finish, DaemonKeeps, clientVars
<1>2. /\ up \in Seq(Calls) /\ out \in Seq(Calls) /\ down \in Seq(Frame) /\ Once(up)
      /\ writer \in Calls \cup {Nothing} /\ held \subseteq Calls /\ daemon \in PumpState
      /\ task \in [Calls -> {"none", "running", "responding", "done"}]
      /\ answer \in [Calls -> {"none", "ok", "busy", "limit"}]
      /\ \A d \in held : task[d] = "running"
      /\ \A d \in Calls : task[d] # "none" => answer[d] = "ok"
      /\ daemon.pc = "reject" => daemon.call \in Calls /\ answer[daemon.call] \in {"busy", "limit"}
  BY Zenon DEF RpcInv, RpcTypeOK, InOnePlace, TaskIsAnswered
<1>3. /\ task' \in [Calls -> {"none", "running", "responding", "done"}]
      /\ \A d \in Calls \ {c} : task'[d] = task[d]
      /\ task'[c] = "responding"
  BY <1>1, <1>2
<1>4. \A d \in Calls : Sent(d) => Sent(d)'
  BY <1>1, <1>3 DEF Sent
<1>5. /\ \A d \in Elems(out) \cup ({writer} \ {Nothing}) : d \in Calls /\ Sent(d)'
      /\ \A f \in Elems(down) : Sent(f.call)'
  BY <1>4, StaysSent
<1>6. \A d \in Calls : task'[d] # "none" => answer'[d] = "ok"
  BY <1>1, <1>2, <1>3
<1>7. held' \subseteq Calls /\ \A d \in held' : task'[d] = "running"
  BY <1>1, <1>2, <1>3
<1> QED
  BY <1>1, <1>2, <1>3, <1>4, <1>5, <1>6, <1>7, DaemonKeepsInv

LEMMA DaemonStepKeeps == ASSUME RpcInv, DaemonStep \/ DaemonDies PROVE RpcInv'
<1>1. UNCHANGED <<call, queue, driver, pending, exiter, down>> /\ DaemonKeeps
  BY DEF DaemonStep, DaemonDies, DaemonKeeps, clientVars
<1>2. CASE PumpRead
  BY <1>1, <1>2, PumpReadKeeps
<1>3. CASE PumpReject
  <2> PICK c : c = daemon.call
    OBVIOUS
  <2>1. UNCHANGED <<up, task, answer, held, writer>> /\ daemon.pc = "reject"
    BY <1>3 DEF PumpReject
  <2>2. c \in Calls /\ answer[c] \in {"busy", "limit"}
    BY <2>1, Zenon DEF RpcInv, RpcTypeOK, TaskIsAnswered
  <2>3. CASE stopping
    BY <1>1, <1>3, <2>1, <2>3, PumpStopsKeeps DEF PumpReject
  <2>4. CASE ~ stopping
    <3>1. out' = Append(out, c) /\ daemon' = [pc |-> "read", call |-> Nothing]
      BY <1>3, <2>4 DEF PumpReject, Pump
    <3>2. daemon' \in PumpState /\ daemon'.pc = "read"
      BY <3>1, PumpValues, Zenon
    <3> QED
      BY <1>1, <2>1, <2>2, <3>1, <3>2, QueuedKeeps
  <2> QED
    BY <2>3, <2>4
<1>4. CASE PumpEnds \/ DaemonExits \/ DaemonDies
  BY <1>1, <1>4, PumpStopsKeeps DEF PumpEnds, DaemonExits, DaemonDies
<1>5. ASSUME NEW c \in Calls, Finish(c) PROVE RpcInv'
  BY <1>1, <1>5, FinishKeeps
<1>6. ASSUME NEW c \in Calls, Respond(c) PROVE RpcInv'
  <2>1. /\ UNCHANGED <<up, answer, held, writer, daemon>> /\ task[c] = "responding"
        /\ task' = [task EXCEPT ![c] = "done"] /\ (out' = out \/ out' = Append(out, c))
    BY <1>6 DEF Respond
  <2>2. daemon \in PumpState
    BY DEF RpcInv, RpcTypeOK
  <2> QED
    BY <1>1, <2>1, <2>2, QueuedKeeps, Zenon
<1> QED
  BY <1>2, <1>3, <1>4, <1>5, <1>6 DEF DaemonStep

LEMMA WriterKeeps == ASSUME RpcInv, WriterStep PROVE RpcInv'
<1>1. UNCHANGED <<call, queue, driver, pending, exiter, up, daemon, task, answer, held>>
  BY DEF WriterStep, clientVars
<1>2. /\ up \in Seq(Calls) /\ out \in Seq(Calls) /\ down \in Seq(Frame) /\ Once(up)
      /\ writer \in Calls \cup {Nothing} /\ held \subseteq Calls /\ daemon \in PumpState
      /\ task \in [Calls -> {"none", "running", "responding", "done"}]
      /\ answer \in [Calls -> {"none", "ok", "busy", "limit"}]
      /\ \A d \in held : task[d] = "running"
      /\ \A d \in Calls : task[d] # "none" => answer[d] = "ok"
      /\ daemon.pc = "reject" => daemon.call \in Calls /\ answer[daemon.call] \in {"busy", "limit"}
  BY DEF RpcInv, RpcTypeOK, InOnePlace, TaskIsAnswered
<1>3. \A d \in Calls : Sent(d) => Sent(d)'
  BY <1>1 DEF Sent
<1>4. /\ \A d \in Elems(out) \cup ({writer} \ {Nothing}) : d \in Calls /\ Sent(d)'
      /\ \A f \in Elems(down) : Sent(f.call)'
  BY <1>3, StaysSent
<1>5. ASSUME NEW c \in Calls, NEW part \in {"head", "tail"}, Sent(c)',
             down' = Append(down, [call |-> c, part |-> part])
      PROVE  down' \in Seq(Frame) /\ \A f \in Elems(down') : Sent(f.call)'
  <2> DEFINE g == [call |-> c, part |-> part]
  <2>1. g \in Frame /\ g.call = c
    BY DEF Frame
  <2> HIDE DEF g
  <2>2. down' \in Seq(Frame) /\ Elems(down') = Elems(down) \cup {g}
    <3>2. down \in Seq(Frame) /\ g \in Frame
      BY <1>2, <2>1, Zenon
    <3>1. Append(down, g) \in Seq(Frame) /\ Elems(Append(down, g)) = Elems(down) \cup {g}
      BY ONLY <3>2, Appended
    <3> QED
      BY <1>5, <3>1, Zenon DEF g
  <2>3. Sent(g.call)'
    BY <1>5, <2>1
  <2> QED
    BY <1>4, <2>2, <2>3
<1>6. CASE driver.pc = "gone"
  <2>1. writer' = Nothing /\ out' = <<>> /\ down' = down
    BY <1>6 DEF WriterStep
  <2> QED
    BY <1>1, <1>2, <1>3, <1>4, <2>1, NoElements, DaemonKeepsInv, Zenon
<1>7. CASE driver.pc # "gone" /\ writer = Nothing
  <2>1. /\ out # <<>> /\ down' = Append(down, [call |-> Head(out), part |-> "head"])
        /\ writer' = Head(out) /\ out' = Tail(out)
    BY <1>7 DEF WriterStep
  <2>2. out' \in Seq(Calls) /\ Head(out) \in Elems(out) /\ Elems(out') \subseteq Elems(out)
    BY <1>2, <2>1, TookHead
  <2>3. Head(out) \in Calls /\ \A d \in {Head(out)} : Sent(d)'
    BY <1>4, <2>2
  <2> PICK h : h = Head(out)
    OBVIOUS
  <2>4. down' \in Seq(Frame) /\ \A f \in Elems(down') : Sent(f.call)'
    BY <1>5, <2>1, <2>3, Zenon
  <2> QED
    BY <1>1, <1>2, <1>3, <1>4, <2>1, <2>2, <2>3, <2>4, DaemonKeepsInv
<1>8. CASE driver.pc # "gone" /\ writer # Nothing
  <2>1. down' = Append(down, [call |-> writer, part |-> "tail"]) /\ writer' = Nothing /\ out' = out
    BY <1>8 DEF WriterStep
  <2> PICK h : h = writer
    OBVIOUS
  <2>2. h \in Calls /\ Sent(h)'
    BY <1>4, <1>8
  <2>3. down' \in Seq(Frame) /\ \A f \in Elems(down') : Sent(f.call)'
    BY <1>5, <2>1, <2>2, Zenon
  <2> QED
    BY <1>1, <1>2, <1>3, <1>4, <2>1, <2>3, DaemonKeepsInv, Zenon
<1> QED
  BY <1>6, <1>7, <1>8

\* The bookkeeping of requests and answers is right whatever the client, the
\* connection task and the daemon do, for any calls, claims and capacities.
THEOREM RpcInvariant == RpcSpec => []RpcInv
<1>1. RpcInit => RpcInv
  BY RpcInitially
<1>2. RpcInv /\ [RpcNext]_rpcVars => RpcInv'
  <2> SUFFICES ASSUME RpcInv, [RpcNext]_rpcVars PROVE RpcInv'
    OBVIOUS
  <2>1. CASE UNCHANGED rpcVars
    <3>1. UNCHANGED <<call, queue, driver, up, down, task, answer, held, out, writer, pending, daemon, exiter>>
      BY <2>1 DEF rpcVars, clientVars, daemonVars
    <3> QED
      BY <3>1, IdleKeeps
  <2> QED
    BY <2>1, AskKeeps, ClientStepKeeps, DaemonStepKeeps, WriterKeeps DEF RpcNext
<1> QED
  BY <1>1, <1>2, PTL DEF RpcSpec

\* A caller is told a result only of work that ended, and a refusal only of a
\* request that never ran; and nothing is held for a call that has its answer
\* (route_response, write_request, run_rpc_request_pump).
THEOREM CallersAreToldTheTruth == RpcSpec => []ResultsAreHonest
<1>1. RpcInv => ResultsAreHonest
  <2> SUFFICES ASSUME RpcInv, NEW c \in Calls
      PROVE  /\ call[c].result = "ok" => task[c] \in {"responding", "done"} /\ c \notin held
             /\ call[c].result \in {"busy", "limit", "not submitted"} => task[c] = "none"
    BY Zenon DEF ResultsAreHonest
  <2>1. call[c].result \in {"ok", "busy", "limit"} => Sent(c) /\ answer[c] = call[c].result
    BY DEF RpcInv, OnlyKnownIsSent
  <2>2. call[c].result = "not submitted" => answer[c] = "none"
    BY Zenon DEF RpcInv, OnlySubmitted, Submitted
  <2> QED
    BY <2>1, <2>2, Zenon DEF RpcInv, TaskIsAnswered, Sent
<1> QED
  BY <1>1, RpcInvariant, PTL

-----------------------------------------------------------------------------
(* Commands.                                                               *)

\* A command that is being stopped has a reason, and a leader that was started
\* keeps its status.
ChildInv ==
    /\ command \in Commands \cup {"none"}
    /\ phase \in {"idle", "join", "read", "wait", "stop", "term", "kill"}
    /\ leader \in {"none", "running", "success", "failure"}
    /\ why \in {"none", "deadline", "broken", "cancel"}
    /\ phase \in {"stop", "term", "kill"} => why # "none"
    /\ ReportIsTrue

\* What a stop is reported as.
LEMMA AfterStopValues ==
    ASSUME ChildInv, phase \in {"term", "kill"}
    PROVE  /\ AfterStop \in {"ok", "timed out", "broken", "cancelled"}
           /\ AfterStop = "ok" => leader = "success"
           /\ AfterStop = "cancelled" /\ command = "oci" => leader # "success"
<1>1. why \in {"deadline", "broken", "cancel"}
  BY DEF ChildInv
<1> DEFINE as == [deadline |-> "timed out", broken |-> "broken", cancel |-> "cancelled"]
<1>2. as[why] \in {"timed out", "broken", "cancelled"} /\ (as[why] = "cancelled" => why = "cancel")
  <2>1. as["deadline"] = "timed out" /\ as["broken"] = "broken" /\ as["cancel"] = "cancelled"
    OBVIOUS
  <2> HIDE DEF as
  <2> QED
    BY <1>1, <2>1, Zenon
<1>3. AfterStop = IF why = "cancel" /\ command = "oci" /\ leader = "success" THEN "ok" ELSE as[why]
  BY DEF AfterStop
<1> HIDE DEF as
<1> QED
  BY <1>2, <1>3, Zenon

\* The inductive invariant of a command, whatever its processes and the user do.
THEOREM ChildInvariant == ChildSpec => []ChildInv
<1>1. ChildInit => ChildInv
  BY DEF ChildInit, ChildInv, ReportIsTrue, Exited
<1>2. ChildInv /\ [ChildNext]_childVars => ChildInv'
  <2> SUFFICES ASSUME ChildInv, [ChildNext]_childVars PROVE ChildInv'
    OBVIOUS
  <2> USE DEF ChildInv, ReportIsTrue, Exited
  <2>1. ASSUME NEW k \in Commands, Spawn(k) PROVE ChildInv'
    BY <2>1, Zenon DEF Spawn
  <2>2. CASE JoinEnds \/ WaitEnds
    BY <2>2, Zenon DEF JoinEnds, WaitEnds, Told, ByStatus, PipesClosed, Environment
  <2>3. CASE StreamEnds \/ OutputFails \/ Deadline \/ SeesCancellation
    BY <2>3, Zenon DEF StreamEnds, OutputFails, Deadline, SeesCancellation, Environment
  <2>4. CASE Terminate \/ TerminateFails \/ Escalate
    BY <2>4, Zenon DEF Terminate, TerminateFails, Escalate, Environment
  <2>5. CASE StopConfirmed
    <3>1. /\ phase \in {"term", "kill"} /\ Exited /\ phase' = "idle" /\ report' = AfterStop
          /\ UNCHANGED <<command, why, leader>>
      BY <2>5, Zenon DEF StopConfirmed, Stopped, PipesClosed, Told, Environment
    <3>2. /\ AfterStop \in {"ok", "timed out", "broken", "cancelled"}
          /\ AfterStop = "ok" => leader = "success"
          /\ AfterStop = "cancelled" /\ command = "oci" => leader # "success"
      BY <3>1, AfterStopValues, Zenon
    <3> QED
      BY <3>1, <3>2, Zenon
  <2>6. CASE StopUnconfirmed \/ TransferLost
    BY <2>6, Zenon DEF StopUnconfirmed, TransferLost, Told, Environment
  <2>7. CASE LeaderEnds
    BY <2>7, Zenon DEF LeaderEnds
  <2>8. CASE HelperEnds \/ RequestCancel
    BY <2>8, Zenon DEF HelperEnds, RequestCancel
  <2>9. CASE UNCHANGED childVars
    BY <2>9, Zenon DEF childVars
  <2> QED
    BY <2>1, <2>2, <2>3, <2>4, <2>5, <2>6, <2>7, <2>8, <2>9, Zenon DEF ChildNext
<1> QED
  BY <1>1, <1>2, PTL DEF ChildSpec

\* Every report but "unknown" is made of a leader that has ended, as reported
\* (run_bounded, terminate_and_wait, completion_wins_cancellation).
THEOREM ReportsAreTrue == ChildSpec => []ReportIsTrue
<1>1. ChildInv => ReportIsTrue
  BY DEF ChildInv
<1> QED
  BY <1>1, ChildInvariant, PTL

-----------------------------------------------------------------------------
(* The main screen.                                                        *)

Foci == Inspectors \cup {"machines", "images", "terminal"}
Titles == {Listable[i] : i \in DOMAIN Listable}

FocusOK == focus \in Foci /\ previous \in Foci
EntriesOK == \A i \in DOMAIN entries : entries[i].name \in Titles
TabsOK ==
    /\ tabs \in Seq(Titles) /\ show \in BOOLEAN /\ maximized \in BOOLEAN
    /\ tabs # <<>> => active \in DOMAIN tabs
    /\ show => tabs # <<>>
    /\ maximized => show
WorkspaceInv ==
    /\ FocusOK /\ EntriesOK /\ TabsOK
    /\ target = Designated(target)

\* Choosing the target once more changes nothing.
LEMMA SynchronizeSettles ==
    ASSUME focus' \in Foci, Synchronize
    PROVE  target' = Designated(target)'
<1>1. PICK kept : target' = Designated(kept)'
  BY DEF Synchronize
<1>2. CASE focus' = "machineInspector"
  BY <1>1, <1>2 DEF Designated, ContainsTarget, Present
<1>3. CASE focus' = "imageInspector"
  BY <1>1, <1>3 DEF Designated, ContainsTarget, Present, IsImage
<1>4. CASE focus' \in {"machines", "images", "terminal"}
  BY <1>1, <1>4 DEF Designated
<1> QED
  BY <1>2, <1>3, <1>4 DEF Foci, Inspectors

LEMMA SynchronizedKeeps ==
    ASSUME Synchronize, FocusOK', EntriesOK', TabsOK'
    PROVE  WorkspaceInv'
BY SynchronizeSettles DEF WorkspaceInv, FocusOK

LEMMA FocusMoves ==
    ASSUME FocusOK, NEW f \in Foci, SetFocus(f)
    PROVE  FocusOK'
BY DEF FocusOK, SetFocus

LEMMA FocusStays == ASSUME FocusOK, UNCHANGED <<focus, previous>> PROVE FocusOK'
BY DEF FocusOK

LEMMA TabsStay == ASSUME TabsOK, UNCHANGED terminalTabs PROVE TabsOK'
BY DEF TabsOK, terminalTabs

LEMMA EntriesStay == ASSUME EntriesOK, UNCHANGED entries PROVE EntriesOK'
BY DEF EntriesOK

LEMMA EffectiveFocusTyped == FocusOK => EffectiveFocus \in Foci
BY DEF FocusOK, EffectiveFocus

LEMMA IndexInList ==
    ASSUME NEW list, NEW name, IndexOf(list, name) # 0
    PROVE  IndexOf(list, name) \in DOMAIN list
BY DEF IndexOf

\* The rows of a snapshot or of a projection are machines.
LEMMA RowsAreMachines ==
    ASSUME NEW listing \in EntryLists
    PROVE  \A i \in DOMAIN listing : listing[i].name \in Titles
<1> DEFINE L(list, on) ==
             [i \in DOMAIN list |-> [name |-> list[i], running |-> list[i] \in on]]
<1>5. listing \in {L(list, on) : list \in SubLists(Listable), on \in SUBSET Range(Listable)}
  BY ONLY listing \in EntryLists DEF EntryLists
<1> HIDE DEF L
<1>6. PICK list \in SubLists(Listable), on \in SUBSET Range(Listable) : listing = L(list, on)
  BY <1>5
<1>1. listing = [i \in DOMAIN list |-> [name |-> list[i], running |-> list[i] \in on]]
  BY <1>6 DEF L
<1>2. PICK n : \E at \in [1 .. n -> DOMAIN Listable] : list = [i \in 1 .. n |-> Listable[at[i]]]
  <2>1. PICK n \in 0 .. Len(Listable) :
          \E at \in {f \in [1 .. n -> DOMAIN Listable] : \A i, j \in 1 .. n : i < j => f[i] < f[j]} :
              list = [i \in 1 .. n |-> Listable[at[i]]]
    BY <1>1, Zenon DEF SubLists
  <2> QED
    BY <2>1, Zenon
<1>3. PICK at \in [1 .. n -> DOMAIN Listable] : list = [i \in 1 .. n |-> Listable[at[i]]]
  BY <1>2, Zenon
<1>4. \A i \in DOMAIN list : list[i] \in Titles
  BY <1>3 DEF Titles
<1> QED
  BY <1>1, <1>4

LEMMA RowsReplaced ==
    ASSUME NEW listing \in EntryLists, ReplaceEntries(listing)
    PROVE  EntriesOK'
BY RowsAreMachines DEF ReplaceEntries, EntriesOK

LEMMA RingIsTyped ==
    ASSUME FocusOK, TabsOK, NEW from \in Foci, NEW step \in {1, -1}
    PROVE  NextFocus(from, step) \in Foci
<1> DEFINE ring == FocusRing(show, maximized)
           at == IF IndexOf(ring, from) = 0 THEN 1 ELSE IndexOf(ring, from)
           slot == ((at - 1 + step + Len(ring)) % Len(ring)) + 1
<1>1. /\ ring \in Seq(Foci) /\ Len(ring) \in 3 .. 5
      /\ \A i \in 1 .. Len(ring) : ring[i] \in Foci
  <2>1. CASE show /\ maximized
    <3>1. ring = <<"machines", "images", "terminal">>
      BY <2>1 DEF FocusRing
    <3> QED
      BY <3>1 DEF Foci, Inspectors
  <2>2. CASE show /\ ~maximized
    <3>1. ring = <<"machines", "machineInspector", "images", "imageInspector", "terminal">>
      BY <2>2 DEF FocusRing
    <3> QED
      BY <3>1 DEF Foci, Inspectors
  <2>3. CASE ~show
    <3>1. ring = <<"machines", "machineInspector", "images", "imageInspector">>
      BY <2>3 DEF FocusRing
    <3> QED
      BY <3>1 DEF Foci, Inspectors
  <2> QED
    BY <2>1, <2>2, <2>3
<1> HIDE DEF ring
<1>2. at \in 1 .. Len(ring)
  <2>1. DOMAIN ring = 1 .. Len(ring)
    BY <1>1
  <2>2. IndexOf(ring, from) # 0 => IndexOf(ring, from) \in DOMAIN ring
    BY IndexInList
  <2> QED
    BY <1>1, <2>1, <2>2
<1> HIDE DEF at
<1>3. slot \in 1 .. Len(ring)
  BY <1>1, <1>2
<1> QED
  BY <1>1, <1>3 DEF NextFocus, at, ring

\* Input on the lists, the panels and the inspector.
LEMMA SnapshotKeeps ==
    ASSUME WorkspaceInv, ReplaceSnapshot \/ ProjectMachines
    PROVE  WorkspaceInv'
<1>1. PICK listing \in EntryLists : ReplaceEntries(listing)
  BY DEF ReplaceSnapshot, ProjectMachines
<1>2. /\ UNCHANGED <<focus, previous, tabs, active, show, maximized>> /\ Synchronize
  BY DEF ReplaceSnapshot, ProjectMachines
<1> QED
  BY <1>1, <1>2, RowsReplaced, FocusStays, TabsStay, SynchronizedKeeps
     DEF WorkspaceInv, terminalTabs

LEMMA ListKeeps ==
    ASSUME WorkspaceInv, SelectInImages \/ SwitchImageTab \/ FocusList \/ OtherKey
                         \/ ClickInspector \/ ClickTerminal
    PROVE  WorkspaceInv'
<1>1. UNCHANGED <<entries, terminalTabs>> /\ Synchronize
  BY DEF SelectInImages, SwitchImageTab, FocusList, OtherKey, ClickInspector,
         ClickTerminal, catalogVars
<1>2. \E f \in Foci : SetFocus(f)
  BY EffectiveFocusTyped
     DEF SelectInImages, SwitchImageTab, FocusList, OtherKey, ClickInspector,
         ClickTerminal, WorkspaceInv, Foci, Inspectors
<1> QED
  BY <1>1, <1>2, FocusMoves, TabsStay, EntriesStay, SynchronizedKeeps DEF WorkspaceInv

LEMMA CycleKeeps == ASSUME WorkspaceInv, CyclePanel PROVE WorkspaceInv'
<1>1. PICK step \in {1, -1} : SetFocus(NextFocus(EffectiveFocus, step))
  BY DEF CyclePanel
<1>2. UNCHANGED <<entries, terminalTabs>> /\ Synchronize
  BY DEF CyclePanel, catalogVars
<1>3. NextFocus(EffectiveFocus, step) \in Foci
  BY <1>1, EffectiveFocusTyped, RingIsTyped DEF WorkspaceInv
<1> QED
  BY <1>1, <1>2, <1>3, FocusMoves, TabsStay, EntriesStay, SynchronizedKeeps DEF WorkspaceInv

LEMMA MachineKeeps == ASSUME WorkspaceInv, SelectInMachines PROVE WorkspaceInv'
<1>1. PICK i \in DOMAIN entries :
          /\ SetFocus("machines") /\ SyncToEntry(entries[i].name) /\ UNCHANGED entries /\ Synchronize
  BY DEF SelectInMachines
<1>2. TabsOK'
  BY <1>1, IndexInList, Zenon DEF SyncToEntry, TabsOK, WorkspaceInv
<1>3. FocusOK'
  BY <1>1, FocusMoves DEF Foci, WorkspaceInv
<1> QED
  BY <1>1, <1>2, <1>3, EntriesStay, SynchronizedKeeps DEF WorkspaceInv

LEMMA ToggleKeeps == ASSUME WorkspaceInv, ToggleTerminal PROVE WorkspaceInv'
<1>1. TabsOK'
  BY DEF ToggleTerminal, TabsOK, WorkspaceInv
<1>2. FocusOK'
  BY FocusMoves, FocusStays DEF ToggleTerminal, Foci, WorkspaceInv
<1> QED
  BY <1>1, <1>2, EntriesStay, SynchronizedKeeps DEF ToggleTerminal, WorkspaceInv, catalogVars

-----------------------------------------------------------------------------
LEMMA TabKeeps == ASSUME WorkspaceInv, SelectTab PROVE WorkspaceInv'
<1>1. /\ \E i \in DOMAIN tabs : active' = i
      /\ UNCHANGED <<entries, tabs, show, maximized>> /\ Synchronize
      /\ SetFocus(EffectiveFocus) \/ SetFocus("terminal")
  BY DEF SelectTab
<1>2. TabsOK'
  BY <1>1 DEF TabsOK, WorkspaceInv
<1>3. FocusOK'
  BY <1>1, FocusMoves, EffectiveFocusTyped DEF Foci, WorkspaceInv
<1> QED
  BY <1>1, <1>2, <1>3, EntriesStay, SynchronizedKeeps DEF WorkspaceInv

LEMMA JoinedTabs ==
    ASSUME NEW s \in Seq(Titles), NEW t \in Seq(Titles)
    PROVE  s \o t \in Seq(Titles) /\ Len(s \o t) = Len(s) + Len(t)
OBVIOUS

\* The tab after a removed one takes its place, or the new last one does.
LEMMA CloseKeeps == ASSUME WorkspaceInv, CloseTab PROVE WorkspaceInv'
<1>1. /\ tabs # <<>> /\ RemoveTab(active) /\ UNCHANGED entries /\ Synchronize
      /\ tabs \in Seq(Titles) /\ active \in DOMAIN tabs
  BY DEF CloseTab, WorkspaceInv, TabsOK
<1>2. active \in 1 .. Len(tabs) /\ Len(tabs) \in Nat
  BY <1>1
<1>3. tabs' \in Seq(Titles) /\ Len(tabs') = Len(tabs) - 1
  <2> DEFINE before == SubSeq(tabs, 1, active - 1)
             after == SubSeq(tabs, active + 1, Len(tabs))
  <2>1. before \in Seq(Titles) /\ Len(before) = active - 1
    BY <1>1, <1>2
  <2>2. after \in Seq(Titles) /\ Len(after) = Len(tabs) - active
    BY <1>1, <1>2
  <2>3. tabs' = before \o after
    BY <1>1 DEF RemoveTab
  <2> HIDE DEF before, after
  <2>4. tabs' \in Seq(Titles) /\ Len(tabs') = Len(before) + Len(after)
    BY <2>1, <2>2, <2>3, JoinedTabs, Zenon
  <2> QED
    BY <1>2, <2>1, <2>2, <2>4
<1>4. tabs' # <<>> => active' \in DOMAIN tabs'
  <2> SUFFICES ASSUME tabs' # <<>> PROVE active' \in DOMAIN tabs'
    OBVIOUS
  <2>1. Len(tabs') # 0 /\ Len(tabs') \in Nat /\ DOMAIN tabs' = 1 .. Len(tabs')
    BY <1>3
  <2>2. active' = IF active > Len(tabs') THEN Len(tabs') ELSE active
    BY <1>1 DEF RemoveTab
  <2> QED
    BY <1>2, <2>1, <2>2
<1>5. TabsOK'
  BY <1>3, <1>4, Zenon DEF CloseTab, TabsOK, WorkspaceInv
<1>6. FocusOK'
  <2>1. SetFocus(previous) \/ SetFocus(EffectiveFocus)
    BY DEF CloseTab
  <2> QED
    BY <2>1, FocusMoves, EffectiveFocusTyped DEF FocusOK, WorkspaceInv
<1> QED
  BY <1>1, <1>5, <1>6, EntriesStay, SynchronizedKeeps DEF WorkspaceInv

LEMMA PushKeeps ==
    ASSUME WorkspaceInv, NEW name \in Titles, PushTab(name), SetFocus("terminal"),
           UNCHANGED entries, Synchronize
    PROVE  WorkspaceInv'
<1>1. tabs \in Seq(Titles) /\ tabs' = Append(tabs, name) /\ active' = Len(tabs')
  BY DEF PushTab, WorkspaceInv, TabsOK
<1>2. /\ tabs' \in Seq(Titles) /\ tabs' # <<>> /\ active' \in DOMAIN tabs'
  BY <1>1
<1>3. TabsOK'
  BY <1>2 DEF PushTab, TabsOK, WorkspaceInv
<1>4. FocusOK'
  BY FocusMoves DEF Foci, WorkspaceInv
<1> QED
  BY <1>3, <1>4, EntriesStay, SynchronizedKeeps DEF WorkspaceInv

LEMMA UserShellKeeps == ASSUME WorkspaceInv, SpawnTerminalAsUser PROVE WorkspaceInv'
<1>1. PICK i \in DOMAIN entries :
          /\ PushTab(entries[i].name) /\ SetFocus("terminal") /\ Synchronize
  BY DEF SpawnTerminalAsUser
<1>2. entries[i].name \in Titles
  BY <1>1 DEF WorkspaceInv, EntriesOK
<1> QED
  BY <1>1, <1>2, PushKeeps DEF SpawnTerminalAsUser, catalogVars

\* A launch that fails may have moved the machine selection: only where the
\* focus designates an image.
LEMMA LaunchKeeps == ASSUME WorkspaceInv, SpawnTerminal PROVE WorkspaceInv'
<1>1. PICK name \in TerminalTarget :
          /\ IF IsImage(FocusedImage) THEN SelectMachine(name) ELSE UNCHANGED selected
          /\ \/ /\ PushTab(name) /\ SetFocus("terminal") /\ UNCHANGED entries /\ Synchronize
             \/ UNCHANGED <<entries, regular, regularSel, internal, internalSel, imageTab,
                            focus, previous, terminalTabs, target>>
  BY DEF SpawnTerminal
<1>2. CASE PushTab(name) /\ SetFocus("terminal") /\ UNCHANGED entries /\ Synchronize
  <2>1. name \in Titles
    <3>1. CASE IsImage(FocusedImage)
      <4>1. name = FocusedImage[2] /\ Present(name)
        BY <1>1, <3>1, Zenon DEF TerminalTarget
      <4>2. PICK i \in DOMAIN entries : entries[i].name = name
        BY <4>1 DEF Present, IndexOf, Names
      <4> QED
        BY <4>2 DEF WorkspaceInv, EntriesOK
    <3>2. CASE ~IsImage(FocusedImage)
      BY <1>1, <3>2, Zenon DEF TerminalTarget, WorkspaceInv, EntriesOK
    <3> QED
      BY <3>1, <3>2
  <2> QED
    BY <1>2, <2>1, PushKeeps
<1>3. CASE UNCHANGED <<entries, regular, regularSel, internal, internalSel, imageTab,
                       focus, previous, terminalTabs, target>>
  <2>1. FocusOK' /\ TabsOK' /\ EntriesOK'
    BY <1>3, FocusStays, TabsStay, EntriesStay DEF WorkspaceInv
  <2>2. ImageTarget' = ImageTarget
    BY <1>3 DEF ImageTarget, ShownImages, ShownImageSel
  <2>3. target' = Designated(target)'
    <3>1. CASE IsImage(FocusedImage)
      <4>1. focus \in {"images", "machineInspector", "imageInspector"}
        BY <3>1 DEF FocusedImage, IsImage, Empty, Inspectors
      <4>2. focus # "machineInspector"
        <5> SUFFICES ASSUME focus = "machineInspector" PROVE FALSE
          OBVIOUS
        <5>1. IsImage(target)
          BY <3>1 DEF FocusedImage, IsImage, Empty, Inspectors
        <5>2. target = Designated(target)
          BY DEF WorkspaceInv
        <5>3. target[1] # "machine"
          BY <5>1 DEF IsImage
        <5>4. target = MachineTarget
          BY <5>2, <5>3 DEF Designated
        <5> QED
          BY <5>1, <5>4 DEF MachineTarget, Empty, IsImage
      <4>3. CASE focus = "images"
        BY <1>3, <2>2, <4>3 DEF Designated, WorkspaceInv
      <4>4. CASE focus = "imageInspector"
        <5>1. ContainsTarget(target)' = ContainsTarget(target) /\ IsImage(target)' = IsImage(target)
          BY <1>3 DEF ContainsTarget, Present, Names, IsImage
        <5> QED
          BY <1>3, <2>2, <4>4, <5>1 DEF Designated, WorkspaceInv
      <4> QED
        BY <4>1, <4>2, <4>3, <4>4
    <3>2. CASE ~IsImage(FocusedImage)
      BY <1>1, <1>3, <2>2, <3>2, Zenon
         DEF Designated, WorkspaceInv, ContainsTarget, Present, Names, IsImage,
             MachineTarget, terminalTabs
    <3> QED
      BY <3>1, <3>2
  <2> QED
    BY <2>1, <2>3 DEF WorkspaceInv
<1> QED
  BY <1>1, <1>2, <1>3

\* The inspector is settled after every handler, and the tabs stay consistent.
THEOREM WorkspaceInvariant == WorkspaceSpec => []WorkspaceInv
<1>1. WorkspaceInit => WorkspaceInv
  <2> SUFFICES ASSUME WorkspaceInit PROVE WorkspaceInv
    OBVIOUS
  <2>1. FocusOK /\ EntriesOK /\ TabsOK
    <3>1. FocusOK
      BY DEF WorkspaceInit, FocusOK, Foci
    <3>2. EntriesOK
      BY DEF WorkspaceInit, EntriesOK
    <3>3. tabs \in Seq(Titles)
      BY DEF WorkspaceInit
    <3>4. TabsOK
      BY <3>3, Zenon DEF WorkspaceInit, TabsOK
    <3> QED
      BY <3>1, <3>2, <3>4
  <2>2. target = Designated(target)
    BY DEF WorkspaceInit, Designated, MachineTarget
  <2> QED
    BY <2>1, <2>2 DEF WorkspaceInv
<1>2. WorkspaceInv /\ [WorkspaceNext]_workspaceVars => WorkspaceInv'
  <2> SUFFICES ASSUME WorkspaceInv, [WorkspaceNext]_workspaceVars PROVE WorkspaceInv'
    OBVIOUS
  <2>1. CASE Draw \/ UNCHANGED workspaceVars
    <3>1. UNCHANGED <<entries, selected, regular, regularSel, internal, internalSel, imageTab,
                      focus, previous, tabs, active, show, maximized, target>>
      BY <2>1 DEF Draw, workspaceVars, catalogVars, terminalTabs
    <3>2. FocusOK' /\ TabsOK' /\ EntriesOK'
      BY <3>1, FocusStays, TabsStay, EntriesStay DEF WorkspaceInv, terminalTabs
    <3>3. Designated(target)' = Designated(target)
      BY <3>1 DEF Designated, ContainsTarget, Present, Names, IsImage, MachineTarget,
                  ImageTarget, ShownImages, ShownImageSel
    <3> QED
      BY <3>1, <3>2, <3>3 DEF WorkspaceInv
  <2>2. CASE ReplaceSnapshot \/ ProjectMachines
    BY <2>2, SnapshotKeeps
  <2>3. CASE SelectInImages \/ SwitchImageTab \/ FocusList \/ OtherKey \/ ClickInspector
             \/ ClickTerminal
    BY <2>3, ListKeeps
  <2>4. CASE SelectInMachines \/ CyclePanel \/ ToggleTerminal
    BY <2>4, MachineKeeps, CycleKeeps, ToggleKeeps
  <2>5. CASE SelectTab \/ CloseTab \/ SpawnTerminal \/ SpawnTerminalAsUser
    BY <2>5, TabKeeps, CloseKeeps, LaunchKeeps, UserShellKeeps
  <2> QED
    BY <2>1, <2>2, <2>3, <2>4, <2>5 DEF WorkspaceNext
<1> QED
  BY <1>1, <1>2, PTL DEF WorkspaceSpec

\* TargetFollowsFocus holds for any catalogs and any number of tabs: every
\* handler leaves the inspector on what the focus designates and the active
\* tab on an open session (synchronize_inspector, close_session).
THEOREM TargetAlwaysFollows == WorkspaceSpec => []TargetFollowsFocus
<1>1. WorkspaceInv => TargetFollowsFocus
  BY DEF WorkspaceInv, TabsOK, TargetFollowsFocus
<1> QED
  BY <1>1, WorkspaceInvariant, PTL
=============================================================================
