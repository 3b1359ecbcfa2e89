---------------------------- MODULE HostBackends ----------------------------
(***************************************************************************)
(* How the program talks to the host: one shared, lazily opened system bus *)
(* connection that any caller may find broken, and the systemd tools as    *)
(* the other route.  Callers list the machines (a query) or change the     *)
(* host (a mutation); queries and mutations have deadlines, image removal  *)
(* has none.                                                               *)
(*                                                                         *)
(* The host is external: machines come and go, and a request it received   *)
(* is carried out or refused whenever it likes, also after the deadline.   *)
(***************************************************************************)
EXTENDS Integers, FiniteSets

CONSTANTS
    Callers,            \* concurrent users of the backends
    Hosted,             \* machines that may be registered
    MaxConnections,     \* bound on the bus connections opened
    MaxHostChanges      \* bound on registrations and removals

ASSUME ConnectionsAssumption == MaxConnections \in Nat \ {0} /\ MaxHostChanges \in Nat

VARIABLES
    cache,          \* ConnectionCache: the current connection, or NoConnection
    generations,    \* next_generation; a connection is named by its number
    broken,         \* the connections that failed
    registered,     \* what machined knows
    changes,        \* how often that changed
    callers         \* what each caller is doing
hostVars == <<cache, generations, broken, registered, changes, callers>>

NoConnection == -1
Mutations == {"control", "unitfile", "remove"}
Operations == {"list"} \cup Mutations

\* A caller: what is asked of the bus next, the connection it leased, what a
\* listing found and which registrations it could not read, and what became of
\* a mutation at the host.  "always" and "ever" remember the machines
\* registered all through and during a listing.
NotCalling ==
    [pc |-> "idle", op |-> "list", route |-> "bus", lease |-> NoConnection, todo |-> {},
     found |-> {}, unread |-> {}, always |-> {}, ever |-> {}, rest |-> 0,
     host |-> "none", result |-> "none"]

HostInit ==
    /\ cache = NoConnection /\ generations = 0 /\ broken = {}
    /\ registered \in SUBSET Hosted /\ changes = 0
    /\ callers = [c \in Callers |-> NotCalling]

CallerGoes(c, fields) == callers' = [callers EXCEPT ![c] = fields]

\* ConnectionCache::invalidate: only the generation the caller used is dropped.
Invalidated(generation) == IF cache = generation THEN NoConnection ELSE cache

-----------------------------------------------------------------------------
(* What every call begins with.                                            *)

AskHost(c, op) ==
    /\ callers[c].pc = "idle"
    /\ CallerGoes(c, [NotCalling EXCEPT !.pc = "available", !.op = op,
                                  !.always = registered, !.ever = registered,
                                  !.rest = IF op = "unitfile" THEN 1 ELSE 0])
    /\ UNCHANGED <<cache, generations, broken, registered, changes>>

\* connection_lease.  "available" is is_available, "lease" the call itself.
Lease(c) ==
    /\ callers[c].pc \in {"available", "lease"}
    /\ CallerGoes(c, [callers[c] EXCEPT
          !.pc = IF cache = NoConnection
                 THEN IF @ = "available" THEN "connect available" ELSE "connect"
                 ELSE IF @ = "available" THEN "lease" ELSE "proxy",
          !.lease = cache])
    /\ UNCHANGED <<cache, generations, broken, registered, changes>>

\* Without a connection a listing reads the registrations itself; a mutation
\* uses the tools when it learned so in time, and fails otherwise.
WithoutBus(caller) ==
    CASE caller.op = "list" ->
           [caller EXCEPT !.pc = "directory", !.route = "tools", !.todo = Hosted, !.found = {}]
      [] caller.op # "list" /\ caller.pc = "connect available" ->
           [caller EXCEPT !.pc = "call", !.route = "tools", !.rest = 0]
      [] OTHER -> [caller EXCEPT !.pc = "done", !.result = "rejected"]

\* Connection::system without the lock; a second look at the cache afterwards.
Connect(c) ==
    /\ callers[c].pc \in {"connect available", "connect"}
    /\ cache # NoConnection \/ generations < MaxConnections
    /\ cache' = IF cache = NoConnection THEN generations ELSE cache
    /\ generations' = IF cache = NoConnection THEN generations + 1 ELSE generations
    /\ CallerGoes(c, [callers[c] EXCEPT
                   !.pc = IF @ = "connect" THEN "proxy" ELSE "lease", !.lease = cache'])
    /\ UNCHANGED <<broken, registered, changes>>
ConnectFails(c) ==
    /\ callers[c].pc \in {"connect available", "connect"}
    /\ CallerGoes(c, WithoutBus(callers[c]))
    /\ UNCHANGED <<cache, generations, broken, registered, changes>>

Healthy(c) == callers[c].route = "tools" \/ callers[c].lease \notin broken

\* manager_proxy, under the query deadline
Proxy(c) ==
    /\ callers[c].pc = "proxy" /\ Healthy(c)
    /\ CallerGoes(c, [callers[c] EXCEPT !.pc = "call"])
    /\ UNCHANGED <<cache, generations, broken, registered, changes>>
ProxyFails(c) ==
    /\ callers[c].pc = "proxy"
    /\ cache' = Invalidated(callers[c].lease)
    /\ CallerGoes(c, WithoutBus(callers[c]))
    /\ UNCHANGED <<generations, broken, registered, changes>>

-----------------------------------------------------------------------------
(* Listing.                                                                *)

ListMachines(c) ==
    /\ callers[c].pc = "call" /\ callers[c].op = "list" /\ Healthy(c)
    /\ CallerGoes(c, [callers[c] EXCEPT !.pc = "states", !.todo = registered])
    /\ UNCHANGED <<cache, generations, broken, registered, changes>>

\* Any failed query sends the catalog to the fallback; a deadline or a broken
\* connection also drops the connection, a method error does not.
ListFails(c) ==
    /\ callers[c].pc \in {"call", "states"} /\ callers[c].op = "list"
    /\ callers[c].pc = "call" \/ ~Healthy(c) \/ callers[c].todo = {}
    /\ cache' \in {cache, Invalidated(callers[c].lease)}
    /\ ~Healthy(c) => cache' = Invalidated(callers[c].lease)
    /\ CallerGoes(c, WithoutBus(callers[c]))
    /\ UNCHANGED <<generations, broken, registered, changes>>

\* The State of one machine: a missing machine is left out, one whose state
\* cannot be read is kept as unknown.
MachineState_UnknownIsMissing(c, m, readable) ==
    IF m \in registered /\ readable THEN callers[c].found \cup {m} ELSE callers[c].found
MachineState(c, m, readable) ==
    IF m \in registered \/ ~readable THEN callers[c].found \cup {m} ELSE callers[c].found

QueryState(c, m, readable) ==
    /\ callers[c].pc = "states" /\ m \in callers[c].todo /\ Healthy(c)
    /\ cache' \in IF readable THEN {cache} ELSE {cache, Invalidated(callers[c].lease)}
    /\ CallerGoes(c, [callers[c] EXCEPT !.todo = @ \ {m}, !.found = MachineState(c, m, readable)])
    /\ UNCHANGED <<generations, broken, registered, changes>>

\* enumerate_machines: names come one by one, with what is registered by then.
\* A registration that cannot be read, is too large, does not parse or carries
\* another NAME is logged and left out; the listing goes on and succeeds.
ReadRegistration(c, m, readable) ==
    /\ callers[c].pc = "directory" /\ m \in callers[c].todo
    /\ ~readable => m \in registered
    /\ CallerGoes(c, [callers[c] EXCEPT
          !.todo = @ \ {m},
          !.found = IF m \in registered /\ readable THEN @ \cup {m} ELSE @,
          !.unread = IF readable THEN @ ELSE @ \cup {m}])
    /\ UNCHANGED <<cache, generations, broken, registered, changes>>

\* The directory itself, an entry of it or its type cannot be read, or the
\* images listed beside it fail: there is no further route.
DirectoryFails(c) ==
    /\ callers[c].pc = "directory"
    /\ CallerGoes(c, [callers[c] EXCEPT !.pc = "done", !.result = "rejected"])
    /\ UNCHANGED <<cache, generations, broken, registered, changes>>

ListEnds(c) ==
    /\ callers[c].pc \in {"states", "directory"} /\ callers[c].todo = {}
    /\ CallerGoes(c, [callers[c] EXCEPT !.pc = "done", !.result = "ok"])
    /\ UNCHANGED <<cache, generations, broken, registered, changes>>

-----------------------------------------------------------------------------
(* Mutations.                                                              *)

SendMutation(c) ==
    /\ callers[c].pc = "call" /\ callers[c].op \in Mutations
    /\ CallerGoes(c, [callers[c] EXCEPT !.pc = "await", !.host = IF Healthy(c) THEN "pending" ELSE @])
    /\ UNCHANGED <<cache, generations, broken, registered, changes>>

\* enable and disable go on with a reload, over a lease of its own.  What is
\* tracked at the host is the change of the unit files.
MutationReplies(c) ==
    /\ callers[c].pc = "await" /\ callers[c].host \in {"done", "refused"} /\ Healthy(c)
    /\ CallerGoes(c, IF callers[c].host = "done" /\ callers[c].rest = 1
               THEN [callers[c] EXCEPT !.pc = "lease", !.rest = 2]
               ELSE [callers[c] EXCEPT
                        !.pc = "done",
                        !.result = IF callers[c].host = "done" THEN "ok" ELSE "rejected"])
    /\ UNCHANGED <<cache, generations, broken, registered, changes>>

\* mutation_with_deadline and run_bounded; removal waits as long as it takes.
MutationTimesOut_AsFailure(c) ==
    /\ callers[c].pc = "await" /\ callers[c].op # "remove"
    /\ cache' = Invalidated(callers[c].lease)
    /\ CallerGoes(c, [callers[c] EXCEPT !.pc = "done", !.result = "rejected"])
    /\ UNCHANGED <<generations, broken, registered, changes>>
MutationTimesOut(c) ==
    /\ callers[c].pc = "await" /\ callers[c].op # "remove"
    /\ cache' = IF callers[c].route = "bus" THEN Invalidated(callers[c].lease) ELSE cache
    /\ CallerGoes(c, [callers[c] EXCEPT !.pc = "done", !.result = "unknown"])
    /\ UNCHANGED <<generations, broken, registered, changes>>

\* observe_result: a transport error; whether the host got the call is open.
MutationLost(c) ==
    /\ callers[c].pc = "await" /\ ~Healthy(c)
    /\ cache' = Invalidated(callers[c].lease)
    /\ CallerGoes(c, [callers[c] EXCEPT !.pc = "done", !.result = "lost"])
    /\ UNCHANGED <<generations, broken, registered, changes>>

\* The caller has its answer; the next call starts once the host is settled.
ReturnToCaller(c) ==
    /\ callers[c].pc = "done" /\ callers[c].host # "pending"
    /\ CallerGoes(c, NotCalling)
    /\ UNCHANGED <<cache, generations, broken, registered, changes>>

-----------------------------------------------------------------------------
(* The host.                                                               *)

HostSettles(c) ==
    /\ callers[c].host = "pending"
    /\ \E h \in {"done", "refused"} : CallerGoes(c, [callers[c] EXCEPT !.host = h])
    /\ UNCHANGED <<cache, generations, broken, registered, changes>>

ConnectionBreaks(g) ==
    /\ g \in 0 .. generations - 1 /\ g \notin broken
    /\ broken' = broken \cup {g}
    /\ UNCHANGED <<cache, generations, registered, changes, callers>>

Listing(c) == callers[c].op = "list" /\ callers[c].pc \notin {"idle", "done"}

RegistrationChanges(m) ==
    /\ changes < MaxHostChanges /\ changes' = changes + 1
    /\ registered' = IF m \in registered THEN registered \ {m} ELSE registered \cup {m}
    /\ callers' = [c \in Callers |->
          IF ~Listing(c) THEN callers[c]
          ELSE [callers[c] EXCEPT !.always = @ \cap registered', !.ever = @ \cup registered']]
    /\ UNCHANGED <<cache, generations, broken>>

HostNext ==
    \/ \E c \in Callers :
          \/ \E op \in Operations : AskHost(c, op)
          \/ Lease(c) \/ Connect(c) \/ ConnectFails(c) \/ Proxy(c) \/ ProxyFails(c)
          \/ ListMachines(c) \/ ListFails(c) \/ DirectoryFails(c) \/ ListEnds(c)
          \/ \E m \in Hosted, r \in BOOLEAN : ReadRegistration(c, m, r) \/ QueryState(c, m, r)
          \/ SendMutation(c) \/ MutationReplies(c) \/ MutationTimesOut(c) \/ MutationLost(c)
          \/ ReturnToCaller(c) \/ HostSettles(c)
    \/ \E g \in 0 .. MaxConnections : ConnectionBreaks(g)
    \/ \E m \in Hosted : RegistrationChanges(m)

HostSpec == HostInit /\ [][HostNext]_hostVars

-----------------------------------------------------------------------------
(* A listing that succeeds names no machine that was not registered at any *)
(* moment of it, and every machine that was registered from its beginning  *)
(* to its end, whatever failed or vanished in between.  Only a listing     *)
(* that read the registrations may leave such a machine out, and only when *)
(* it met that machine's registration and could not read it: a listing     *)
(* over the bus keeps a machine whose state is unavailable.                *)
ListingIsFaithful ==
    \A c \in Callers : callers[c].op = "list" /\ callers[c].result = "ok" =>
        /\ callers[c].found \subseteq callers[c].ever
        /\ callers[c].always \subseteq
              callers[c].found \cup (IF callers[c].route = "bus" THEN {} ELSE callers[c].unread)

(* A mutation is reported as done only when the host did it, and as        *)
(* refused only when the host never does it, not even after the deadline.  *)
(* (Enabling and disabling are two calls: a reload that fails is reported  *)
(* although the unit files did change.)                                    *)
OutcomeIsHonest ==
    \A c \in Callers : callers[c].op \in {"control", "remove"} =>
        /\ callers[c].result = "ok" => callers[c].host = "done"
        /\ callers[c].result = "rejected" => callers[c].host \in {"none", "refused"}
=============================================================================
