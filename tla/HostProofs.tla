------------------------------ MODULE HostProofs ------------------------------
(***************************************************************************)
(* Proofs about what runs with privileges: the program's dealings with the *)
(* host through the bus and its fallback (HostBackends), the NVIDIA        *)
(* synchronisation (NvidiaSync), and the daemon's deployment registry      *)
(* (DeploymentJobs), for any set of deployments and any history limit.     *)
(***************************************************************************)
EXTENDS HostBackends, NvidiaSync, DeploymentJobs, TLAPS

-----------------------------------------------------------------------------
(* Listings and mutations.                                                 *)

CallerRecords ==
    [pc : {"idle", "available", "lease", "connect available", "connect", "proxy", "call",
           "states", "directory", "await", "done"},
     op : Operations, route : {"bus", "tools"}, lease : Int, todo : SUBSET Hosted,
     found : SUBSET Hosted, unread : SUBSET Hosted, always : SUBSET Hosted,
     ever : SUBSET Hosted, rest : 0 .. 2,
     host : {"none", "pending", "done", "refused"},
     result : {"none", "ok", "rejected", "unknown", "lost"}]

\* What a listing knows so far.  A name that was found and is not yet queried
\* has been registered during this listing, so that an unreadable state may
\* keep it; a name that is still to come may be one that stays all through.
\* Nothing is left unread before the fallback, and the fallback is final.
ListingInv(r) ==
    /\ r.op = "list" /\ r.pc \notin {"idle", "done"} =>
         r.always \subseteq registered /\ registered \subseteq r.ever
    /\ r.pc \in {"states", "directory"} =>
         /\ r.op = "list" /\ r.found \subseteq r.ever
         /\ r.always \subseteq r.found \cup r.unread \cup r.todo
    /\ r.op = "list" /\ r.pc \notin {"states", "directory", "done"} => r.found = {}
    /\ r.op = "list" /\ r.route = "bus" => r.unread = {}
    /\ r.pc = "states" => r.todo \subseteq r.ever
    /\ r.pc = "directory" => r.route = "tools"
    /\ r.op = "list" /\ r.result = "ok" =>
         r.pc = "done" /\ r.always \subseteq r.found \cup r.unread /\ r.found \subseteq r.ever

\* A change that is sent in one call has reached the host only from there on,
\* and nothing is reported before.
MutationInv(r) ==
    /\ r.pc = "await" => r.op \in Mutations
    /\ r.op \in {"control", "remove"} =>
         /\ r.rest = 0
         /\ r.pc \notin {"await", "done"} => r.host = "none"
         /\ r.result # "none" => r.pc = "done"
         /\ r.result = "ok" => r.host = "done"
         /\ r.result = "rejected" => r.host \in {"none", "refused"}

HostInv ==
    /\ cache \in Int /\ generations \in Int /\ registered \in SUBSET Hosted
    /\ callers \in [Callers -> CallerRecords]
    /\ \A c \in Callers : ListingInv(callers[c]) /\ MutationInv(callers[c])

\* A step of one caller is judged by the record it leaves behind.
LEMMA CallerStep ==
    ASSUME HostInv, NEW c \in Callers, NEW r \in CallerRecords, CallerGoes(c, r),
           ListingInv(r), MutationInv(r), UNCHANGED registered,
           cache' \in Int, generations' \in Int
    PROVE  HostInv'
<1>1. callers' \in [Callers -> CallerRecords]
  BY DEF HostInv, CallerGoes
<1>2. \A d \in Callers : callers'[d] = IF d = c THEN r ELSE callers[d]
  BY DEF HostInv, CallerGoes
<1>3. \A d \in Callers : ListingInv(callers[d])' /\ MutationInv(callers[d])'
  BY <1>2 DEF HostInv, ListingInv, MutationInv
<1> QED
  BY <1>1, <1>3 DEF HostInv

LEMMA HostInitially == HostInit => HostInv
<1> SUFFICES ASSUME HostInit PROVE HostInv
  OBVIOUS
<1>1. NotCalling \in CallerRecords
  BY DEF NotCalling, CallerRecords, Operations, NoConnection
<1> QED
  BY <1>1 DEF HostInit, HostInv, ListingInv, MutationInv, NotCalling, NoConnection

LEMMA NoRest == 0 \in 0 .. 2
OBVIOUS

LEMMA SomeRest == 2 \in 0 .. 2
OBVIOUS

\* Falling back starts a listing over, and refuses a change that was not sent.
LEMMA WithoutBusKeeps ==
    ASSUME HostInv, NEW c \in Callers,
           callers[c].pc \in {"connect available", "connect", "proxy"}
              \/ (callers[c].op = "list" /\ callers[c].pc \in {"call", "states"})
    PROVE  /\ WithoutBus(callers[c]) \in CallerRecords
           /\ ListingInv(WithoutBus(callers[c])) /\ MutationInv(WithoutBus(callers[c]))
<1> DEFINE r == callers[c]
           n == WithoutBus(r)
<1>1. r \in CallerRecords /\ ListingInv(r) /\ MutationInv(r) /\ registered \in SUBSET Hosted
  BY Zenon DEF HostInv
<1>2. CASE r.op = "list"
  <2>1. n = [r EXCEPT !.pc = "directory", !.route = "tools", !.todo = Hosted, !.found = {}]
    BY <1>2, Zenon DEF WithoutBus
  <2>2. n \in CallerRecords
    BY <1>1, <2>1, Zenon DEF CallerRecords
  <2>3. /\ n.pc = "directory" /\ n.op = "list" /\ n.todo = Hosted /\ n.found = {}
        /\ n.always = r.always /\ n.ever = r.ever /\ n.route = "tools" /\ n.result = r.result
    BY <1>1, <1>2, <2>1, Zenon DEF CallerRecords
  <2>4. ListingInv(n) /\ MutationInv(n)
    <3> HIDE DEF n
    <3> QED
      BY <1>1, <1>2, <2>3, Zenon DEF ListingInv, MutationInv
  <2> QED
    BY <2>2, <2>4, Zenon
<1>3. CASE r.op # "list" /\ r.pc = "connect available"
  <2> DEFINE m == [r EXCEPT !.pc = "call", !.route = "tools"]
  <2>1. n = [m EXCEPT !.rest = 0]
    BY <1>3, Zenon DEF WithoutBus
  <2>2. m \in CallerRecords
    BY <1>1, Zenon DEF CallerRecords
  <2>3. n \in CallerRecords
    <3>1. \A x \in 0 .. 2 : [m EXCEPT !.rest = x] \in CallerRecords
      <4> HIDE DEF m
      <4> QED
        BY <2>2, Zenon DEF CallerRecords
    <3>2. 0 \in 0 .. 2
      BY NoRest, Zenon
    <3> HIDE DEF m, n
    <3> QED
      BY <2>1, <3>1, <3>2, Zenon
  <2>4. /\ n.pc = "call" /\ n.op = r.op /\ n.rest = 0 /\ n.host = r.host /\ n.result = r.result
    BY <1>1, <2>1, Zenon DEF CallerRecords
  <2>5. ListingInv(n) /\ MutationInv(n)
    <3> HIDE DEF n, m
    <3> QED
      BY <1>1, <1>3, <2>4, Zenon DEF ListingInv, MutationInv
  <2> QED
    BY <2>3, <2>5, Zenon
<1>4. CASE r.op # "list" /\ r.pc # "connect available"
  <2>1. n = [r EXCEPT !.pc = "done", !.result = "rejected"]
    BY <1>4, Zenon DEF WithoutBus
  <2>2. n \in CallerRecords
    BY <1>1, <2>1, Zenon DEF CallerRecords
  <2>3. /\ n.pc = "done" /\ n.op = r.op /\ n.rest = r.rest /\ n.host = r.host
        /\ n.result = "rejected"
    BY <1>1, <2>1, Zenon DEF CallerRecords
  <2>4. ListingInv(n) /\ MutationInv(n)
    <3> HIDE DEF n
    <3> QED
      BY <1>1, <1>4, <2>3, Zenon DEF ListingInv, MutationInv
  <2> QED
    BY <2>2, <2>4, Zenon
<1> QED
  BY <1>2, <1>3, <1>4, Zenon

LEMMA AskHostKeeps ==
    ASSUME HostInv, NEW c \in Callers, NEW op \in Operations, AskHost(c, op)
    PROVE  HostInv'
<1> DEFINE rest == IF op = "unitfile" THEN 1 ELSE 0
           a == [NotCalling EXCEPT !.pc = "available", !.op = op]
           b == [a EXCEPT !.always = registered, !.ever = registered]
           n == [b EXCEPT !.rest = rest]
<1>1. rest \in 0 .. 2 /\ registered \in SUBSET Hosted
  BY DEF HostInv
<1> HIDE DEF rest
<1>2. NotCalling \in CallerRecords
  BY DEF NotCalling, CallerRecords, Operations, NoConnection
<1>3. a \in CallerRecords /\ a.pc = "available" /\ a.op = op
      /\ a.host = "none" /\ a.result = "none" /\ a.found = {} /\ a.unread = {}
  BY <1>2, Zenon DEF CallerRecords, NotCalling
<1>4. CallerGoes(c, n)
  BY DEF AskHost, rest
<1> HIDE DEF a
<1>5. /\ b \in CallerRecords /\ b.pc = "available" /\ b.op = op
      /\ b.host = "none" /\ b.result = "none" /\ b.found = {} /\ b.unread = {}
      /\ b.always = registered /\ b.ever = registered
  BY <1>1, <1>3, Zenon DEF CallerRecords
<1> HIDE DEF b
<1>6. /\ n \in CallerRecords /\ n.pc = "available" /\ n.op = op /\ n.rest = rest
      /\ n.host = "none" /\ n.result = "none" /\ n.found = {} /\ n.unread = {}
      /\ n.always = registered /\ n.ever = registered
  BY <1>1, <1>5, Zenon DEF CallerRecords
<1> HIDE DEF n
<1>7. ListingInv(n) /\ MutationInv(n)
  BY <1>6 DEF ListingInv, MutationInv, rest
<1> QED
  BY <1>4, <1>6, <1>7, CallerStep DEF AskHost, HostInv

\* The steps towards the call: only the position and the lease change.
LEMMA ApproachKeeps ==
    ASSUME HostInv, NEW c \in Callers, NEW pc \in {"connect available", "connect", "lease", "proxy", "call"},
           NEW lease \in Int,
           callers[c].pc \in {"available", "lease", "connect available", "connect", "proxy"},
           CallerGoes(c, [callers[c] EXCEPT !.pc = pc, !.lease = lease]),
           UNCHANGED registered, cache' \in Int, generations' \in Int
    PROVE  HostInv'
<1> DEFINE r == callers[c]
           n == [r EXCEPT !.pc = pc, !.lease = lease]
<1>1. r \in CallerRecords /\ ListingInv(r) /\ MutationInv(r)
  BY Zenon DEF HostInv
<1>2. n \in CallerRecords
  <2> DEFINE m == [r EXCEPT !.pc = pc]
  <2>1. m \in CallerRecords
    BY <1>1, Zenon DEF CallerRecords
  <2>2. n = [m EXCEPT !.lease = lease]
    BY Zenon
  <2> HIDE DEF m
  <2> QED
    BY <2>1, <2>2, ZenonT(60) DEF CallerRecords
<1>3. /\ n.pc = pc /\ n.op = r.op /\ n.rest = r.rest /\ n.host = r.host /\ n.result = r.result
      /\ n.always = r.always /\ n.ever = r.ever /\ n.found = r.found /\ n.unread = r.unread
      /\ n.route = r.route
  BY <1>1, Zenon DEF CallerRecords
<1>4. CallerGoes(c, n)
  BY Zenon
<1> HIDE DEF n
<1>5. ListingInv(n) /\ MutationInv(n)
  BY <1>1, <1>3, Zenon DEF ListingInv, MutationInv
<1> QED
  BY <1>2, <1>4, <1>5, CallerStep, Zenon

LEMMA LeaseKeeps ==
    ASSUME HostInv, NEW c \in Callers,
           Lease(c) \/ Connect(c) \/ ConnectFails(c) \/ Proxy(c) \/ ProxyFails(c)
    PROVE  HostInv'
<1>1. cache \in Int /\ generations \in Int /\ callers[c] \in CallerRecords /\ NoConnection \in Int
  BY DEF HostInv, NoConnection
<1>2. CASE Lease(c)
  <2> DEFINE pc == IF cache = NoConnection
                   THEN IF callers[c].pc = "available" THEN "connect available" ELSE "connect"
                   ELSE IF callers[c].pc = "available" THEN "lease" ELSE "proxy"
  <2>1. CallerGoes(c, [callers[c] EXCEPT !.pc = pc, !.lease = cache])
    BY <1>2 DEF Lease
  <2>2. pc \in {"connect available", "connect", "lease", "proxy", "call"}
    OBVIOUS
  <2> HIDE DEF pc
  <2> QED
    BY <1>1, <1>2, <2>1, <2>2, ApproachKeeps, Zenon DEF Lease
<1>3. CASE Connect(c)
  <2> DEFINE pc == IF callers[c].pc = "connect" THEN "proxy" ELSE "lease"
  <2>1. CallerGoes(c, [callers[c] EXCEPT !.pc = pc, !.lease = cache'])
    BY <1>3, Zenon DEF Connect
  <2>2. pc \in {"connect available", "connect", "lease", "proxy", "call"}
    OBVIOUS
  <2>3. cache' = (IF cache = NoConnection THEN generations ELSE cache)
        /\ generations' = (IF cache = NoConnection THEN generations + 1 ELSE generations)
    BY <1>3, Zenon DEF Connect
  <2>4. cache' \in Int /\ generations' \in Int
    BY <1>1, <2>3
  <2> HIDE DEF pc
  <2> QED
    BY <1>3, <2>1, <2>2, <2>4, ApproachKeeps, Zenon DEF Connect
<1>4. CASE ConnectFails(c)
  BY <1>1, <1>4, WithoutBusKeeps, CallerStep, Zenon DEF ConnectFails
<1>5. CASE Proxy(c)
  <2>1. [callers[c] EXCEPT !.pc = "call", !.lease = callers[c].lease] = [callers[c] EXCEPT !.pc = "call"]
    BY <1>1, Zenon DEF CallerRecords
  <2>2. callers[c].lease \in Int
    BY <1>1, Zenon DEF CallerRecords
  <2> QED
    BY <1>1, <1>5, <2>1, <2>2, ApproachKeeps, Zenon DEF Proxy
<1>6. CASE ProxyFails(c)
  <2>1. cache' \in Int
    BY <1>1, <1>6 DEF ProxyFails, Invalidated
  <2> QED
    BY <1>1, <1>6, <2>1, WithoutBusKeeps, CallerStep, Zenon DEF ProxyFails
<1> QED
  BY <1>2, <1>3, <1>4, <1>5, <1>6

LEMMA ListKeeps ==
    ASSUME HostInv, NEW c \in Callers,
           ListMachines(c) \/ ListFails(c) \/ DirectoryFails(c) \/ ListEnds(c)
    PROVE  HostInv'
<1> DEFINE r == callers[c]
<1>1. /\ cache \in Int /\ generations \in Int /\ r \in CallerRecords /\ NoConnection \in Int
      /\ ListingInv(r) /\ MutationInv(r) /\ registered \in SUBSET Hosted
  BY DEF HostInv, NoConnection
<1>2. CASE ListMachines(c)
  <2> DEFINE n == [r EXCEPT !.pc = "states", !.todo = registered]
  <2>1. n \in CallerRecords
    BY <1>1, Zenon DEF CallerRecords
  <2>2. /\ n.pc = "states" /\ n.op = r.op /\ n.todo = registered /\ n.found = r.found
        /\ n.always = r.always /\ n.ever = r.ever /\ n.unread = r.unread
        /\ n.route = r.route /\ n.result = r.result
    BY <1>1, Zenon DEF CallerRecords
  <2>3. CallerGoes(c, n) /\ r.op = "list" /\ r.pc = "call"
    BY <1>2 DEF ListMachines
  <2> HIDE DEF n
  <2>4. ListingInv(n) /\ MutationInv(n)
    BY <1>1, <2>2, <2>3 DEF ListingInv, MutationInv
  <2> QED
    BY <1>1, <1>2, <2>1, <2>3, <2>4, CallerStep DEF ListMachines
<1>3. CASE ListFails(c)
  <2>1. cache' \in Int
    BY <1>1, <1>3 DEF ListFails, Invalidated
  <2> QED
    BY <1>1, <1>3, <2>1, WithoutBusKeeps, CallerStep, Zenon DEF ListFails
<1>4. CASE ListEnds(c)
  <2> DEFINE n == [r EXCEPT !.pc = "done", !.result = "ok"]
  <2>1. n \in CallerRecords
    BY <1>1, Zenon DEF CallerRecords
  <2>2. /\ n.pc = "done" /\ n.op = r.op /\ n.found = r.found
        /\ n.always = r.always /\ n.ever = r.ever /\ n.unread = r.unread /\ n.route = r.route
    BY <1>1, Zenon DEF CallerRecords
  <2>3. CallerGoes(c, n) /\ r.todo = {} /\ r.pc \in {"states", "directory"}
    BY <1>4 DEF ListEnds
  <2> HIDE DEF n
  <2>4. ListingInv(n) /\ MutationInv(n)
    BY <1>1, <2>2, <2>3 DEF ListingInv, MutationInv
  <2> QED
    BY <1>1, <1>4, <2>1, <2>3, <2>4, CallerStep DEF ListEnds
<1>5. CASE DirectoryFails(c)
  <2> DEFINE n == [r EXCEPT !.pc = "done", !.result = "rejected"]
  <2>1. n \in CallerRecords
    BY <1>1, Zenon DEF CallerRecords
  <2>2. /\ n.pc = "done" /\ n.op = r.op /\ n.result = "rejected"
        /\ n.unread = r.unread /\ n.route = r.route
    BY <1>1, Zenon DEF CallerRecords
  <2>3. CallerGoes(c, n) /\ r.pc = "directory"
    BY <1>5 DEF DirectoryFails
  <2> HIDE DEF n
  <2>4. ListingInv(n) /\ MutationInv(n)
    BY <1>1, <2>2, <2>3 DEF ListingInv, MutationInv
  <2> QED
    BY <1>1, <1>5, <2>1, <2>3, <2>4, CallerStep DEF DirectoryFails
<1> QED
  BY <1>2, <1>3, <1>4, <1>5

\* Both ways of looking at one name: it leaves "todo", and is found, is not
\* registered, or had a registration that could not be read.
LEMMA LookKeeps ==
    ASSUME HostInv, NEW c \in Callers, NEW m \in Hosted,
           callers[c].pc \in {"states", "directory"}, m \in callers[c].todo,
           NEW found \in {callers[c].found, callers[c].found \cup {m}},
           NEW unread \in {callers[c].unread, callers[c].unread \cup {m}},
           m \in registered => m \in found \/ m \in unread,
           m \in found => m \in callers[c].found \/ m \in registered \/ callers[c].pc = "states",
           unread = callers[c].unread \/ callers[c].pc = "directory",
           CallerGoes(c, [callers[c] EXCEPT !.todo = @ \ {m}, !.found = found, !.unread = unread]),
           UNCHANGED <<registered, generations>>, cache' \in Int
    PROVE  HostInv'
<1> DEFINE r == callers[c]
           todo == r.todo \ {m}
           p == [r EXCEPT !.todo = todo, !.found = found]
           n == [p EXCEPT !.unread = unread]
<1>1. /\ cache \in Int /\ generations \in Int /\ r \in CallerRecords
      /\ ListingInv(r) /\ MutationInv(r) /\ registered \in SUBSET Hosted
  BY DEF HostInv
<1>2. todo \in SUBSET Hosted /\ found \in SUBSET Hosted /\ unread \in SUBSET Hosted
  BY <1>1, Zenon DEF CallerRecords
<1>3. CallerGoes(c, n)
  BY <1>1, Zenon DEF CallerRecords
<1>4. todo = r.todo \ {m}
  OBVIOUS
<1> HIDE DEF todo
<1>5. p \in CallerRecords
  BY <1>1, <1>2, Zenon DEF CallerRecords
<1>6. /\ p.pc = r.pc /\ p.op = r.op /\ p.found = found /\ p.todo = todo
      /\ p.always = r.always /\ p.ever = r.ever /\ p.route = r.route /\ p.result = r.result
  BY <1>1, <1>2, Zenon DEF CallerRecords
<1>7. /\ p.rest = r.rest /\ p.host = r.host
  BY <1>1, <1>2, Zenon DEF CallerRecords
<1> HIDE DEF p
<1>8. n \in CallerRecords
  BY <1>2, <1>5, Zenon DEF CallerRecords
<1>9. /\ n.pc = r.pc /\ n.op = r.op /\ n.found = found /\ n.todo = todo
       /\ n.always = r.always /\ n.ever = r.ever /\ n.route = r.route /\ n.result = r.result
       /\ n.rest = r.rest /\ n.host = r.host /\ n.unread = unread
  BY <1>2, <1>5, <1>6, <1>7, Zenon DEF CallerRecords
<1> HIDE DEF n
<1>10. MutationInv(n)
  BY <1>1, <1>9 DEF ListingInv, MutationInv
<1>11. ListingInv(n)
  BY <1>1, <1>4, <1>9 DEF ListingInv
<1> QED
  BY <1>1, <1>3, <1>8, <1>10, <1>11, CallerStep

LEMMA LookingKeeps ==
    ASSUME HostInv, NEW c \in Callers, NEW m \in Hosted,
           NEW readable \in BOOLEAN,
           ReadRegistration(c, m, readable) \/ QueryState(c, m, readable)
    PROVE  HostInv'
<1>1. /\ cache \in Int /\ callers[c] \in CallerRecords /\ NoConnection \in Int
  BY DEF HostInv, NoConnection
<1>2. CASE ReadRegistration(c, m, readable)
  <2> DEFINE found == IF m \in registered /\ readable THEN callers[c].found \cup {m} ELSE callers[c].found
             unread == IF readable THEN callers[c].unread ELSE callers[c].unread \cup {m}
  <2>1. CallerGoes(c, [callers[c] EXCEPT !.todo = @ \ {m}, !.found = found, !.unread = unread])
    BY <1>1, <1>2, Zenon DEF ReadRegistration
  <2>2. /\ found \in {callers[c].found, callers[c].found \cup {m}}
        /\ unread \in {callers[c].unread, callers[c].unread \cup {m}}
        /\ m \in registered => m \in found \/ m \in unread
        /\ m \in found => m \in callers[c].found \/ m \in registered
    BY Zenon
  <2> HIDE DEF found, unread
  <2>3. /\ callers[c].pc = "directory" /\ m \in callers[c].todo
        /\ UNCHANGED <<registered, generations>> /\ cache' \in Int
    BY <1>1, <1>2, Zenon DEF ReadRegistration
  <2> QED
    BY <2>1, <2>2, <2>3, LookKeeps, Zenon
<1>3. CASE QueryState(c, m, readable)
  <2> DEFINE found == MachineState(c, m, readable)
  <2>1. CallerGoes(c, [callers[c] EXCEPT !.todo = @ \ {m}, !.found = found, !.unread = callers[c].unread])
    <3>1. [callers[c] EXCEPT !.todo = @ \ {m}, !.found = found, !.unread = callers[c].unread]
            = [callers[c] EXCEPT !.todo = @ \ {m}, !.found = found]
      BY <1>1, Zenon DEF CallerRecords
    <3> QED
      BY <1>3, <3>1, Zenon DEF QueryState
  <2>2. /\ found \in {callers[c].found, callers[c].found \cup {m}} /\ (m \in registered => m \in found)
    BY DEF MachineState
  <2>3. cache' \in Int /\ callers[c].pc = "states" /\ m \in callers[c].todo
        /\ UNCHANGED <<registered, generations>>
    BY <1>1, <1>3, Zenon DEF QueryState, Invalidated
  <2> HIDE DEF found
  <2> QED
    BY <1>1, <2>1, <2>2, <2>3, LookKeeps, Zenon
<1> QED
  BY <1>2, <1>3

LEMMA MutationKeeps ==
    ASSUME HostInv, NEW c \in Callers,
           SendMutation(c) \/ MutationReplies(c) \/ MutationTimesOut(c) \/ MutationLost(c)
    PROVE  HostInv'
<1> DEFINE r == callers[c]
<1>1. /\ cache \in Int /\ generations \in Int /\ r \in CallerRecords /\ NoConnection \in Int
      /\ ListingInv(r) /\ MutationInv(r)
  BY DEF HostInv, NoConnection
<1>2. CASE SendMutation(c)
  <2> DEFINE sent == IF Healthy(c) THEN "pending" ELSE r.host
             n == [r EXCEPT !.pc = "await", !.host = sent]
  <2>1. sent \in {"none", "pending", "done", "refused"}
    BY <1>1, Zenon DEF CallerRecords
  <2>2. CallerGoes(c, n) /\ r.pc = "call" /\ r.op \in Mutations
    BY <1>1, <1>2 DEF SendMutation
  <2> HIDE DEF sent
  <2>3. n \in CallerRecords
    BY <1>1, <2>1, Zenon DEF CallerRecords
  <2>4. n.pc = "await" /\ n.op = r.op /\ n.rest = r.rest /\ n.host = sent /\ n.result = r.result
    BY <1>1, Zenon DEF CallerRecords
  <2> HIDE DEF n
  <2>5. ListingInv(n) /\ MutationInv(n)
    BY <1>1, <2>2, <2>4 DEF ListingInv, MutationInv, Mutations
  <2> QED
    BY <1>1, <1>2, <2>2, <2>3, <2>5, CallerStep DEF SendMutation
<1>3. CASE MutationReplies(c)
  <2>1. CASE r.host = "done" /\ r.rest = 1
    <3> DEFINE m == [r EXCEPT !.pc = "lease"]
               n == [m EXCEPT !.rest = 2]
    <3>1. m \in CallerRecords /\ m.pc = "lease" /\ m.op = r.op
      BY <1>1, Zenon DEF CallerRecords
    <3>2. CallerGoes(c, n) /\ r.pc = "await"
      BY <1>3, <2>1 DEF MutationReplies
    <3> HIDE DEF m
    <3>3. \A x \in 0 .. 2 : [m EXCEPT !.rest = x] \in CallerRecords
      BY <3>1, Zenon DEF CallerRecords
    <3>4. n \in CallerRecords
      BY <3>3, SomeRest
    <3>5. n.pc = "lease" /\ n.op = r.op
      BY <3>1, Zenon DEF CallerRecords
    <3> HIDE DEF n
    <3>6. ListingInv(n) /\ MutationInv(n)
      <4>1. r.op \in Mutations
        BY <1>1, <3>2, Zenon DEF MutationInv
      <4>2. n.op \notin {"list", "control", "remove"}
        BY <1>1, <2>1, <3>5, <4>1 DEF MutationInv, Mutations
      <4> QED
        BY <3>5, <4>2 DEF ListingInv, MutationInv
    <3> QED
      BY <1>1, <1>3, <3>2, <3>4, <3>6, CallerStep DEF MutationReplies
  <2>2. CASE ~ (r.host = "done" /\ r.rest = 1)
    <3> DEFINE result == IF r.host = "done" THEN "ok" ELSE "rejected"
               n == [r EXCEPT !.pc = "done", !.result = result]
    <3>1. result \in {"ok", "rejected"}
      OBVIOUS
    <3>2. CallerGoes(c, n) /\ r.pc = "await" /\ r.host \in {"done", "refused"}
      BY <1>3, <2>2 DEF MutationReplies
    <3>3. result = "ok" => r.host = "done"
      OBVIOUS
    <3>4. result = "rejected" => r.host # "done"
      OBVIOUS
    <3> HIDE DEF result
    <3>5. n \in CallerRecords
      BY <1>1, <3>1, Zenon DEF CallerRecords
    <3>6. n.pc = "done" /\ n.op = r.op /\ n.rest = r.rest /\ n.host = r.host /\ n.result = result
      BY <1>1, Zenon DEF CallerRecords
    <3> HIDE DEF n
    <3>7. ListingInv(n) /\ MutationInv(n)
      BY <1>1, <3>1, <3>2, <3>3, <3>4, <3>6 DEF ListingInv, MutationInv, Mutations
    <3> QED
      BY <1>1, <1>3, <3>2, <3>5, <3>7, CallerStep DEF MutationReplies
  <2> QED
    BY <2>1, <2>2
<1>4. ASSUME NEW result \in {"unknown", "lost"},
             CallerGoes(c, [r EXCEPT !.pc = "done", !.result = result]), r.pc = "await"
      PROVE  \E n \in CallerRecords : CallerGoes(c, n) /\ ListingInv(n) /\ MutationInv(n)
  <2> DEFINE n == [r EXCEPT !.pc = "done", !.result = result]
  <2>1. n \in CallerRecords
    BY <1>1, Zenon DEF CallerRecords
  <2>2. n.pc = "done" /\ n.op = r.op /\ n.rest = r.rest /\ n.host = r.host /\ n.result = result
    BY <1>1, Zenon DEF CallerRecords
  <2>3. CallerGoes(c, n)
    BY <1>4
  <2> HIDE DEF n
  <2>4. ListingInv(n) /\ MutationInv(n)
    BY <1>1, <1>4, <2>2 DEF ListingInv, MutationInv, Mutations
  <2> QED
    BY <2>1, <2>3, <2>4
<1>5. CASE MutationTimesOut(c)
  <2>1. cache' \in Int
    BY <1>1, <1>5 DEF MutationTimesOut, Invalidated
  <2> QED
    BY <1>1, <1>4, <1>5, <2>1, CallerStep DEF MutationTimesOut
<1>6. CASE MutationLost(c)
  <2>1. cache' \in Int
    BY <1>1, <1>6 DEF MutationLost, Invalidated
  <2> QED
    BY <1>1, <1>4, <1>6, <2>1, CallerStep DEF MutationLost
<1> QED
  BY <1>2, <1>3, <1>5, <1>6

LEMMA EndKeeps ==
    ASSUME HostInv, NEW c \in Callers, ReturnToCaller(c) \/ HostSettles(c)
    PROVE  HostInv'
<1> DEFINE r == callers[c]
<1>1. /\ cache \in Int /\ generations \in Int /\ r \in CallerRecords
      /\ ListingInv(r) /\ MutationInv(r)
  BY DEF HostInv
<1>2. CASE ReturnToCaller(c)
  <2>1. NotCalling \in CallerRecords
    BY DEF NotCalling, CallerRecords, Operations, NoConnection
  <2>2. ListingInv(NotCalling) /\ MutationInv(NotCalling)
    BY DEF ListingInv, MutationInv, NotCalling
  <2> QED
    BY <1>1, <1>2, <2>1, <2>2, CallerStep DEF ReturnToCaller
<1>3. CASE HostSettles(c)
  <2>1. PICK h \in {"done", "refused"} : CallerGoes(c, [r EXCEPT !.host = h])
    BY <1>3 DEF HostSettles
  <2> DEFINE n == [r EXCEPT !.host = h]
  <2>2. n \in CallerRecords
    BY <1>1, Zenon DEF CallerRecords
  <2>3. /\ n.pc = r.pc /\ n.op = r.op /\ n.rest = r.rest /\ n.host = h /\ n.result = r.result
        /\ n.todo = r.todo /\ n.found = r.found /\ n.always = r.always /\ n.ever = r.ever
        /\ n.unread = r.unread /\ n.route = r.route
    BY <1>1, Zenon DEF CallerRecords
  <2>4. r.host = "pending"
    BY <1>3 DEF HostSettles
  <2>5. CallerGoes(c, n)
    BY <2>1
  <2> HIDE DEF n
  <2>6. ListingInv(n) /\ MutationInv(n)
    BY <1>1, <2>3, <2>4 DEF ListingInv, MutationInv
  <2> QED
    BY <1>1, <1>3, <2>2, <2>5, <2>6, CallerStep DEF HostSettles
<1> QED
  BY <1>2, <1>3

\* The bookkeeping of a listing follows the registrations while it runs.
LEMMA RegistrationKeeps ==
    ASSUME HostInv, NEW m \in Hosted, RegistrationChanges(m)
    PROVE  HostInv'
<1>1. registered' \in SUBSET Hosted /\ cache' \in Int /\ generations' \in Int
  BY Zenon DEF HostInv, RegistrationChanges
<1>2. ASSUME NEW c \in Callers
      PROVE  callers'[c] \in CallerRecords /\ ListingInv(callers[c])' /\ MutationInv(callers[c])'
  <2> DEFINE r == callers[c]
             always == r.always \cap registered'
             ever == r.ever \cup registered'
             n == [r EXCEPT !.always = always, !.ever = ever]
  <2>1. r \in CallerRecords /\ ListingInv(r) /\ MutationInv(r)
    BY DEF HostInv
  <2>2. CASE ~ Listing(c)
    <3>1. callers'[c] = r
      BY <2>2, Zenon DEF RegistrationChanges
    <3> QED
      BY <2>1, <2>2, <3>1 DEF ListingInv, MutationInv, Listing
  <2>3. CASE Listing(c)
    <3>1. callers'[c] = n /\ r.op = "list" /\ r.pc \notin {"idle", "done"}
      BY <2>1, <2>3, Zenon DEF RegistrationChanges, Listing, CallerRecords
    <3>2. always \in SUBSET Hosted /\ ever \in SUBSET Hosted
      BY <1>1, <2>1, Zenon DEF CallerRecords
    <3>3. always \subseteq r.always /\ always \subseteq registered' /\ r.ever \subseteq ever
          /\ registered' \subseteq ever
      OBVIOUS
    <3> HIDE DEF always, ever
    <3>4. n \in CallerRecords
      BY <2>1, <3>2, Zenon DEF CallerRecords
    <3>5. /\ n.pc = r.pc /\ n.op = r.op /\ n.todo = r.todo /\ n.found = r.found
          /\ n.always = always /\ n.ever = ever /\ n.unread = r.unread
          /\ n.route = r.route /\ n.result = r.result
      BY <2>1, <3>2, Zenon DEF CallerRecords
    <3> HIDE DEF n
    <3>6. ListingInv(callers[c])'
      BY <2>1, <3>1, <3>3, <3>5 DEF ListingInv
    <3>7. MutationInv(callers[c])'
      BY <2>1, <3>1, <3>5 DEF MutationInv
    <3> QED
      BY <3>1, <3>4, <3>6, <3>7
  <2> QED
    BY <2>2, <2>3
<1>3. callers' \in [Callers -> CallerRecords]
  BY <1>2, Zenon DEF RegistrationChanges
<1> QED
  BY <1>1, <1>2, <1>3 DEF HostInv

\* The bookkeeping of every call is right, for any number of callers, machines
\* and connections, however calls, failures and deadlines interleave.
THEOREM HostInvariant == HostSpec => []HostInv
<1>1. HostInv /\ [HostNext]_hostVars => HostInv'
  <2> SUFFICES ASSUME HostInv, [HostNext]_hostVars PROVE HostInv'
    OBVIOUS
  <2>1. CASE \E c \in Callers :
               \/ \E op \in Operations : AskHost(c, op)
               \/ Lease(c) \/ Connect(c) \/ ConnectFails(c) \/ Proxy(c) \/ ProxyFails(c)
    BY <2>1, AskHostKeeps, LeaseKeeps
  <2>2. CASE \E c \in Callers :
               \/ ListMachines(c) \/ ListFails(c) \/ DirectoryFails(c) \/ ListEnds(c)
               \/ \E m \in Hosted, r \in BOOLEAN : ReadRegistration(c, m, r) \/ QueryState(c, m, r)
    BY <2>2, ListKeeps, LookingKeeps
  <2>3. CASE \E c \in Callers :
               \/ SendMutation(c) \/ MutationReplies(c) \/ MutationTimesOut(c) \/ MutationLost(c)
               \/ ReturnToCaller(c) \/ HostSettles(c)
    BY <2>3, MutationKeeps, EndKeeps
  <2>4. CASE \E g \in 0 .. MaxConnections : ConnectionBreaks(g)
    <3>1. UNCHANGED <<generations, registered, callers>> /\ cache' = cache
      BY <2>4 DEF ConnectionBreaks
    <3> QED
      BY <3>1, Zenon DEF HostInv, ListingInv
  <2>5. CASE \E m \in Hosted : RegistrationChanges(m)
    BY <2>5, RegistrationKeeps
  <2>6. CASE UNCHANGED hostVars
    BY <2>6, Zenon DEF hostVars, HostInv, ListingInv
  <2> QED
    BY <2>1, <2>2, <2>3, <2>4, <2>5, <2>6 DEF HostNext
<1> QED
  BY HostInitially, <1>1, PTL DEF HostSpec

\* A listing that succeeds, over the bus or over the registrations after the
\* bus failed halfway, names none that never was registered meanwhile and every
\* machine that was all the while; without the bus, every one of those whose
\* registration could be read.
THEOREM ListingsAreFaithful == HostSpec => []ListingIsFaithful
<1>1. HostInv => ListingIsFaithful
  BY DEF HostInv, ListingInv, ListingIsFaithful
<1> QED
  BY HostInvariant, <1>1, PTL

\* A change is reported as done or as refused only when that is what the host
\* did and will have done, whatever deadline passed or connection broke.
THEOREM OutcomesAreHonest == HostSpec => []OutcomeIsHonest
<1>1. HostInv => OutcomeIsHonest
  BY DEF HostInv, MutationInv, OutcomeIsHonest
<1> QED
  BY HostInvariant, <1>1, PTL

-----------------------------------------------------------------------------
(* The NVIDIA synchronisation.                                             *)

Scanned == UNION {Scan(v) : v \in Versions}
Binds == Scanned \cup AdminBinds
NspawnFiles ==
    [enabled : BOOLEAN, marks : {"none", "whole", "broken", "removed"}, block : SUBSET Binds,
     loose : SUBSET Binds]
StateFiles == [kind : {"absent", "owned", "unmarked", "legacy", "foreign"}, binds : SUBSET Binds]
Passes ==
    [pc : {"idle", "discover", "cleanup", "update", "persist", "allow"}, seen : NspawnFiles,
     old : StateFiles, scan : SUBSET Binds,
     result : {"none", "not configured", "error", "skipped", "synchronized"}]
NvidiaTypeOK ==
    /\ host \in Versions \cup {0} /\ nspawn \in NspawnFiles /\ state \in StateFiles
    /\ pass \in Passes /\ touched \in BOOLEAN
    /\ files \in [Destinations -> {"absent", "content", "mountpoint", "unmanaged"}]

\* What the pass found out still holds where it matters: nobody else writes
\* the state file, and the administrator only takes binds out of the block.
PassInv ==
    /\ pass.pc \in {"cleanup", "update", "persist", "discover"} =>
         pass.old = state /\ state.kind # "foreign"
    /\ pass.pc = "discover" =>
         /\ nspawn.block \subseteq pass.seen.block
         /\ touched \/ pass.seen = nspawn
    /\ pass.pc \in {"cleanup", "update", "persist", "allow"} => pass.scan # {}
    /\ pass.pc \in {"persist", "allow"} \/ pass.result = "synchronized" =>
         /\ nspawn.block \subseteq pass.scan
         /\ touched \/ MarkerBindsMatch(nspawn, pass.scan)
    /\ pass.pc = "allow" \/ pass.result = "synchronized" =>
         SamePayload(state, pass.scan) /\ (state.kind = "owned" \/ state = pass.old)
    /\ pass.result = "synchronized" => pass.pc = "idle" /\ allowed = Devices(pass.scan)

\* Before the state file is replaced, what only the old one names is gone.
MountsInv ==
    /\ nspawn.marks = "removed" => \A d \in Destinations : files[d] # "mountpoint"
    /\ \A d \in Destinations : files[d] = "mountpoint" =>
         /\ state.kind # "foreign" => d \in Dests(state.binds) \cup passedOver
         /\ pass.pc \in {"update", "persist"} => d \in Dests(pass.scan) \cup passedOver

NvidiaInv == NvidiaTypeOK /\ PassInv /\ MountsInv

LEMMA PassMoves ==
    ASSUME pass \in Passes,
           NEW pc \in {"idle", "discover", "cleanup", "update", "persist", "allow"}, PassGoes(pc)
    PROVE  /\ pass' \in Passes /\ pass'.pc = pc /\ pass'.seen = pass.seen /\ pass'.old = pass.old
           /\ pass'.scan = pass.scan /\ pass'.result = pass.result
BY Zenon DEF PassGoes, Passes

LEMMA PassFinishes ==
    ASSUME pass \in Passes, NEW r \in {"error", "synchronized"}, PassEnds(r)
    PROVE  /\ pass' \in Passes /\ pass'.pc = "idle" /\ pass'.seen = pass.seen
           /\ pass'.old = pass.old /\ pass'.scan = pass.scan /\ pass'.result = r
<1> DEFINE p == [pass EXCEPT !.pc = "idle"]
<1>1. p \in Passes
  BY Zenon DEF Passes
<1>2. pass' = [p EXCEPT !.result = r]
  BY DEF PassEnds
<1>3. pass' \in Passes
  <2> HIDE DEF p
  <2> QED
    BY <1>1, <1>2, Zenon DEF Passes
<1> QED
  BY <1>2, <1>3, Zenon DEF Passes

LEMMA NoPassIsPass ==
    /\ NoPass \in Passes /\ NoStateFile \in StateFiles
    /\ NoPass.pc = "idle" /\ NoPass.result = "none"
<1>1. NoStateFile \in StateFiles
  BY DEF NoStateFile, StateFiles
<1>2. [enabled |-> FALSE, marks |-> "none", block |-> {}, loose |-> {}] \in NspawnFiles
  BY DEF NspawnFiles
<1> QED
  BY <1>1, <1>2 DEF NoPass, Passes

LEMMA ScanFacts ==
    ASSUME NEW v \in Versions
    PROVE  /\ Scan(v) \in SUBSET Binds /\ Scan(v) # {}
           /\ Owned(Scan(v)) \in StateFiles /\ Deployed(v) \in NspawnFiles
<1>1. Scan(v) \in SUBSET Binds
  BY DEF Binds, Scanned
<1> QED
  BY <1>1, ScanAssumption DEF Owned, StateFiles, Deployed, NspawnFiles

LEMMA NvidiaInitially == NvidiaInit => NvidiaInv
<1> SUFFICES ASSUME NvidiaInit PROVE NvidiaInv
  OBVIOUS
<1>1. PICK v \in Versions :
        /\ host = v /\ nspawn = Deployed(v) /\ allowed = Devices(Scan(v))
        /\ state \in {Owned(Scan(v)), [kind |-> "foreign", binds |-> {}]}
             \cup [kind : {"unmarked", "legacy"}, binds : {Scan(v)}]
  BY DEF NvidiaInit
<1>2. state \in StateFiles
  BY <1>1, ScanFacts DEF StateFiles
<1>3. files \in [Destinations -> {"absent", "content"}] /\ pass = NoPass /\ touched = FALSE
  BY DEF NvidiaInit
<1>4. NvidiaTypeOK
  BY <1>1, <1>2, <1>3, ScanFacts, NoPassIsPass, Zenon DEF NvidiaTypeOK
<1>5. PassInv
  BY <1>3, NoPassIsPass DEF PassInv
<1>6. MountsInv
  BY <1>3 DEF MountsInv
<1> QED
  BY <1>4, <1>5, <1>6 DEF NvidiaInv

\* A pass that fails, crashes or has not begun promises nothing.
LEMMA IdleKeeps ==
    ASSUME NvidiaInv, pass' \in Passes, pass'.pc = "idle", pass'.result # "synchronized",
           UNCHANGED <<host, nspawn, state, passedOver>>, touched' \in BOOLEAN,
           files' \in [Destinations -> {"absent", "content", "mountpoint", "unmanaged"}],
           \A d \in Destinations : files'[d] = "mountpoint" => files[d] = "mountpoint"
    PROVE  NvidiaInv'
<1>1. NvidiaTypeOK'
  BY DEF NvidiaInv, NvidiaTypeOK
<1>2. PassInv'
  BY DEF PassInv
<1>3. MountsInv'
  BY DEF NvidiaInv, MountsInv
<1> QED
  BY <1>1, <1>2, <1>3 DEF NvidiaInv

LEMMA FailsKeeps ==
    ASSUME NvidiaInv, Fails, UNCHANGED <<host, nspawn, state, passedOver, touched>>,
           files' \in [Destinations -> {"absent", "content", "mountpoint", "unmanaged"}],
           \A d \in Destinations : files'[d] = "mountpoint" => files[d] = "mountpoint"
    PROVE  NvidiaInv'
<1>1. pass' \in Passes /\ pass'.pc = "idle" /\ pass'.result = "error"
  BY PassFinishes DEF NvidiaInv, NvidiaTypeOK, Fails
<1> QED
  BY <1>1, IdleKeeps DEF NvidiaInv, NvidiaTypeOK

LEMMA BeginKeeps ==
    ASSUME NvidiaInv, Begin
    PROVE  NvidiaInv'
<1> DEFINE pc == IF nspawn.enabled /\ state.kind # "foreign" THEN "discover" ELSE "idle"
           r == CASE ~nspawn.enabled -> "not configured"
                  [] nspawn.enabled /\ state.kind = "foreign" -> "error"
                  [] OTHER -> "none"
           a == [NoPass EXCEPT !.seen = nspawn]
           b == [a EXCEPT !.old = state]
           c == [b EXCEPT !.pc = pc]
<1>1. /\ nspawn \in NspawnFiles /\ state \in StateFiles /\ files' = files
      /\ UNCHANGED <<host, nspawn, state, passedOver>> /\ touched' = FALSE
      /\ files \in [Destinations -> {"absent", "content", "mountpoint", "unmanaged"}]
  BY DEF NvidiaInv, NvidiaTypeOK, Begin, World
<1>2. CASE pass' = [NoPass EXCEPT !.result = "skipped"]
  <2>1. pass' \in Passes /\ pass'.pc = "idle" /\ pass'.result = "skipped"
    BY <1>2, NoPassIsPass, Zenon DEF Passes
  <2> QED
    BY <1>1, <2>1, IdleKeeps, Zenon
<1>3. CASE pass' = [c EXCEPT !.result = r]
  <2>1. r \in {"not configured", "error", "none"} /\ pc \in {"idle", "discover"}
    BY <1>1 DEF NspawnFiles
  <2>2. a \in Passes /\ a.seen = nspawn
    BY <1>1, NoPassIsPass, Zenon DEF Passes
  <2> HIDE DEF a
  <2>3. b \in Passes /\ b.seen = nspawn /\ b.old = state
    BY <1>1, <2>2, Zenon DEF Passes
  <2> HIDE DEF b
  <2>4. pc = "discover" => state.kind # "foreign"
    OBVIOUS
  <2> HIDE DEF pc, r
  <2>5. c \in Passes /\ c.seen = nspawn /\ c.old = state /\ c.pc = pc
    BY <2>1, <2>3, Zenon DEF Passes
  <2> HIDE DEF c
  <2>6. pass' \in Passes /\ pass'.seen = nspawn /\ pass'.old = state /\ pass'.pc = pc /\ pass'.result = r
    BY <1>3, <2>1, <2>5, Zenon DEF Passes
  <2>7. NvidiaTypeOK'
    BY <1>1, <2>6, Zenon DEF NvidiaInv, NvidiaTypeOK
  <2>8. PassInv'
    BY <1>1, <2>1, <2>4, <2>6, Zenon DEF PassInv
  <2>9. MountsInv'
    BY <1>1, <2>1, <2>6, Zenon DEF NvidiaInv, MountsInv
  <2> QED
    BY <2>7, <2>8, <2>9 DEF NvidiaInv
<1> QED
  BY <1>2, <1>3 DEF Begin

LEMMA DiscoverKeeps ==
    ASSUME NvidiaInv, Discover
    PROVE  NvidiaInv'
<1>1. /\ pass.pc = "discover" /\ pass \in Passes /\ nspawn \in NspawnFiles /\ state \in StateFiles
      /\ UNCHANGED <<host, nspawn, state, passedOver, touched, files>> /\ pass.result # "synchronized"
      /\ files \in [Destinations -> {"absent", "content", "mountpoint", "unmanaged"}]
      /\ host \in Versions \cup {0}
  BY DEF NvidiaInv, NvidiaTypeOK, PassInv, Discover, PassAt, World
<1>2. CASE host = 0
  BY <1>1, <1>2, FailsKeeps DEF Discover
<1>3. CASE host # 0
  <2> DEFINE scan == Scan(host)
             fast == FastPath(pass.old, pass.seen, scan)
             refuses == Refuses(pass.seen, pass.old, scan)
             r == IF ~fast /\ refuses THEN "error" ELSE pass.result
             pc == CASE fast -> "allow" [] OTHER -> IF refuses THEN "idle" ELSE After("check")
             a == [pass EXCEPT !.scan = scan]
             b == [a EXCEPT !.result = r]
  <2>1. pass' = [b EXCEPT !.pc = pc]
    BY <1>1, <1>3, Zenon DEF Discover, Passes
  <2>2. scan \in SUBSET Binds /\ scan # {}
    BY <1>1, <1>3, ScanFacts
  <2>3. After("check") = "cleanup"
    BY DEF After
  <2>4. r \in {"error", pass.result} /\ pc \in {"allow", "idle", "cleanup"} /\ (pc = "allow" => fast)
    BY <2>3
  <2>5. r # "synchronized" /\ r \in {"none", "not configured", "error", "skipped", "synchronized"}
    BY <1>1, <2>4, Zenon DEF Passes
  <2>6. pc = "allow" => SamePayload(pass.old, scan) /\ pass.seen.marks = "whole"
                        /\ pass.seen.block = scan
    BY <2>4 DEF FastPath, MarkerBindsMatch
  <2> HIDE DEF r, pc, scan
  <2>7. a \in Passes /\ a.old = pass.old /\ a.scan = scan
    BY <1>1, <2>2, Zenon DEF Passes
  <2> HIDE DEF a
  <2>8. b \in Passes /\ b.old = pass.old /\ b.scan = scan /\ b.result = r
    BY <2>5, <2>7, Zenon DEF Passes
  <2> HIDE DEF b
  <2>9. /\ pass' \in Passes /\ pass'.old = pass.old /\ pass'.scan = scan /\ pass'.result = r
        /\ pass'.pc = pc
    BY <2>1, <2>4, <2>8, Zenon DEF Passes
  <2>10. NvidiaTypeOK'
    BY <1>1, <2>9 DEF NvidiaInv, NvidiaTypeOK
  <2>11. pass.old = state /\ state.kind # "foreign" /\ nspawn.block \subseteq pass.seen.block
         /\ (touched \/ pass.seen = nspawn)
    BY <1>1 DEF NvidiaInv, PassInv
  <2>12. pc = "allow" => SamePayload(state, scan) /\ state = pass.old
    BY <2>6, <2>11
  <2>13. PassInv'
    BY <1>1, <2>2, <2>4, <2>5, <2>6, <2>9, <2>11, <2>12, Zenon DEF PassInv, MarkerBindsMatch
  <2>14. MountsInv'
    BY <1>1, <2>4, <2>9 DEF NvidiaInv, MountsInv
  <2> QED
    BY <2>10, <2>13, <2>14 DEF NvidiaInv
<1> QED
  BY <1>2, <1>3

\* What the scan no longer has is removed, or remembered as passed over.
LEMMA CleanupKeeps ==
    ASSUME NvidiaInv, Cleanup
    PROVE  NvidiaInv'
<1>1. /\ pass.pc = "cleanup" /\ pass \in Passes /\ UNCHANGED <<host, nspawn, state, touched>>
      /\ pass.old = state /\ state.kind # "foreign" /\ pass.result # "synchronized"
  BY DEF NvidiaInv, NvidiaTypeOK, PassInv, Cleanup, PassAt, World
<1>2. PICK gone \in SUBSET Stale :
        /\ files' = [d \in Destinations |-> IF d \in gone THEN "absent" ELSE files[d]]
        /\ \/ PassGoes(After("cleanup")) /\ passedOver' = passedOver \cup (Stale \ gone)
           \/ gone # Stale /\ Fails /\ UNCHANGED passedOver
  BY DEF Cleanup
<1>3. files' \in [Destinations -> {"absent", "content", "mountpoint", "unmanaged"}]
  BY <1>2 DEF NvidiaInv, NvidiaTypeOK
<1>4. \A d \in Destinations : files'[d] = "mountpoint" => files[d] = "mountpoint" /\ d \notin gone
  BY <1>2
<1>5. CASE Fails /\ UNCHANGED passedOver
  BY <1>1, <1>3, <1>4, <1>5, FailsKeeps
<1>6. CASE PassGoes(After("cleanup")) /\ passedOver' = passedOver \cup (Stale \ gone)
  <2>1. /\ pass' \in Passes /\ pass'.pc = "update" /\ pass'.old = pass.old /\ pass'.scan = pass.scan
        /\ pass'.result = pass.result
    BY <1>1, <1>6, PassMoves DEF After
  <2>2. NvidiaTypeOK'
    BY <1>1, <1>3, <2>1 DEF NvidiaInv, NvidiaTypeOK
  <2>3. PassInv'
    BY <1>1, <2>1 DEF NvidiaInv, PassInv
  <2>4. ASSUME NEW d \in Destinations, files'[d] = "mountpoint"
        PROVE  d \in Dests(pass.scan) \cup passedOver'
    <3>1. d \in Dests(state.binds) \cup passedOver
      BY <1>1, <1>4, <2>4 DEF NvidiaInv, MountsInv
    <3>2. d \in Dests(state.binds) \ Dests(pass.scan) => d \in Stale
      BY <1>1, <1>4, <2>4 DEF Stale, DeathList
    <3> QED
      BY <1>4, <1>6, <2>4, <3>1, <3>2
  <2>5. MountsInv'
    BY <1>1, <1>4, <1>6, <2>1, <2>4 DEF NvidiaInv, MountsInv
  <2> QED
    BY <2>2, <2>3, <2>5 DEF NvidiaInv
<1> QED
  BY <1>2, <1>5, <1>6

LEMMA UpdateKeeps ==
    ASSUME NvidiaInv, Update
    PROVE  NvidiaInv'
<1>1. /\ pass.pc = "update" /\ pass \in Passes /\ UNCHANGED <<host, state, passedOver, files>>
      /\ pass.old = state /\ state.kind # "foreign" /\ pass.result # "synchronized"
      /\ files \in [Destinations -> {"absent", "content", "mountpoint", "unmanaged"}]
      /\ pass.scan # {} /\ nspawn \in NspawnFiles
  BY DEF NvidiaInv, NvidiaTypeOK, PassInv, Update, PassAt, World
<1>2. CASE Fails /\ UNCHANGED <<nspawn, touched>>
  BY <1>1, <1>2, FailsKeeps
<1>3. CASE nspawn' = Applied(nspawn, pass.old, pass.scan) /\ touched' = FALSE
           /\ PassGoes(After("update"))
  <2>1. /\ pass' \in Passes /\ pass'.pc = "persist" /\ pass'.old = pass.old /\ pass'.scan = pass.scan
        /\ pass'.result = pass.result
    BY <1>1, <1>3, PassMoves DEF After
  <2> DEFINE loose == nspawn.loose \ Duplicates(pass.old, pass.scan)
             a == [nspawn EXCEPT !.marks = "whole"]
             b == [a EXCEPT !.block = pass.scan]
  <2>2. nspawn' = [b EXCEPT !.loose = loose]
    BY <1>1, <1>3, Zenon DEF Applied, NspawnFiles
  <2>3. loose \in SUBSET Binds /\ pass.scan \in SUBSET Binds
    BY <1>1, Zenon DEF NspawnFiles, Passes
  <2> HIDE DEF loose
  <2>4. a \in NspawnFiles /\ a.marks = "whole"
    BY <1>1 DEF NspawnFiles
  <2> HIDE DEF a
  <2>5. b \in NspawnFiles /\ b.marks = "whole" /\ b.block = pass.scan
    BY <2>3, <2>4 DEF NspawnFiles
  <2> HIDE DEF b
  <2>6. nspawn' \in NspawnFiles /\ nspawn'.marks = "whole" /\ nspawn'.block = pass.scan
    BY <2>2, <2>3, <2>5 DEF NspawnFiles
  <2>7. NvidiaTypeOK'
    BY <1>1, <1>3, <2>1, <2>6, Zenon DEF NvidiaInv, NvidiaTypeOK
  <2>8. PassInv'
    BY <1>1, <2>1, <2>6 DEF PassInv, MarkerBindsMatch
  <2>9. MountsInv'
    BY <1>1, <2>1, <2>6 DEF NvidiaInv, MountsInv
  <2> QED
    BY <2>7, <2>8, <2>9 DEF NvidiaInv
<1> QED
  BY <1>2, <1>3, Zenon DEF Update

LEMMA PersistKeeps ==
    ASSUME NvidiaInv, Persist
    PROVE  NvidiaInv'
<1>1. /\ pass.pc = "persist" /\ pass \in Passes /\ pass.scan \in SUBSET Binds
      /\ UNCHANGED <<host, nspawn, touched, passedOver, files>>
      /\ files \in [Destinations -> {"absent", "content", "mountpoint", "unmanaged"}]
  BY Zenon DEF NvidiaInv, NvidiaTypeOK, Passes, Persist, PassAt, World
<1>2. CASE Fails /\ UNCHANGED state
  BY <1>1, <1>2, FailsKeeps
<1>3. CASE state' = Owned(pass.scan) /\ PassGoes(After("persist"))
  <2>1. /\ pass' \in Passes /\ pass'.pc = "allow" /\ pass'.scan = pass.scan
        /\ pass'.result = pass.result
    BY <1>1, <1>3, PassMoves DEF After
  <2>2. state' \in StateFiles /\ state'.binds = pass.scan /\ state'.kind = "owned"
    BY <1>1, <1>3 DEF Owned, StateFiles
  <2>3. NvidiaTypeOK'
    BY <1>1, <2>1, <2>2 DEF NvidiaInv, NvidiaTypeOK
  <2>4. PassInv'
    BY <1>1, <2>1, <2>2 DEF NvidiaInv, PassInv, MarkerBindsMatch, SamePayload
  <2>5. MountsInv'
    BY <1>1, <2>1, <2>2 DEF NvidiaInv, MountsInv
  <2> QED
    BY <2>3, <2>4, <2>5 DEF NvidiaInv
<1> QED
  BY <1>2, <1>3 DEF Persist

LEMMA AllowKeeps ==
    ASSUME NvidiaInv, Allow
    PROVE  NvidiaInv'
<1>1. /\ pass.pc = "allow" /\ pass \in Passes
      /\ UNCHANGED <<host, nspawn, state, touched, passedOver, files>>
      /\ files \in [Destinations -> {"absent", "content", "mountpoint", "unmanaged"}]
  BY DEF NvidiaInv, NvidiaTypeOK, Allow, PassAt, World
<1>2. CASE Fails
  BY <1>1, <1>2, FailsKeeps
<1>3. CASE allowed' = Devices(pass.scan) /\ PassEnds("synchronized")
  <2>1. /\ pass' \in Passes /\ pass'.pc = "idle" /\ pass'.scan = pass.scan
        /\ pass'.result = "synchronized" /\ pass'.old = pass.old
    BY <1>1, <1>3, PassFinishes
  <2>2. NvidiaTypeOK'
    BY <1>1, <2>1 DEF NvidiaInv, NvidiaTypeOK
  <2>3. PassInv'
    BY <1>1, <1>3, <2>1 DEF NvidiaInv, PassInv, MarkerBindsMatch, SamePayload
  <2>4. MountsInv'
    BY <1>1, <2>1 DEF NvidiaInv, MountsInv
  <2> QED
    BY <2>2, <2>3, <2>4 DEF NvidiaInv
<1> QED
  BY <1>2, <1>3 DEF Allow

\* A start after a complete pass creates mount points that the state file of
\* that pass names: the block it mounts holds no more than the pass scanned.
LEMMA StartKeeps ==
    ASSUME NvidiaInv, Start
    PROVE  NvidiaInv'
<1>1. /\ pass' = NoPass /\ nspawn.marks # "removed"
      /\ UNCHANGED <<host, nspawn, state, touched, passedOver>>
  BY Zenon DEF Start
<1>2. \A d \in Destinations :
        files'[d] = IF d \in Dests(nspawn.block) /\ files[d] = "absent"
                    THEN IF pass.result = "synchronized" THEN "mountpoint" ELSE "unmanaged"
                    ELSE files[d]
  BY Zenon DEF Start
<1>3. files' \in [Destinations -> {"absent", "content", "mountpoint", "unmanaged"}]
  BY Zenon DEF Start, NvidiaInv, NvidiaTypeOK
<1>4. NvidiaTypeOK'
  BY <1>1, <1>3, NoPassIsPass DEF NvidiaInv, NvidiaTypeOK
<1>5. PassInv'
  BY <1>1, NoPassIsPass DEF PassInv
<1>6. ASSUME NEW d \in Destinations, files'[d] = "mountpoint", files[d] # "mountpoint"
      PROVE  d \in Dests(state.binds)
  <2>1. pass.result = "synchronized" /\ d \in Dests(nspawn.block)
    BY <1>2, <1>6
  <2>2. nspawn.block \subseteq pass.scan /\ state.binds = pass.scan
    BY <2>1 DEF NvidiaInv, PassInv, SamePayload
  <2> QED
    BY <2>1, <2>2 DEF Dests
<1>7. MountsInv'
  BY <1>1, <1>6, NoPassIsPass DEF NvidiaInv, MountsInv
<1> QED
  BY <1>4, <1>5, <1>7 DEF NvidiaInv

LEMMA WorldKeeps ==
    ASSUME NvidiaInv, host' \in Versions \cup {0},
           UNCHANGED <<nspawn, state, allowed, files, pass, touched, passedOver>>
    PROVE  NvidiaInv'
<1>1. NvidiaTypeOK'
  BY DEF NvidiaInv, NvidiaTypeOK
<1>2. PassInv' /\ MountsInv'
  BY DEF NvidiaInv, PassInv, MountsInv, MarkerBindsMatch
<1> QED
  BY <1>1, <1>2 DEF NvidiaInv

\* An edit is remembered, and never puts a bind into the managed block.
LEMMA EditFacts ==
    ASSUME nspawn \in NspawnFiles, NEW f \in Edited(nspawn)
    PROVE  f \in NspawnFiles /\ f.block \subseteq nspawn.block
           /\ (f.marks = "removed" => nspawn.marks = "removed")
<1>1. AdminBinds \in SUBSET Binds /\ nspawn.loose \in SUBSET Binds /\ nspawn.block \in SUBSET Binds
  <2>1. AdminBinds \in SUBSET Binds
    BY DEF Binds
  <2> QED
    BY <2>1 DEF NspawnFiles
<1>2. CASE \E b \in AdminBinds : f = [nspawn EXCEPT !.loose = @ \cup {b}]
                                 \/ f = [nspawn EXCEPT !.loose = @ \ {b}]
  <2>1. PICK s \in SUBSET Binds : f = [nspawn EXCEPT !.loose = s]
    BY <1>1, <1>2 DEF NspawnFiles
  <2> QED
    BY <2>1 DEF NspawnFiles
<1>3. CASE \E b \in nspawn.block : f = [nspawn EXCEPT !.block = @ \ {b}]
  <2>1. PICK s \in SUBSET Binds : f = [nspawn EXCEPT !.block = s] /\ s \subseteq nspawn.block
    BY <1>1, <1>3 DEF NspawnFiles
  <2> QED
    BY <2>1 DEF NspawnFiles
<1>4. CASE f = [nspawn EXCEPT !.marks = IF @ = "whole" THEN "broken" ELSE @]
  <2>1. PICK m \in {"broken", nspawn.marks} : f = [nspawn EXCEPT !.marks = m]
    BY <1>4 DEF NspawnFiles
  <2> QED
    BY <2>1 DEF NspawnFiles
<1>5. CASE f = [nspawn EXCEPT !.marks = "none", !.block = {}]
  <2> DEFINE a == [nspawn EXCEPT !.marks = "none"]
  <2>1. a \in NspawnFiles /\ a.marks = "none" /\ f = [a EXCEPT !.block = {}]
    BY <1>5 DEF NspawnFiles
  <2> HIDE DEF a
  <2> QED
    BY <2>1 DEF NspawnFiles
<1>6. CASE f = [nspawn EXCEPT !.enabled = ~@]
  <2>1. PICK e \in BOOLEAN : f = [nspawn EXCEPT !.enabled = e]
    BY <1>6, Zenon DEF NspawnFiles
  <2> QED
    BY <2>1 DEF NspawnFiles
<1> QED
  BY <1>2, <1>3, <1>4, <1>5, <1>6 DEF Edited

LEMMA AdminKeeps ==
    ASSUME NvidiaInv, AdminEdits
    PROVE  NvidiaInv'
<1>1. /\ nspawn.marks # "removed" /\ touched' = TRUE /\ nspawn' \in Edited(nspawn)
      /\ nspawn \in NspawnFiles /\ UNCHANGED <<host, state, allowed, files, pass, passedOver>>
  BY DEF AdminEdits, NvidiaInv, NvidiaTypeOK
<1>2. nspawn' \in NspawnFiles /\ nspawn'.block \subseteq nspawn.block /\ nspawn'.marks # "removed"
  BY <1>1, EditFacts
<1>3. NvidiaTypeOK'
  BY <1>1, <1>2 DEF NvidiaInv, NvidiaTypeOK
<1>4. PassInv'
  BY <1>1, <1>2 DEF NvidiaInv, PassInv
<1>5. MountsInv'
  BY <1>1, <1>2 DEF NvidiaInv, MountsInv
<1> QED
  BY <1>3, <1>4, <1>5 DEF NvidiaInv

LEMMA RemoveMachineKeeps ==
    ASSUME NvidiaInv, RemoveMachine
    PROVE  NvidiaInv'
<1>1. /\ state' \in {state, NoStateFile} /\ pass' = NoPass /\ UNCHANGED <<host, touched>>
      /\ nspawn' = [enabled |-> FALSE, marks |-> "removed", block |-> {}, loose |-> {}]
      /\ files' = [d \in Destinations |-> "absent"]
  BY DEF RemoveMachine
<1>2. nspawn' \in NspawnFiles
  BY <1>1 DEF NspawnFiles
<1>3. NvidiaTypeOK'
  BY <1>1, <1>2, NoPassIsPass DEF NvidiaInv, NvidiaTypeOK
<1>4. PassInv'
  BY <1>1, NoPassIsPass DEF PassInv
<1>5. MountsInv'
  BY <1>1 DEF MountsInv
<1> QED
  BY <1>3, <1>4, <1>5 DEF NvidiaInv

LEMMA DeployMachineKeeps ==
    ASSUME NvidiaInv, DeployMachine
    PROVE  NvidiaInv'
<1>1. /\ host \in Versions /\ state' = Owned(Scan(host)) /\ nspawn' = Deployed(host)
      /\ pass' = NoPass /\ UNCHANGED <<host, files, touched>> /\ nspawn.marks = "removed"
  BY DEF DeployMachine, NvidiaInv, NvidiaTypeOK
<1>2. NvidiaTypeOK'
  BY <1>1, ScanFacts, NoPassIsPass DEF NvidiaInv, NvidiaTypeOK
<1>3. PassInv'
  BY <1>1, NoPassIsPass DEF PassInv
<1>4. \A d \in Destinations : files'[d] # "mountpoint"
  BY <1>1 DEF NvidiaInv, MountsInv
<1>5. MountsInv'
  BY <1>4 DEF MountsInv
<1> QED
  BY <1>2, <1>3, <1>5 DEF NvidiaInv

\* The passes keep their invariant for any driver versions, binds, mount points
\* and edits, wherever a pass fails or crashes.
THEOREM NvidiaInvariant == NvidiaSpec => []NvidiaInv
<1>1. NvidiaInv /\ [NvidiaNext]_nvidiaVars => NvidiaInv'
  <2> SUFFICES ASSUME NvidiaInv, [NvidiaNext]_nvidiaVars PROVE NvidiaInv'
    OBVIOUS
  <2>1. CASE Begin \/ Discover \/ Cleanup \/ Update \/ Persist \/ Allow
    BY <2>1, BeginKeeps, DiscoverKeeps, CleanupKeeps, UpdateKeeps, PersistKeeps, AllowKeeps
  <2>2. CASE Crash
    BY <2>2, IdleKeeps, NoPassIsPass DEF Crash, NvidiaInv, NvidiaTypeOK, World
  <2>3. CASE Start \/ AdminEdits \/ RemoveMachine \/ DeployMachine
    BY <2>3, StartKeeps, AdminKeeps, RemoveMachineKeeps, DeployMachineKeeps
  <2>4. CASE Stop \/ HostChanges \/ UNCHANGED nvidiaVars
    BY <2>4, WorldKeeps DEF Stop, HostChanges, nvidiaVars, NvidiaInv, NvidiaTypeOK
  <2> QED
    BY <2>1, <2>2, <2>3, <2>4 DEF NvidiaNext
<1> QED
  BY NvidiaInitially, <1>1, PTL DEF NvidiaSpec

\* A pass that reports success left all places in line, and no mount point of
\* Lasper's is ever forgotten but those whose clean-up did not work.
THEOREM SynchronizationIsComplete == NvidiaSpec => []SyncIsComplete
<1>1. NvidiaInv => SyncIsComplete
  BY DEF NvidiaInv, PassInv, MountsInv, SyncIsComplete
<1> QED
  BY NvidiaInvariant, <1>1, PTL

-----------------------------------------------------------------------------
(* The deployment registry: the agreement of jobs, submissions, claims and  *)
(* reservations, and the safety of eviction.                                *)

\* What the registry knows of one deployment at any time.  The parts about the
\* submitting connection and the executor are what makes it inductive: a
\* connection that has not decided finds its submission pending, and only a
\* finished executor leaves a finished record.
RecordFits(submission, job, handling, executing) ==
    /\ submission.status = "Accepted" <=> job.status # "None"
    /\ job.reservation <=>
          /\ job.status # "None"
          /\ job.claim \in {"Held", "ReconciliationRequired"}
    /\ job.status \in {"Running", "RollingBack"} =>
          job.claim = "Held" /\ job.revision > 0
    /\ job.status = "Known" =>
          job.claim = "Released" /\ job.revision > 0 /\ executing = "ended"
    /\ job.status = "ReconciliationRequired" =>
          /\ job.claim \in {"ReconciliationRequired", "Reconciled",
                            "ReleasedUnresolved"}
          /\ job.revision > 0 /\ executing = "ended"
    /\ job.status = "None" => job = NoJob
    /\ submission.status = "None" => submission = NoSubmission
    /\ handling = "reserved" => submission.status = "Pending"
    /\ handling = "registered" => job.status \in {"Running", "RollingBack"}
    /\ handling # "done" => executing = "none"
RecordOK(d) == RecordFits(submissions[d], jobs[d], handler[d], executor[d])

JobsInv == TypeOK /\ \A d \in Deployments : RecordOK(d)

LEMMA SuccessorIsPositive == \A n \in Nat : n + 1 > 0
OBVIOUS

\* The record of a deployment the registry does not know.
LEMMA EmptyFits ==
    ASSUME NEW h, NEW x, h \notin {"reserved", "registered"}, h # "done" => x = "none"
    PROVE  RecordFits(NoSubmission, NoJob, h, x)
BY DEF RecordFits, NoSubmission, NoJob

\* The record of a deployment that is over.
LEMMA FinishedFits ==
    ASSUME NEW s, NEW j, s.status = "Accepted", j.status \in Finished, j.revision > 0,
           j.reservation <=> j.claim \in {"Held", "ReconciliationRequired"},
           j.status = "Known" => j.claim = "Released",
           j.status = "ReconciliationRequired" =>
               j.claim \in {"ReconciliationRequired", "Reconciled", "ReleasedUnresolved"}
    PROVE  RecordFits(s, j, "done", "ended")
BY DEF RecordFits, Finished

LEMMA FinishedIs ==
    ASSUME NEW s, NEW j, NEW h, NEW x, RecordFits(s, j, h, x), j.status \in Finished
    PROVE  s.status = "Accepted" /\ h = "done" /\ x = "ended"
BY DEF RecordFits, Finished

\* The initial registry is empty.
LEMMA InitEstablishes == Init => JobsInv
<1> SUFFICES ASSUME Init PROVE JobsInv
    OBVIOUS
<1>1. NoSubmission \in Submission /\ NoJob \in Job
    BY DEF NoSubmission, NoJob, Submission, Job, SubmissionStatus, Status, ClaimState
<1>2. TypeOK
    BY <1>1, Zenon DEF Init, TypeOK
<1>3. ASSUME NEW d \in Deployments PROVE RecordOK(d)
    <2>1. /\ submissions[d] = NoSubmission /\ jobs[d] = NoJob
          /\ handler[d] = "none" /\ executor[d] = "none"
        BY DEF Init
    <2> QED BY <2>1, EmptyFits DEF RecordOK
<1> QED BY <1>2, <1>3 DEF JobsInv

\* A step that changes at most the records of one deployment, and leaves them
\* in order there, preserves the invariant.
LEMMA OneRecord ==
    ASSUME JobsInv, TypeOK', NEW d \in Deployments, RecordOK(d)',
           \A e \in Deployments \ {d} :
               /\ submissions'[e] = submissions[e]
               /\ jobs'[e] = jobs[e]
               /\ handler'[e] = handler[e]
               /\ executor'[e] = executor[e]
    PROVE  JobsInv'
<1>1. ASSUME NEW e \in Deployments \ {d} PROVE RecordOK(e)'
    BY Zenon DEF JobsInv, RecordOK
<1> QED BY <1>1 DEF JobsInv

\* The order of submissions stays a relation between deployments.
LEMMA TouchType ==
    ASSUME TypeOK, NEW d \in Deployments
    PROVE  Touch(d) \subseteq Deployments \X Deployments
BY DEF TypeOK, Touch, Recorded

\* reserve_submission, with or without an eviction, keeps the records in order.
LEMMA ReservePreserves ==
    ASSUME JobsInv, NEW d \in Deployments, ReserveSubmission(d)
    PROVE  JobsInv'
<1> DEFINE Chosen(victims) ==
        /\ victims \subseteq Deployments
        /\ \A e \in victims : Evictable(e)
        /\ Evict(victims, d)
<1>1. PICK victims : Chosen(victims)
    BY Zenon DEF ReserveSubmission, Oldest
<1>2. d \notin victims
    BY <1>1 DEF ReserveSubmission, Evictable
<1>3. TypeOK'
    <2>1. submissions' \in [Deployments -> Submission]
        BY <1>1 DEF JobsInv, TypeOK, Evict, NoSubmission, Submission,
                    SubmissionStatus
    <2>2. jobs' \in [Deployments -> Job]
        BY <1>1 DEF JobsInv, TypeOK, Evict, NoJob, Job, Status, Finished, ClaimState
    <2>3. older' \subseteq Deployments \X Deployments
        BY <1>1, TouchType DEF JobsInv, Evict
    <2> QED BY <2>1, <2>2, <2>3, Zenon DEF JobsInv, TypeOK, ReserveSubmission
<1>4. RecordOK(d)'
    BY <1>1, <1>2 DEF JobsInv, TypeOK, RecordOK, RecordFits, ReserveSubmission, Evict,
                      NoSubmission, NoJob
<1>5. ASSUME NEW e \in Deployments \ {d} PROVE RecordOK(e)'
    <2>1. CASE e \in victims
        <3>1. /\ submissions'[e] = NoSubmission
              /\ handler'[e] = handler[e] /\ executor'[e] = executor[e]
            BY <1>1, <2>1, <1>5 DEF Evict, ReserveSubmission, JobsInv, TypeOK
        <3>2. jobs'[e] = NoJob
            BY <1>1, <2>1 DEF Evict, JobsInv, RecordOK, RecordFits
        <3>3. /\ handler[e] \notin {"reserved", "registered"}
              /\ handler[e] # "done" => executor[e] = "none"
            BY <1>1, <2>1, Zenon DEF Evictable, JobsInv, RecordOK, RecordFits
        <3> QED BY <3>1, <3>2, <3>3, EmptyFits, Zenon DEF RecordOK
    <2>2. CASE e \notin victims
        <3>1. /\ submissions'[e] = submissions[e] /\ jobs'[e] = jobs[e]
              /\ handler'[e] = handler[e] /\ executor'[e] = executor[e]
            BY <1>1, <2>2, <1>5 DEF Evict, ReserveSubmission, JobsInv, TypeOK
        <3> QED BY <3>1 DEF JobsInv, RecordOK
    <2> QED BY <2>1, <2>2
<1> QED BY <1>3, <1>4, <1>5 DEF JobsInv

\* The other steps of a submitting connection.
LEMMA SubmitPreserves ==
    ASSUME JobsInv, NEW d \in Deployments, Submit(d)
    PROVE  JobsInv'
<1> USE DEF JobsInv
<1>1. CASE ReserveSubmission(d)
    BY <1>1, ReservePreserves
<1>2. CASE RejectSubmission(d)
    <2>1. TypeOK'
        BY <1>2, TouchType DEF RejectSubmission, TypeOK, Submission, SubmissionStatus
    <2>2. RecordOK(d)'
        BY <1>2 DEF RejectSubmission, TypeOK, RecordOK, RecordFits, Submission
    <2> QED BY <1>2, <2>1, <2>2, OneRecord DEF RejectSubmission, TypeOK
<1>3. CASE Register(d)
    <2>1. TypeOK'
        BY <1>3, TouchType, SMTT(30) DEF Register, TypeOK, Submission, SubmissionStatus,
                               NewJob, Job, Status, Finished, ClaimState
    <2>2. RecordOK(d)'
        BY <1>3 DEF Register, TypeOK, RecordOK, RecordFits, Submission, NewJob, NoJob
    <2> QED BY <1>3, <2>1, <2>2, OneRecord DEF Register, TypeOK
<1>4. CASE RegisterStream(d)
    <2>1. TypeOK'
        BY <1>4 DEF RegisterStream, TypeOK, Job
    <2>2. RecordOK(d)'
        BY <1>4 DEF RegisterStream, TypeOK, RecordOK, RecordFits, Job, NoJob
    <2> QED BY <1>4, <2>1, <2>2, OneRecord DEF RegisterStream, TypeOK
<1> QED BY <1>1, <1>2, <1>3, <1>4 DEF Submit

\* A claim that is given up takes the reservation with it.
LEMMA LetGoFields ==
    ASSUME NEW job \in Job, NEW claim \in ClaimState
    PROVE  /\ LetGo(job, claim) \in Job
           /\ LetGo(job, claim).claim = claim
           /\ LetGo(job, claim).status = job.status
           /\ LetGo(job, claim).revision = job.revision + 1
           /\ ~ LetGo(job, claim).reservation
<1> DEFINE a == [job EXCEPT !.claim = claim]
           b == [a EXCEPT !.revision = @ + 1]
<1>1. a \in Job
    BY DEF Job
<1> HIDE DEF a
<1>2. b \in Job
    BY <1>1 DEF Job
<1> HIDE DEF b
<1>3. [b EXCEPT !.reservation = FALSE] \in Job
    BY <1>2, Zenon DEF Job
<1>4. LetGo(job, claim) = [b EXCEPT !.reservation = FALSE]
    BY DEF LetGo, a, b
<1>5. /\ LetGo(job, claim).claim = claim
      /\ LetGo(job, claim).status = job.status
      /\ LetGo(job, claim).revision = job.revision + 1
      /\ ~ LetGo(job, claim).reservation
    BY DEF LetGo, Job
<1> QED BY <1>3, <1>4, <1>5

\* finalize sets the status and the claim it stands for, and keeps the reservation
\* only of an outcome that is not known.
LEMMA FinalizedFields ==
    ASSUME NEW job \in Job, NEW status \in Finished
    PROVE  /\ Finalized(job, status) \in Job
           /\ Finalized(job, status).status = status
           /\ Finalized(job, status).claim = TerminalClaim(status)
           /\ Finalized(job, status).revision = job.revision + 1
           /\ Finalized(job, status).reservation =
                (job.reservation /\ TerminalClaim(status) = "ReconciliationRequired")
<1> DEFINE claim == TerminalClaim(status)
           kept == job.reservation /\ claim = "ReconciliationRequired"
           a == [job EXCEPT !.status = status]
           b == [a EXCEPT !.claim = claim]
           c == [b EXCEPT !.revision = @ + 1]
           d == [c EXCEPT !.reservation = kept]
<1>1. claim \in ClaimState /\ kept \in BOOLEAN
    BY DEF TerminalClaim, ClaimState
<1>2. Finalized(job, status) =
        [job EXCEPT !.status = status, !.claim = claim, !.revision = @ + 1,
                    !.reservation = @ /\ claim = "ReconciliationRequired"]
    BY DEF Finalized
<1>3. job.reservation = [[[job EXCEPT !.status = status] EXCEPT !.claim = claim]
                            EXCEPT !.revision = @ + 1].reservation
    BY DEF Job
<1> HIDE DEF claim
<1>4. Finalized(job, status) = d
    BY <1>2, <1>3
<1> HIDE DEF kept
<1>5. /\ d.status = status /\ d.claim = claim /\ d.reservation = kept
      /\ d.revision = job.revision + 1
    BY DEF Job
<1>6. a \in Job
    BY DEF Job, Status
<1> HIDE DEF a
<1>7. b \in Job
    BY <1>1, <1>6 DEF Job
<1> HIDE DEF b
<1>8. c \in Job
    BY <1>7 DEF Job
<1> HIDE DEF c
<1>9. d \in Job
    BY <1>1, <1>8 DEF Job
<1> QED BY <1>4, <1>5, <1>9 DEF kept, claim

\* Progress reports, the end of the executor and of its stream.
LEMMA ExecutePreserves ==
    ASSUME JobsInv, NEW d \in Deployments, Execute(d)
    PROVE  JobsInv'
<1> USE DEF JobsInv
<1>1. CASE ReleaseStream(d)
    <2>1. TypeOK'
        BY <1>1 DEF ReleaseStream, TypeOK, Job
    <2>2. RecordOK(d)'
        BY <1>1 DEF ReleaseStream, TypeOK, RecordOK, RecordFits, Job, Finished
    <2> QED BY <1>1, <2>1, <2>2, OneRecord DEF ReleaseStream, TypeOK
<1>2. ASSUME NEW status \in {"Running", "RollingBack"}, ObserveStatus(d, status)
      PROVE  JobsInv'
    <2>1. TypeOK'
        BY <1>2 DEF ObserveStatus, TypeOK, Job, Status
    <2>2. RecordOK(d)'
        BY <1>2 DEF ObserveStatus, TypeOK, RecordOK, RecordFits, Job
    <2> QED BY <1>2, <2>1, <2>2, OneRecord DEF ObserveStatus, TypeOK
<1>3. ASSUME NEW status \in Finished, Finalize(d, status)
      PROVE  JobsInv'
    <2>1. jobs'[d] = Finalized(jobs[d], status) /\ jobs[d] \in Job
        BY <1>3 DEF Finalize, TypeOK
    <2>3. /\ jobs'[d] \in Job
          /\ jobs'[d].status = status
          /\ jobs'[d].claim = TerminalClaim(status)
          /\ jobs'[d].revision = jobs[d].revision + 1
          /\ jobs'[d].reservation =
                (jobs[d].reservation /\ TerminalClaim(status) = "ReconciliationRequired")
        <3> DEFINE j == Finalized(jobs[d], status)
        <3>1. /\ j \in Job /\ j.status = status /\ j.claim = TerminalClaim(status)
              /\ j.revision = jobs[d].revision + 1
              /\ j.reservation =
                    (jobs[d].reservation /\ TerminalClaim(status) = "ReconciliationRequired")
            BY ONLY <2>1, status \in Finished, FinalizedFields
        <3> HIDE DEF j
        <3>2. jobs'[d] = j
            BY <2>1 DEF j
        <3> QED BY <3>1, <3>2
    <2>4. TypeOK'
        <3>1. jobs' \in [Deployments -> Job]
            BY <1>3, <2>1, <2>3 DEF Finalize, TypeOK
        <3>2. executor' \in [Deployments -> {"none", "running", "ended"}]
            BY <1>3 DEF Finalize, TypeOK
        <3>3. manifest' \in [Deployments -> BOOLEAN]
            BY <1>3 DEF Finalize, TypeOK
        <3> QED BY <1>3, <3>1, <3>2, <3>3 DEF Finalize, TypeOK
    <2>5. RecordOK(d)'
        <3>1. /\ submissions'[d] = submissions[d] /\ handler'[d] = handler[d]
              /\ executor'[d] = "ended" /\ executor[d] = "running"
              /\ jobs[d].status \in {"Running", "RollingBack"}
            BY <1>3 DEF Finalize, TypeOK
        <3>2. jobs[d].reservation /\ jobs[d].revision \in Nat
            BY <2>1, <3>1 DEF RecordOK, RecordFits, Job
        <3>3. /\ submissions[d].status = "Accepted"
              /\ handler[d] = "done"
            BY <3>1 DEF RecordOK, RecordFits, TypeOK
        <3>4. CASE status = "Known"
            <4>1. TerminalClaim(status) = "Released" /\ jobs'[d].reservation = FALSE
                BY <2>3, <3>2, <3>4, Zenon DEF TerminalClaim
            <4>2. jobs'[d].status \in Finished /\ jobs'[d].revision > 0
                <5>1. jobs[d].revision + 1 > 0
                    BY <3>2, SuccessorIsPositive, Zenon
                <5> QED BY <2>3, <5>1, Zenon
            <4> QED BY <2>3, <3>1, <3>3, <3>4, <4>1, <4>2, FinishedFits DEF RecordOK
        <3>5. CASE status = "ReconciliationRequired"
            <4>1. /\ TerminalClaim(status) = "ReconciliationRequired"
                  /\ jobs'[d].reservation = TRUE
                BY <2>3, <3>2, <3>5, Zenon DEF TerminalClaim
            <4>2. jobs'[d].status \in Finished /\ jobs'[d].revision > 0
                <5>1. jobs[d].revision + 1 > 0
                    BY <3>2, SuccessorIsPositive, Zenon
                <5> QED BY <2>3, <5>1, Zenon
            <4> QED BY <2>3, <3>1, <3>3, <3>5, <4>1, <4>2, FinishedFits DEF RecordOK
        <3> QED BY <3>4, <3>5 DEF Finished
    <2> QED BY <1>3, <2>4, <2>5, OneRecord DEF Finalize, TypeOK
<1> QED BY <1>1, <1>2, <1>3 DEF Execute

\* The client's calls.
LEMMA ClientPreserves ==
    ASSUME JobsInv, NEW d \in Deployments, Client(d)
    PROVE  JobsInv'
<1> USE DEF JobsInv
<1>1. CASE AcknowledgeSubmission(d)
    <2>1. TypeOK'
        BY <1>1, TouchType, Zenon DEF AcknowledgeSubmission, TypeOK, Submission
    <2>2. RecordOK(d)'
        BY <1>1 DEF AcknowledgeSubmission, TypeOK, RecordOK, RecordFits, Submission
    <2> QED BY <1>1, <2>1, <2>2, OneRecord DEF AcknowledgeSubmission, TypeOK
<1>2. CASE Cancel(d)
    <2>1. TypeOK'
        BY <1>2 DEF Cancel, TypeOK, Job
    <2>2. RecordOK(d)'
        BY <1>2 DEF Cancel, TypeOK, RecordOK, RecordFits, Job
    <2> QED BY <1>2, <2>1, <2>2, OneRecord DEF Cancel, TypeOK
<1>3. CASE Acknowledge(d)
    <2>1. TypeOK'
        BY <1>3, ZenonT(30) DEF Acknowledge, TypeOK, Job
    <2>2. RecordOK(d)'
        BY <1>3 DEF Acknowledge, TypeOK, RecordOK, RecordFits, Job, Finished
    <2> QED BY <1>3, <2>1, <2>2, OneRecord DEF Acknowledge, TypeOK
<1>4. CASE ReleaseUnresolved(d)
    <2>0. "ReleasedUnresolved" \in ClaimState /\ jobs[d] \in Job
        BY DEF TypeOK, ClaimState
    <2>1. TypeOK'
        BY <1>4, <2>0, LetGoFields DEF ReleaseUnresolved, TypeOK
    <2>2. RecordOK(d)'
        <3>1. /\ jobs[d].status = "ReconciliationRequired" /\ jobs[d].status \in Finished
              /\ jobs[d].revision \in Nat
            BY <1>4, <2>0 DEF ReleaseUnresolved, RecordOK, RecordFits, Job, Finished
        <3>2. /\ submissions'[d] = submissions[d] /\ handler'[d] = handler[d]
              /\ executor'[d] = executor[d]
              /\ jobs'[d] = LetGo(jobs[d], "ReleasedUnresolved")
            BY <1>4 DEF ReleaseUnresolved, TypeOK
        <3>3. /\ jobs'[d].status = "ReconciliationRequired" /\ jobs'[d].status \in Finished
              /\ jobs'[d].claim = "ReleasedUnresolved" /\ ~ jobs'[d].reservation
              /\ jobs'[d].revision = jobs[d].revision + 1
            <4> DEFINE j == LetGo(jobs[d], "ReleasedUnresolved")
            <4>1. /\ j.status = jobs[d].status /\ j.claim = "ReleasedUnresolved"
                  /\ ~ j.reservation /\ j.revision = jobs[d].revision + 1
                BY ONLY <2>0, LetGoFields
            <4> HIDE DEF j
            <4>2. jobs'[d] = j
                BY <3>2 DEF j
            <4> QED BY <3>1, <4>1, <4>2
        <3>4. submissions[d].status = "Accepted" /\ handler[d] = "done" /\ executor[d] = "ended"
            BY <3>1, FinishedIs DEF RecordOK
        <3>5. jobs'[d].revision > 0
            <4>1. jobs[d].revision + 1 > 0
                BY <3>1, SuccessorIsPositive, Zenon
            <4> QED BY <3>3, <4>1, Zenon
        <3> QED BY <3>2, <3>3, <3>4, <3>5, FinishedFits DEF RecordOK
    <2> QED BY <1>4, <2>1, <2>2, OneRecord DEF ReleaseUnresolved, TypeOK
<1>5. CASE DiscardManifest(d)
    <2>1. TypeOK'
        BY <1>5 DEF DiscardManifest, TypeOK
    <2> QED BY <1>5, <2>1 DEF DiscardManifest, RecordOK, RecordFits
<1>6. CASE BeginReconcile(d) \/ ReadManifests(d)
    <2>1. TypeOK'
        BY <1>6 DEF BeginReconcile, ReadManifests, TypeOK
    <2> QED BY <1>6, <2>1, Zenon DEF BeginReconcile, ReadManifests, RecordOK
<1>7. CASE Reconcile(d)
    <2>0. "Reconciled" \in ClaimState /\ jobs[d] \in Job
        BY DEF TypeOK, ClaimState
    <2>1. TypeOK'
        BY <1>7, <2>0, LetGoFields DEF Reconcile, TypeOK
    <2>2. RecordOK(d)'
        <3>1. /\ submissions'[d] = submissions[d] /\ handler'[d] = handler[d]
              /\ executor'[d] = executor[d]
            BY <1>7 DEF Reconcile
        <3>2. CASE jobs' = jobs
            BY <3>1, <3>2, Zenon DEF RecordOK
        <3>3. CASE /\ jobs[d].status = "ReconciliationRequired"
                   /\ jobs' = [jobs EXCEPT ![d] = LetGo(@, "Reconciled")]
            <4>1. /\ jobs'[d] = LetGo(jobs[d], "Reconciled")
                  /\ jobs[d].revision \in Nat /\ jobs[d].status \in Finished
                BY <2>0, <3>3 DEF TypeOK, Job, Finished
            <4>2. /\ jobs'[d].status = "ReconciliationRequired" /\ jobs'[d].status \in Finished
                  /\ jobs'[d].claim = "Reconciled" /\ ~ jobs'[d].reservation
                  /\ jobs'[d].revision = jobs[d].revision + 1
                <5> DEFINE j == LetGo(jobs[d], "Reconciled")
                <5>1. /\ j.status = jobs[d].status /\ j.claim = "Reconciled"
                      /\ ~ j.reservation /\ j.revision = jobs[d].revision + 1
                    BY ONLY <2>0, LetGoFields
                <5> HIDE DEF j
                <5>2. jobs'[d] = j
                    BY <4>1 DEF j
                <5> QED BY <3>3, <4>1, <5>1, <5>2
            <4>3. submissions[d].status = "Accepted" /\ handler[d] = "done" /\ executor[d] = "ended"
                BY <4>1, FinishedIs DEF RecordOK
            <4>4. jobs'[d].revision > 0
                <5>1. jobs[d].revision + 1 > 0
                    BY <4>1, SuccessorIsPositive, Zenon
                <5> QED BY <4>2, <5>1, Zenon
            <4> QED BY <3>1, <4>2, <4>3, <4>4, FinishedFits DEF RecordOK
        <3> QED BY <1>7, <3>2, <3>3 DEF Reconcile
    <2> QED BY <1>7, <2>1, <2>2, OneRecord DEF Reconcile, TypeOK
<1> QED BY <1>1, <1>2, <1>3, <1>4, <1>5, <1>6, <1>7 DEF Client

\* The registry's records are in order at all times: types, the pairing of jobs
\* and submissions, claims that fit their status, and reservations that fit
\* their claim.
THEOREM JobsInvariant == Spec => []JobsInv
<1>1. JobsInv /\ [Next]_vars => JobsInv'
    <2>1. ASSUME JobsInv, NEW d \in Deployments, Submit(d) \/ Execute(d) \/ Client(d)
          PROVE  JobsInv'
        BY <2>1, SubmitPreserves, ExecutePreserves, ClientPreserves
    <2>2. ASSUME JobsInv, UNCHANGED vars PROVE JobsInv'
        BY <2>2 DEF JobsInv, TypeOK, RecordOK, RecordFits, vars
    <2> QED BY <2>1, <2>2 DEF Next
<1> QED BY InitEstablishes, <1>1, PTL DEF Spec

\* Every value keeps its type, revisions and stream leases included.
THEOREM JobsTypeCorrect == Spec => []TypeOK
<1>1. JobsInv => TypeOK
    BY DEF JobsInv
<1> QED BY JobsInvariant, <1>1, PTL

\* acknowledge never meets a job without its submission, and a resolved
\* submission names a job that is still there.
THEOREM JobsKeepSubmissions == Spec => []JobAndSubmissionTogether
<1>1. JobsInv => JobAndSubmissionTogether
    BY DEF JobsInv, RecordOK, RecordFits, JobAndSubmissionTogether
<1> QED BY JobsInvariant, <1>1, PTL

\* The daemon holds a machine for a deployment exactly while its record says the
\* claim is held or needs reconciliation.
THEOREM JobsHoldTheirClaim == Spec => []ReservationTracksClaim
<1>1. JobsInv => ReservationTracksClaim
    BY DEF JobsInv, RecordOK, RecordFits, ReservationTracksClaim
<1> QED BY JobsInvariant, <1>1, PTL

\* No snapshot of a registered job is refused by the client's validation.
THEOREM SnapshotsAlwaysValidate == Spec => []SnapshotsValidate
<1>1. JobsInv => SnapshotsValidate
    <2> SUFFICES ASSUME JobsInv, NEW d \in Registered
                 PROVE  /\ jobs[d].revision > 0
                        /\ jobs[d].claim \in
                             CASE jobs[d].status \in {"Running", "RollingBack"} -> {"Held"}
                               [] jobs[d].status = "ReconciliationRequired" ->
                                    {"ReconciliationRequired", "Reconciled",
                                     "ReleasedUnresolved"}
                               [] OTHER -> {"Released"}
        BY DEF SnapshotsValidate
    <2>1. /\ d \in Deployments /\ RecordOK(d)
          /\ jobs[d].status \in {"Running", "RollingBack", "Known",
                                 "ReconciliationRequired"}
        BY DEF Registered, JobsInv, TypeOK, Job, Status, Finished
    <2> QED BY <2>1 DEF RecordOK, RecordFits
<1> QED BY JobsInvariant, <1>1, PTL

\* A record is evicted only after its executor ended, its claim was given up,
\* the client acknowledged it and its stream was closed.
THEOREM EvictionSafe == Spec => EvictionIsSafe
<1> DEFINE Safe(d) ==
        jobs[d].status # "None" /\ jobs'[d].status = "None" =>
            /\ executor[d] = "ended"
            /\ ~ jobs[d].reservation
            /\ submissions[d].acknowledged /\ jobs[d].acknowledged
            /\ jobs[d].leases = 0
<1>1. ASSUME JobsInv, [Next]_vars, NEW d \in Deployments,
             jobs[d].status # "None", jobs'[d].status = "None"
      PROVE  Safe(d)
    <2>1. PICK e \in Deployments : Submit(e) \/ Execute(e) \/ Client(e)
        BY <1>1 DEF Next, vars
    <2>2. ~ Execute(e)
        <3>1. ~ ReleaseStream(e)
            BY <1>1 DEF ReleaseStream, JobsInv, TypeOK, Job
        <3>2. ASSUME NEW status \in {"Running", "RollingBack"}, ObserveStatus(e, status)
              PROVE  FALSE
            BY <1>1, <3>2 DEF ObserveStatus, JobsInv, TypeOK, Job
        <3>3. ASSUME NEW status \in Finished, Finalize(e, status)
              PROVE  FALSE
            <4>1. /\ jobs[e] \in Job /\ jobs'[e] = Finalized(jobs[e], status)
                  /\ \A f \in Deployments \ {e} : jobs'[f] = jobs[f]
                BY <1>1, <3>3 DEF Finalize, JobsInv, TypeOK
            <4>2. jobs'[e].status = status
                BY <4>1, FinalizedFields
            <4> QED BY <1>1, <4>1, <4>2 DEF Finished
        <3> QED BY <3>1, <3>2, <3>3 DEF Execute
    <2>3. ~ Client(e)
        <3>1. ~ Cancel(e)
            BY <1>1 DEF Cancel, JobsInv, TypeOK, Job
        <3>4. ~ Acknowledge(e)
            BY <1>1 DEF Acknowledge, JobsInv, TypeOK, Job
        <3>2. ~ ReleaseUnresolved(e)
            <4>1. /\ \A f \in Deployments : jobs[f] \in Job
                  /\ "ReleasedUnresolved" \in ClaimState
                <5>1. jobs \in [Deployments -> Job]
                    BY <1>1, Zenon DEF JobsInv, TypeOK
                <5>2. "ReleasedUnresolved" \in ClaimState
                    BY ONLY DEF ClaimState
                <5> QED BY <5>1, <5>2, Zenon
            <4>2. \A f \in Deployments :
                      LetGo(jobs[f], "ReleasedUnresolved").status = jobs[f].status
                BY ONLY <4>1, LetGoFields
            <4> QED BY <1>1, <4>2 DEF ReleaseUnresolved, JobsInv, TypeOK
        <3>3. ~ Reconcile(e)
            <4>1. (\A f \in Deployments : jobs[f] \in Job) /\ "Reconciled" \in ClaimState
                <5>1. jobs \in [Deployments -> Job]
                    BY <1>1, Zenon DEF JobsInv, TypeOK
                <5>2. "Reconciled" \in ClaimState
                    BY ONLY DEF ClaimState
                <5> QED BY <5>1, <5>2, Zenon
            <4>2. \A f \in Deployments : LetGo(jobs[f], "Reconciled").status = jobs[f].status
                BY ONLY <4>1, LetGoFields
            <4> QED BY <1>1, <4>2 DEF Reconcile, JobsInv, TypeOK
        <3> QED BY <1>1, <3>1, <3>2, <3>3, <3>4 DEF Client, AcknowledgeSubmission,
                   DiscardManifest, BeginReconcile, ReadManifests
    <2>4. ReserveSubmission(e)
        BY <1>1, <2>1, <2>2, <2>3 DEF Submit, RejectSubmission, Register,
               RegisterStream, NewJob, JobsInv, TypeOK, Job
    <2>5. Evictable(d)
        BY <1>1, <2>4 DEF ReserveSubmission, Evict, Oldest
    <2>6. jobs[d].status \in {"Running", "RollingBack", "Known",
                              "ReconciliationRequired"}
        BY <1>1 DEF JobsInv, TypeOK, Job, Status, Finished
    <2> QED BY <1>1, <2>5, <2>6 DEF Evictable, JobsInv, RecordOK, RecordFits
<1>2. JobsInv /\ [Next]_vars => [\A d \in Deployments : Safe(d)]_vars
    BY <1>1, Zenon
<1> QED BY JobsInvariant, <1>2, PTL DEF Spec, EvictionIsSafe

\* What finalize decided stays decided: no later report, cancellation
\* or reconcile call revises a terminal record.
THEOREM TerminalStaysFinal == Spec => TerminalIsFinal
<1> DEFINE Final(d) ==
        jobs[d].status \in Finished /\ jobs'[d].status # "None" =>
            /\ jobs'[d].status = jobs[d].status
            /\ jobs'[d].cancelled = jobs[d].cancelled
            /\ jobs[d].claim # "ReconciliationRequired" =>
                  jobs'[d].claim = jobs[d].claim
<1>1. ASSUME JobsInv, NEW e \in Deployments, Submit(e) \/ Execute(e) \/ Client(e),
             NEW d \in Deployments
      PROVE  Final(d)
    <2> USE <1>1 DEF JobsInv
    <2>1. CASE ReserveSubmission(e)
        BY <2>1 DEF ReserveSubmission, Evict, NoJob
    <2>2. CASE Register(e)
        BY <2>2 DEF Register, TypeOK, Finished
    <2>3. CASE RegisterStream(e) \/ ReleaseStream(e)
        <3>1. \E n : jobs' = [jobs EXCEPT ![e].leases = n]
            BY <2>3 DEF RegisterStream, ReleaseStream
        <3>2. /\ jobs'[d].status = jobs[d].status
              /\ jobs'[d].claim = jobs[d].claim
              /\ jobs'[d].cancelled = jobs[d].cancelled
            BY <3>1 DEF TypeOK, Job
        <3> QED BY <3>2
    <2>4. ASSUME NEW status \in {"Running", "RollingBack"}, ObserveStatus(e, status)
          PROVE  Final(d)
        BY <2>4 DEF ObserveStatus, TypeOK, Finished, Job
    <2>5. ASSUME NEW status \in Finished, Finalize(e, status)
          PROVE  Final(d)
        BY <2>5 DEF Finalize, TypeOK, Finished
    <2>6. CASE Cancel(e)
        BY <2>6 DEF Cancel, TypeOK, Finished, Job
    <2>7. CASE Acknowledge(e)
        BY <2>7 DEF Acknowledge, TypeOK, Job
    <2>8. CASE ReleaseUnresolved(e)
        BY <2>8 DEF ReleaseUnresolved, LetGo, TypeOK, Job
    <2>9. CASE Reconcile(e)
        BY <2>9 DEF Reconcile, LetGo, TypeOK, Job
    <2>10. CASE UNCHANGED jobs
        BY <2>10
    <2> QED BY <2>1, <2>2, <2>3, <2>4, <2>5, <2>6, <2>7, <2>8, <2>9, <2>10
            DEF Submit, Execute, Client, RejectSubmission, AcknowledgeSubmission,
                DiscardManifest, BeginReconcile, ReadManifests
<1>2. JobsInv /\ [Next]_vars => [\A d \in Deployments : Final(d)]_vars
    BY <1>1 DEF Next
<1> QED BY JobsInvariant, <1>2, PTL DEF Spec, TerminalIsFinal
==============================================================================
