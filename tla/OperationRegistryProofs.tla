----------------------- MODULE OperationRegistryProofs -----------------------
(* Proofs about OperationRegistry for any set of keys, images and any number *)
(* of reservations, and about MachineLifecycle, which works over it, for any *)
(* machines and images.                                                      *)
EXTENDS MachineLifecycle, TLAPS

\* The inductive invariant.  ExclusiveAccess alone is not inductive: a fresh
\* holder must differ from every present one, and a release must leave the
\* holders of other guards, which is what the id conjuncts and HeldExactly say.
RegistryInv ==
    /\ Types
    /\ IdsIssued
    /\ IdsUnique
    /\ ExclusiveAccess
    /\ HeldExactly

\* Canonicalization yields one access mode for each requested key.
LEMMA CanonicalType ==
    ASSUME NEW request \in SUBSET Claim
    PROVE  /\ DOMAIN Canonicalize(request) \in SUBSET Keys
           /\ \A k \in DOMAIN Canonicalize(request) :
                    Canonicalize(request)[k] \in Access
BY DEF Canonicalize, Claim, Access

\* A reservation (reserve_inner) preserves the invariant.
LEMMA ReservePreserves ==
    ASSUME RegistryInv, NEW want, NEW image \in Images \cup {NoImage},
           DOMAIN want \in SUBSET Keys,
           \A k \in DOMAIN want : want[k] \in Access,
           ReserveInner(want, image)
    PROVE  RegistryInv'
<1> DEFINE fresh == nextId + 1
           new == [id |-> fresh, keys |-> DOMAIN want, image |-> image]
<1> USE DEF RegistryInv
<1>1. fresh \in Nat /\ fresh \in 1..fresh /\ nextId \in Nat /\ fresh > nextId
  BY DEF Types
<1>2. nextId' = fresh /\ guards' = guards \cup {new}
  BY DEF ReserveInner, FreshId
<1>3. \A k \in Keys : claims'[k] =
        IF k \in DOMAIN want
        THEN claims[k] \cup {[access |-> want[k], owner |-> fresh]}
        ELSE claims[k]
  BY DEF ReserveInner, FreshId
<1>3a. \A k \in Keys : \A h \in claims'[k] :
            \/ h \in claims[k]
            \/ k \in DOMAIN want /\ h = [access |-> want[k], owner |-> fresh]
  <2> HIDE DEF fresh
  <2> QED BY <1>3, Zenon
<1>4. new \in Guard
  BY <1>1 DEF Guard
<1>5. Types'
  <2>1. claims' \in [Keys -> SUBSET Holder]
    <3>1. \A k \in DOMAIN want : [access |-> want[k], owner |-> fresh] \in Holder
      BY <1>1 DEF Holder
    <3> QED BY <3>1 DEF Types, ReserveInner, FreshId
  <2>2. imageRemovals' \in [Images -> Nat]
    BY <1>1 DEF Types, ReserveInner, FreshId
  <2> QED BY <2>1, <2>2, <1>1, <1>2, <1>4 DEF Types
<1>6. IdsIssued'
  <2>1. \A g \in guards' : g.id \in 1..nextId'
    BY <1>1, <1>2 DEF IdsIssued, Types, Guard
  <2>2. \A k \in Keys : \A h \in claims'[k] : h.owner \in 1..nextId'
    BY <1>1, <1>2, <1>3a DEF IdsIssued, Types, Holder
  <2> QED BY <2>1, <2>2 DEF IdsIssued
<1>7. IdsUnique'
  BY <1>1, <1>2 DEF IdsIssued, IdsUnique, Types, Guard
<1>8. ExclusiveAccess'
  <2> SUFFICES ASSUME NEW k \in Keys, NEW h1 \in claims'[k], NEW h2 \in claims'[k],
                      h1.access = "Exclusive"
               PROVE  h1 = h2
    BY DEF ExclusiveAccess
  <2>1. CASE k \notin DOMAIN want
    BY <2>1, <1>3, Zenon DEF ExclusiveAccess
  <2>2. CASE k \in DOMAIN want
    <3>1. \A h \in claims[k] : h.access # "Exclusive" /\ want[k] # "Exclusive"
      BY <2>2 DEF ReserveInner, FreshId, Conflicts
    <3>2. claims'[k] = claims[k] \cup {[access |-> want[k], owner |-> fresh]}
      BY <2>2, <1>3, Zenon
    <3> QED BY <3>1, <3>2
  <2> QED BY <2>1, <2>2
<1>9. HeldExactly'
  <2> SUFFICES ASSUME NEW k \in Keys
               PROVE  /\ \A h \in claims'[k] : \E g \in guards' :
                            g.id = h.owner /\ k \in g.keys
                      /\ \A g \in guards' : k \in g.keys =>
                            \E h \in claims'[k] : h.owner = g.id
    BY DEF HeldExactly
  <2>1. ASSUME NEW h \in claims'[k]
        PROVE  \E g \in guards' : g.id = h.owner /\ k \in g.keys
    <3>1. CASE h \in claims[k]
      BY <3>1, <1>2 DEF HeldExactly
    <3>2. CASE h \notin claims[k]
      <4>1. k \in DOMAIN want /\ h.owner = fresh
        BY <3>2, <2>1, <1>3a
      <4>2. new \in guards' /\ new.id = fresh /\ new.keys = DOMAIN want
        BY <1>2
      <4> QED BY <4>1, <4>2
    <3> QED BY <3>1, <3>2
  <2>2. ASSUME NEW g \in guards', k \in g.keys
        PROVE  \E h \in claims'[k] : h.owner = g.id
    <3>1. CASE g \in guards
      BY <3>1, <2>2, <1>3, Zenon DEF HeldExactly
    <3>2. CASE g = new
      <4>1. k \in DOMAIN want /\ g.id = fresh
        BY <3>2, <2>2
      <4>2. [access |-> want[k], owner |-> fresh] \in claims'[k]
        BY <4>1, <1>3, Zenon
      <4> QED BY <4>1, <4>2
    <3> QED BY <3>1, <3>2, <1>2
  <2> QED BY <2>1, <2>2
<1> QED BY <1>5, <1>6, <1>7, <1>8, <1>9

\* Dropping a guard preserves the invariant.
LEMMA ReleasePreserves ==
    ASSUME RegistryInv, NEW g \in guards, Release(g)
    PROVE  RegistryInv'
<1> USE DEF RegistryInv
<1>1. guards' = guards \ {g} /\ nextId' = nextId
  BY DEF Release
<1>2. \A k \in Keys : claims'[k] =
        IF k \in g.keys THEN {h \in claims[k] : h.owner # g.id} ELSE claims[k]
  BY DEF Release, WithoutOwner
<1>3. \A k \in Keys : claims'[k] \subseteq claims[k]
  BY <1>2, Zenon
<1>4. Types'
  <2>1. claims' \in [Keys -> SUBSET Holder]
    BY DEF Types, Release, WithoutOwner
  <2>2. imageRemovals' \in [Images -> Nat]
    BY DEF Types, Release, ForgetRemovals
  <2> QED BY <2>1, <2>2, <1>1 DEF Types
<1>5. IdsIssued'
  BY <1>1, <1>3 DEF IdsIssued
<1>6. IdsUnique'
  BY <1>1 DEF IdsUnique
<1>7. ExclusiveAccess'
  BY <1>3 DEF ExclusiveAccess
<1>8. HeldExactly'
  <2> SUFFICES ASSUME NEW k \in Keys
               PROVE  /\ \A h \in claims'[k] : \E g1 \in guards' :
                            g1.id = h.owner /\ k \in g1.keys
                      /\ \A g1 \in guards' : k \in g1.keys =>
                            \E h \in claims'[k] : h.owner = g1.id
    BY DEF HeldExactly
  <2>1. ASSUME NEW h \in claims'[k]
        PROVE  \E g1 \in guards' : g1.id = h.owner /\ k \in g1.keys
    <3>1. PICK g1 \in guards : g1.id = h.owner /\ k \in g1.keys
      BY <2>1, <1>3 DEF HeldExactly
    <3>2. g1 # g
      BY <3>1, <2>1, <1>2, Zenon
    <3> QED BY <3>1, <3>2, <1>1
  <2>2. ASSUME NEW g1 \in guards', k \in g1.keys
        PROVE  \E h \in claims'[k] : h.owner = g1.id
    <3>1. g1 \in guards /\ g1.id # g.id
      BY <2>2, <1>1 DEF IdsUnique
    <3>2. PICK h \in claims[k] : h.owner = g1.id
      BY <3>1, <2>2 DEF HeldExactly
    <3> QED BY <3>1, <3>2, <1>2, Zenon
  <2> QED BY <2>1, <2>2
<1> QED BY <1>4, <1>5, <1>6, <1>7, <1>8

\* The registry's invariant holds in every reachable state.
THEOREM RegistryInvariant == Spec => []RegistryInv
<1>1. Init => RegistryInv
  BY DEF Init, RegistryInv, Types, IdsIssued, IdsUnique, ExclusiveAccess,
         HeldExactly
<1>2. RegistryInv /\ [Next]_vars => RegistryInv'
  <2> SUFFICES ASSUME RegistryInv, [Next]_vars PROVE RegistryInv'
    OBVIOUS
  <2>1. ASSUME NEW request \in SUBSET Claim, Reserve(request)
        PROVE  RegistryInv'
    BY <2>1, CanonicalType, ReservePreserves DEF Reserve
  <2>2. ASSUME NEW image \in Images, ReserveImageRemoval(image)
        PROVE  RegistryInv'
    <3> DEFINE request == {[key |-> KeyOf[image], access |-> "Exclusive"]}
    <3>1. request \in SUBSET Claim
      BY ImageKeys DEF Claim, Access
    <3>2. ReserveInner(Canonicalize(request), image)
      BY <2>2 DEF ReserveImageRemoval
    <3> QED BY <3>1, <3>2, CanonicalType, ReservePreserves
  <2>3. ASSUME NEW g \in guards, Release(g)
        PROVE  RegistryInv'
    BY <2>3, ReleasePreserves
  <2>4. CASE UNCHANGED vars
    BY <2>4 DEF vars, RegistryInv, Types, IdsIssued, IdsUnique,
                ExclusiveAccess, HeldExactly
  <2> QED BY <2>1, <2>2, <2>3, <2>4 DEF Next
<1> QED BY <1>1, <1>2, PTL DEF Spec

\* No operation shares a resource with an exclusive holder, however many
\* operations there are and in whatever order they reserve and drop.
THEOREM Exclusion == Spec => []ExclusiveAccess
<1>1. RegistryInv => ExclusiveAccess
  BY DEF RegistryInv
<1> QED BY <1>1, RegistryInvariant, PTL

\* A reservation is all or nothing, and nothing outlives its guard.
THEOREM ExactHolding == Spec => []HeldExactly
<1>1. RegistryInv => HeldExactly
  BY DEF RegistryInv
<1> QED BY <1>1, RegistryInvariant, PTL

-----------------------------------------------------------------------------
(* Machine and image operations.                                           *)

OpKinds == {"launch", "unit", "remove"} \cup RuntimeAction
Early == {"prepare", "control", "list", "remove"}
Op == [id : Nat, name : Images, kind : OpKinds,
       pc : Early \cup {"confirm", "drop", "release"},
       route : {"first", "second"}, calls : Nat, retain : BOOLEAN]
Pending == {"none", "Starting", "Stopping", "Rebooting", "RebootingAway"}
Observed == {"absent"} \cup Registered
HostState == [machine : [Machines -> Observed \cup {"failed"}],
              job : [Machines -> {"none", "start", "stop", "reboot"}], images : SUBSET Images]
Snapshots == [kind : {"Snapshot"}, machines : [Machines -> Observed], images : SUBSET Images,
              dbus : BOOLEAN]
Updates == Snapshots \cup {NoUpdate, [kind |-> "Failure"]}
Loop == [pc : {"top", "query", "update", "wait"}, publish : BOOLEAN, backend : BOOLEAN,
         primary : BOOLEAN, result : Updates, previous : Snapshots \cup {NoUpdate},
         failing : BOOLEAN, watched : BOOLEAN]
Catalog == [observed : [Machines -> Observed],
            shown : [Machines -> Observed \cup {"Exiting"}], images : SUBSET Images]

LifecycleTypeOK ==
    /\ host \in HostState /\ ops \in SUBSET Op /\ transitions \in [Machines -> Pending]
    /\ finished \in SUBSET OpKinds /\ invalidated \in BOOLEAN /\ signal \in BOOLEAN
    /\ watcher \in {"starting", "watching", "ended", "stopped"}
    /\ loop \in Loop /\ channel \in Updates /\ catalog \in Catalog

\* An operation that is alive has its machine's key to itself, under the guard
\* that it will drop, and has called the host only after its last look back.
OpHolds(o) ==
    /\ \E g \in guards : g.id = o.id
    /\ claims[KeyOf[o.name]] = {[access |-> "Exclusive", owner |-> o.id]}
OpInv(o) ==
    /\ o.calls <= 1 /\ (o.pc \in Early => o.calls = 0)
    /\ o.kind # "remove" => o.name \in Machines
    /\ o.pc \in {"prepare", "control", "confirm", "drop"} => o.kind # "remove"
OpsInv ==
    /\ \A o \in ops : OpHolds(o) /\ OpInv(o)
    /\ \A o1, o2 \in ops : o1.id = o2.id => o1 = o2

\* The last snapshot is on its way to the screen or is what the screen is made
\* of; and what is shown is its projection, unless the completion of an
\* operation that changed the transitions is still to be handled.
Unhandled == (\E o \in ops : o.pc = "release" /\ o.kind # "remove") \/ finished \ {"remove"} # {}
ShownInv ==
    /\ channel.kind = "Snapshot" => channel = loop.previous
    /\ channel.kind # "Snapshot" /\ loop.previous # NoUpdate =>
          catalog.observed = loop.previous.machines /\ catalog.images = loop.previous.images
    /\ Unhandled \/ catalog.shown = Project(catalog.observed, transitions)

\* A snapshot that was read next to a subscribed watcher names the registered
\* machines until a change is announced.
SameMachines(snapshot) ==
    \A m \in Machines : snapshot.machines[m] = "absent" <=> View[m] = "absent"
ReadInv ==
    /\ loop.watched => watcher # "starting"
    /\ loop.watched /\ watcher = "watching" /\ ~ invalidated /\ ~ signal =>
          /\ loop.pc = "update" /\ loop.result.kind = "Snapshot" => SameMachines(loop.result)
          /\ loop.pc = "wait" => loop.previous \in Snapshots /\ SameMachines(loop.previous)

LifecycleInv == RegistryInv /\ LifecycleTypeOK /\ OpsInv /\ ShownInv /\ ReadInv

\* One key, wanted exclusively.
LEMMA OneKey ==
    ASSUME NEW k \in Keys
    PROVE  LET want == Canonicalize({[key |-> k, access |-> "Exclusive"]}) IN
               DOMAIN want = {k} /\ want[k] = "Exclusive"
BY DEF Canonicalize

\* begin_operation and begin_remove: nobody held the key, so the new operation
\* has it to itself and every other operation keeps its own.
LEMMA BeginHolds ==
    ASSUME RegistryInv, ops \in SUBSET Op, OpsInv,
           NEW n \in Images, NEW image \in Images \cup {NoImage}, NEW kind \in OpKinds,
           kind # "remove" => n \in Machines,
           ReserveInner(Canonicalize({[key |-> KeyOf[n], access |-> "Exclusive"]}), image),
           ops' = ops \cup {Operation(n, kind)}
    PROVE  RegistryInv' /\ ops' \in SUBSET Op /\ OpsInv'
<1> DEFINE want == Canonicalize({[key |-> KeyOf[n], access |-> "Exclusive"]})
<1>a. PICK fresh : fresh = nextId + 1
  OBVIOUS
<1>b. PICK new : new = Operation(n, kind)
  OBVIOUS
<1>1. KeyOf[n] \in Keys /\ \A i \in Images : KeyOf[i] \in Keys
  BY ImageKeys
<1>2. DOMAIN want = {KeyOf[n]} /\ want[KeyOf[n]] = "Exclusive"
  BY <1>1, OneKey, Zenon
<1>3. RegistryInv'
  <2>1. DOMAIN want \in SUBSET Keys /\ \A k \in DOMAIN want : want[k] \in Access
    BY <1>1, <1>2 DEF Access
  <2> HIDE DEF want
  <2> QED BY <2>1, ReservePreserves, Zenon DEF want
<1>4. fresh \in Nat /\ nextId \in Nat /\ nextId < fresh
  BY <1>a DEF RegistryInv, Types
<1>5. /\ new.id = fresh /\ new.name = n /\ new.kind = kind /\ new.pc = FirstStep(kind)
      /\ new.calls = 0 /\ new \in Op
      /\ new.pc \in {"prepare", "control", "confirm", "drop"} => kind # "remove"
      /\ new.pc \in Early
  <2>1. FirstStep(kind) \in Early /\ (kind = "remove" => FirstStep(kind) = "list")
    BY DEF FirstStep, Early
  <2> QED BY <2>1, <1>4, <1>a, <1>b DEF Operation, FreshId, Op, Early
<1>6. /\ claims' = [k \in Keys |->
                      IF k \in DOMAIN want
                      THEN claims[k] \cup {[access |-> want[k], owner |-> fresh]}
                      ELSE claims[k]]
      /\ guards' = guards \cup {[id |-> fresh, keys |-> DOMAIN want, image |-> image]}
      /\ ~ Conflicts(want)
  BY <1>a DEF ReserveInner, FreshId
<1>7. claims[KeyOf[n]] = {}
  <2>1. \A h \in claims[KeyOf[n]] : FALSE
    BY <1>2, <1>6, Zenon DEF Conflicts
  <2> QED BY <2>1
<1>8. claims'[KeyOf[n]] = {[access |-> "Exclusive", owner |-> fresh]}
  BY <1>1, <1>2, <1>6, <1>7
<1>9. \A k \in Keys : k # KeyOf[n] => claims'[k] = claims[k]
  BY <1>2, <1>6
<1>10. \A o \in ops : OpHolds(o)' /\ OpInv(o) /\ o.id # fresh
  <2> SUFFICES ASSUME NEW o \in ops PROVE OpHolds(o)' /\ OpInv(o) /\ o.id # fresh
    OBVIOUS
  <2>1. o \in Op /\ OpHolds(o) /\ OpInv(o) /\ o.name \in Images
    BY DEF OpsInv, Op
  <2>2. KeyOf[o.name] # KeyOf[n]
    BY <2>1, <1>7, Zenon DEF OpHolds
  <2>3. claims'[KeyOf[o.name]] = claims[KeyOf[o.name]]
    BY <2>1, <2>2, <1>1, <1>9
  <2>4. OpHolds(o)'
    BY <2>1, <2>3, <1>6 DEF OpHolds
  <2>5. o.id \in 1..nextId
    <3>1. PICK g \in guards : g.id = o.id
      BY <2>1 DEF OpHolds
    <3> QED BY <3>1 DEF RegistryInv, IdsIssued
  <2>6. o.id # fresh
    BY <2>5, <1>4
  <2> QED BY <2>1, <2>4, <2>6
<1>11. OpHolds(new)' /\ OpInv(new)
  <2> DEFINE mine == [id |-> fresh, keys |-> DOMAIN want, image |-> image]
  <2>1. \E g \in guards' : g.id = fresh
    <3>1. mine \in guards' /\ mine.id = fresh
      BY <1>6
    <3> QED BY <3>1
  <2>2. OpHolds(new)'
    BY <2>1, <1>5, <1>8 DEF OpHolds
  <2>3. OpInv(new)
    BY <1>5 DEF OpInv
  <2> QED BY <2>2, <2>3
<1>12. ops' = ops \cup {new}
  BY <1>b
<1>13. \A o \in ops' : OpHolds(o)' /\ OpInv(o)
  BY <1>10, <1>11, <1>12
<1>14. \A o1, o2 \in ops' : o1.id = o2.id => o1 = o2
  BY <1>5, <1>10, <1>12 DEF OpsInv
<1>15. OpsInv'
  BY <1>13, <1>14 DEF OpsInv, OpInv
<1> QED BY <1>3, <1>5, <1>12, <1>15

\* A step of an operation that keeps its reservation and its name.
LEMMA BecomesHolds ==
    ASSUME RegistryInv, ops \in SUBSET Op, OpsInv, UNCHANGED vars,
           NEW o \in ops, NEW new \in Op, new.id = o.id, new.name = o.name,
           OpInv(new), Becomes(o, new)
    PROVE  RegistryInv' /\ ops' \in SUBSET Op /\ OpsInv'
<1>1. RegistryInv'
  BY DEF RegistryInv, vars, Types, IdsIssued, IdsUnique, ExclusiveAccess, HeldExactly
<1>2. ops' = (ops \ {o}) \cup {new}
  BY DEF Becomes
<1>3. \A p : OpHolds(p) => OpHolds(p)'
  BY DEF OpHolds, vars
<1>4. OpHolds(new)'
  <2>1. OpHolds(o)
    BY DEF OpsInv
  <2>2. OpHolds(new)
    BY <2>1 DEF OpHolds
  <2> QED BY <2>2, <1>3
<1>5. \A p \in ops' : OpHolds(p)' /\ OpInv(p)
  BY <1>2, <1>3, <1>4 DEF OpsInv
<1>6. \A o1, o2 \in ops' : o1.id = o2.id => o1 = o2
  BY <1>2 DEF OpsInv
<1>7. OpsInv'
  BY <1>5, <1>6 DEF OpsInv, OpInv
<1> QED BY <1>1, <1>2, <1>7

\* Dropping the reservation of one operation leaves the others theirs.
LEMMA DropHolds ==
    ASSUME RegistryInv, ops \in SUBSET Op, OpsInv, NEW o \in ops,
           Release(CHOOSE g \in guards : g.id = o.id), ops' = ops \ {o}
    PROVE  RegistryInv' /\ ops' \in SUBSET Op /\ OpsInv'
<1>1. PICK g : g = CHOOSE x \in guards : x.id = o.id
  OBVIOUS
<1>2. g \in guards /\ g.id = o.id
  <2>1. \E x \in guards : x.id = o.id
    BY DEF OpsInv, OpHolds
  <2> QED BY <2>1, <1>1
<1>3. Release(g)
  BY <1>1
<1>4. RegistryInv'
  BY <1>2, <1>3, ReleasePreserves
<1>5. \A p \in ops' : OpHolds(p)' /\ OpInv(p)
  <2> SUFFICES ASSUME NEW p \in ops' PROVE OpHolds(p)' /\ OpInv(p)
    OBVIOUS
  <2>1. p \in ops /\ p # o /\ p.id # o.id /\ OpHolds(p) /\ OpInv(p) /\ p.name \in Images
    BY DEF OpsInv, Op
  <2>2. KeyOf[p.name] \in Keys
    BY <2>1, ImageKeys
  <2>3. claims'[KeyOf[p.name]] = claims[KeyOf[p.name]]
    <3>1. \A h \in claims[KeyOf[p.name]] : h.owner # g.id
      BY <2>1, <1>2 DEF OpHolds
    <3>2. claims'[KeyOf[p.name]] =
            IF KeyOf[p.name] \in g.keys
            THEN {h \in claims[KeyOf[p.name]] : h.owner # g.id}
            ELSE claims[KeyOf[p.name]]
      BY <2>2, <1>3, Zenon DEF Release, WithoutOwner
    <3>3. {h \in claims[KeyOf[p.name]] : h.owner # g.id} = claims[KeyOf[p.name]]
      BY <3>1
    <3> QED BY <3>2, <3>3, Zenon
  <2>4. \E x \in guards' : x.id = p.id
    BY <2>1, <1>2, <1>3 DEF OpHolds, Release
  <2>5. OpHolds(p)'
    BY <2>1, <2>3, <2>4 DEF OpHolds
  <2> QED BY <2>1, <2>5
<1>6. OpsInv'
  BY <1>5 DEF OpsInv, OpInv
<1> QED BY <1>4, <1>6

LEMMA HoldsFrame ==
    ASSUME RegistryInv, ops \in SUBSET Op, OpsInv, UNCHANGED <<vars, ops>>
    PROVE  RegistryInv' /\ ops' \in SUBSET Op /\ OpsInv'
<1>1. RegistryInv'
  BY DEF RegistryInv, vars, Types, IdsIssued, IdsUnique, ExclusiveAccess, HeldExactly
<1>2. OpsInv'
  BY DEF OpsInv, OpHolds, OpInv, vars
<1> QED BY <1>1, <1>2

LEMMA ShownFrame ==
    ASSUME ShownInv, UNCHANGED <<catalog, transitions, channel>>,
           loop'.previous = loop.previous, Unhandled => Unhandled'
    PROVE  ShownInv'
BY DEF ShownInv

\* What was read stays good when the registered machines do, or when the change
\* has been announced.
LEMMA ReadFrame ==
    ASSUME ReadInv, UNCHANGED <<loop, watcher>>, invalidated => invalidated',
           signal => signal',
           \/ signal' \/ invalidated' \/ watcher # "watching"
           \/ \A m \in Machines : View'[m] = "absent" <=> View[m] = "absent"
    PROVE  ReadInv'
<1>1. CASE signal' \/ invalidated' \/ watcher # "watching"
  BY <1>1 DEF ReadInv
<1>2. CASE \A m \in Machines : View'[m] = "absent" <=> View[m] = "absent"
  <2>1. \A s : SameMachines(s) => SameMachines(s)'
    BY <1>2 DEF SameMachines
  <2> QED BY <2>1 DEF ReadInv
<1> QED BY <1>1, <1>2

\* The host registers or removes a machine and tells a subscribed watcher.
LEMMA HostBecomesKeeps ==
    ASSUME LifecycleTypeOK, ReadInv, NEW m \in Machines,
           NEW state \in Observed \cup {"failed"},
           HostBecomes(m, state), UNCHANGED <<loop, watcher, invalidated>>
    PROVE  host' \in HostState /\ signal' \in BOOLEAN /\ ReadInv'
<1> DEFINE jobs == [host.job EXCEPT ![m] = IF state \in {"Running", "absent", "failed"}
                                           THEN "none" ELSE @]
           states == [host.machine EXCEPT ![m] = state]
<1>1. /\ host \in HostState /\ host.machine \in [Machines -> Observed \cup {"failed"}]
      /\ host.job \in [Machines -> {"none", "start", "stop", "reboot"}]
      /\ host.images \in SUBSET Images /\ signal \in BOOLEAN
  BY DEF LifecycleTypeOK, HostState
<1>2. host' = [machine |-> states, job |-> jobs, images |-> host.images]
  BY <1>1, Zenon DEF HostBecomes, HostState
<1>3. states \in [Machines -> Observed \cup {"failed"}]
      /\ jobs \in [Machines -> {"none", "start", "stop", "reboot"}]
  BY <1>1
<1>4. host' \in HostState
  <2> HIDE DEF states, jobs
  <2> QED BY <1>1, <1>2, <1>3 DEF HostState
<1>5. signal' = (signal \/ (((state \in Registered) # (host.machine[m] \in Registered))
                            /\ watcher = "watching"))
  BY DEF HostBecomes, Announce
<1>6. host'.machine = states
  BY <1>2
<1>7. \/ signal' \/ invalidated' \/ watcher # "watching"
      \/ \A n \in Machines : View'[n] = "absent" <=> View[n] = "absent"
  <2>1. CASE (state \in Registered) # (host.machine[m] \in Registered)
    BY <2>1, <1>5, Zenon
  <2>2. CASE ~ ((state \in Registered) # (host.machine[m] \in Registered))
    <3>1. \A n \in Machines : n # m => host'.machine[n] = host.machine[n]
      BY <1>1, <1>6
    <3>2. host'.machine[m] = state
      BY <1>1, <1>6
    <3>3. \A n \in Machines : View[n] = IF host.machine[n] = "failed" THEN "absent"
                                        ELSE host.machine[n]
      BY DEF View
    <3>4. \A n \in Machines : View'[n] = IF host'.machine[n] = "failed" THEN "absent"
                                         ELSE host'.machine[n]
      BY DEF View
    <3>5. host.machine[m] \in Observed \cup {"failed"}
      BY <1>1
    <3>6. View'[m] = "absent" <=> View[m] = "absent"
      BY <2>2, <3>2, <3>3, <3>4, <3>5 DEF Observed, Registered
    <3>7. \A n \in Machines : View'[n] = "absent" <=> View[n] = "absent"
      BY <3>1, <3>3, <3>4, <3>6
    <3> QED BY <3>7
  <2> QED BY <2>1, <2>2
<1>8. ReadInv'
  BY <1>5, <1>7, ReadFrame, Zenon
<1>9. signal' \in BOOLEAN
  BY <1>1, <1>5
<1> QED BY <1>4, <1>8, <1>9

\* Changes of the host that leave its machines alone.
LEMMA SameView ==
    ASSUME ReadInv, UNCHANGED <<loop, watcher>>, invalidated => invalidated',
           signal => signal', host'.machine = host.machine
    PROVE  ReadInv'
<1>1. \A m \in Machines : View'[m] = "absent" <=> View[m] = "absent"
  BY DEF View
<1> QED BY <1>1, ReadFrame

LEMMA JobSet ==
    ASSUME NEW h \in HostState, NEW m \in Machines, NEW j \in {"none", "start", "stop", "reboot"}
    PROVE  [h EXCEPT !.job[m] = j] \in HostState
           /\ [h EXCEPT !.job[m] = j].machine = h.machine
BY DEF HostState

LEMMA HostStepKeeps ==
    ASSUME LifecycleInv, NEW m \in Machines, HostStep(m)
    PROVE  LifecycleInv'
<1>1. UNCHANGED <<vars, ops, transitions, finished, invalidated, catalog, watcher, loop, channel>>
  BY DEF HostStep, viewVars
<1>2. RegistryInv' /\ ops' \in SUBSET Op /\ OpsInv'
  BY <1>1, HoldsFrame DEF LifecycleInv, LifecycleTypeOK
<1>3. ShownInv'
  <2>1. Unhandled => Unhandled'
    BY <1>1 DEF Unhandled
  <2> QED BY <2>1, <1>1, ShownFrame DEF LifecycleInv
<1>4. host \in HostState /\ signal \in BOOLEAN /\ ReadInv /\ LifecycleTypeOK
  BY DEF LifecycleInv, LifecycleTypeOK
<1>5. host' \in HostState /\ signal' \in BOOLEAN /\ ReadInv'
  <2>1. CASE \E s \in Observed \cup {"failed"} : HostBecomes(m, s)
    BY <2>1, <1>1, <1>4, HostBecomesKeeps
  <2>2. CASE HostReboots(m)
    <3> DEFINE states == [host.machine EXCEPT ![m] = "absent"]
               jobs == [host.job EXCEPT ![m] = "start"]
    <3>1. host' = [machine |-> states, job |-> jobs, images |-> host.images]
      BY <2>2, <1>4, Zenon DEF HostReboots, HostState
    <3>2. states \in [Machines -> Observed \cup {"failed"}]
      BY <1>4 DEF HostState, Observed
    <3>3. jobs \in [Machines -> {"none", "start", "stop", "reboot"}]
      BY <1>4 DEF HostState
    <3>4. host' \in HostState
      <4> HIDE DEF states, jobs
      <4> QED BY <3>1, <3>2, <3>3, <1>4 DEF HostState
    <3>5. signal' = (signal \/ watcher = "watching")
      BY <2>2 DEF HostReboots, Announce
    <3>6. ReadInv'
      BY <3>5, <1>1, <1>4, ReadFrame, Zenon
    <3> QED BY <3>4, <3>5, <3>6, <1>4
  <2>3. CASE HostDrops(m)
    <3>1. host' = [host EXCEPT !.job[m] = "none"] /\ signal' = signal
      BY <2>3 DEF HostDrops
    <3>2. host' \in HostState /\ host'.machine = host.machine
      BY <3>1, <1>4, JobSet, Zenon
    <3> QED BY <3>1, <3>2, <1>1, <1>4, SameView
  <2>4. HostStarts(m) => \E s \in Observed \cup {"failed"} : HostBecomes(m, s)
    BY DEF HostStarts, Observed, Registered
  <2>5. HostStops(m) => \E s \in Observed \cup {"failed"} : HostBecomes(m, s)
    BY DEF HostStops, Observed
  <2> QED BY <2>1, <2>2, <2>3, <2>4, <2>5 DEF HostStep
<1>6. LifecycleTypeOK'
  BY <1>1, <1>2, <1>4, <1>5 DEF LifecycleTypeOK
<1> QED BY <1>2, <1>3, <1>5, <1>6 DEF LifecycleInv

LEMMA ElsewhereKeeps ==
    ASSUME LifecycleInv, NEW m \in Machines, NEW j \in {"start", "stop"}, Elsewhere(m, j)
    PROVE  LifecycleInv'
<1>1. /\ UNCHANGED <<vars, ops, transitions, finished, invalidated, signal, catalog, watcher,
                     loop, channel>>
      /\ host' = [host EXCEPT !.job[m] = j]
  BY DEF Elsewhere, viewVars
<1>2. RegistryInv' /\ ops' \in SUBSET Op /\ OpsInv'
  BY <1>1, HoldsFrame DEF LifecycleInv, LifecycleTypeOK
<1>3. Unhandled => Unhandled'
  BY <1>1 DEF Unhandled
<1>4. ShownInv'
  BY <1>1, <1>3, ShownFrame DEF LifecycleInv
<1>5. host' \in HostState /\ host'.machine = host.machine
  BY <1>1, JobSet, ZenonT(30) DEF LifecycleInv, LifecycleTypeOK
<1>6. ReadInv'
  BY <1>1, <1>5, SameView DEF LifecycleInv
<1>7. LifecycleTypeOK'
  BY <1>1, <1>2, <1>5 DEF LifecycleInv, LifecycleTypeOK
<1> QED BY <1>2, <1>4, <1>6, <1>7 DEF LifecycleInv

-----------------------------------------------------------------------------
(* The operations themselves.                                               *)

LEMMA ProjectType ==
    ASSUME NEW observed \in [Machines -> Observed], NEW pending \in [Machines -> Pending]
    PROVE  Project(observed, pending) \in [Machines -> Observed \cup {"Exiting"}]
<1>1. \A m \in Machines : observed[m] \in Observed /\ "Starting" \in Observed
  BY DEF Observed, Registered
<1> QED BY <1>1 DEF Project

\* Rebuilding the list makes it the projection again.
LEMMA ReprojectKeeps ==
    ASSUME ShownInv, catalog \in Catalog, NEW pending \in [Machines -> Pending],
           transitions' = pending, Reproject(pending), UNCHANGED <<channel, loop>>
    PROVE  catalog' \in Catalog /\ ShownInv'
<1>1. /\ catalog'.observed = catalog.observed /\ catalog'.images = catalog.images
      /\ catalog'.shown = Project(catalog.observed, pending)
      /\ catalog' = [observed |-> catalog.observed, shown |-> catalog'.shown,
                     images |-> catalog.images]
  BY DEF Reproject, Catalog
<1>2. catalog.observed \in [Machines -> Observed] /\ catalog.images \in SUBSET Images
  BY DEF Catalog
<1>3. catalog'.shown \in [Machines -> Observed \cup {"Exiting"}]
  BY <1>1, <1>2, ProjectType
<1>4. catalog' \in Catalog
  BY <1>1, <1>2, <1>3 DEF Catalog
<1>5. ShownInv'
  BY <1>1 DEF ShownInv
<1> QED BY <1>4, <1>5

LEMMA BeginOperationKeeps ==
    ASSUME LifecycleInv, NEW m \in Machines, NEW kind \in OpKinds \ {"remove"},
           BeginOperation(m, kind)
    PROVE  LifecycleInv'
<1>1. /\ UNCHANGED <<host, signal, watcher, loop, channel, finished, invalidated>>
      /\ ops' = ops \cup {Operation(m, kind)} /\ Reproject(transitions')
      /\ ReserveInner(Canonicalize({[key |-> KeyOf[m], access |-> "Exclusive"]}), NoImage)
  BY DEF BeginOperation, hostVars, viewVars, Reserve, ForMachine
<1>2. m \in Images
  BY MachineNames
<1>3. RegistryInv' /\ ops' \in SUBSET Op /\ OpsInv'
  BY <1>1, <1>2, BeginHolds DEF LifecycleInv, LifecycleTypeOK
<1>4. transitions' \in [Machines -> Pending]
  <2>1. TransitionOf(kind) \in Pending
    BY DEF TransitionOf, Pending
  <2> QED BY <2>1 DEF BeginOperation, LifecycleInv, LifecycleTypeOK
<1>5. catalog' \in Catalog /\ ShownInv'
  BY <1>1, <1>4, ReprojectKeeps DEF LifecycleInv, LifecycleTypeOK
<1>6. ReadInv'
  BY <1>1, SameView DEF LifecycleInv
<1>7. LifecycleTypeOK'
  BY <1>1, <1>3, <1>4, <1>5 DEF LifecycleInv, LifecycleTypeOK
<1> QED BY <1>3, <1>5, <1>6, <1>7 DEF LifecycleInv

LEMMA BeginRemoveKeeps ==
    ASSUME LifecycleInv, NEW i \in Images, BeginRemove(i)
    PROVE  LifecycleInv'
<1>1. /\ UNCHANGED <<host, signal, watcher, loop, channel, finished, invalidated, transitions,
                     catalog>>
      /\ ops' = ops \cup {Operation(i, "remove")}
      /\ ReserveInner(Canonicalize({[key |-> KeyOf[i], access |-> "Exclusive"]}), i)
  BY DEF BeginRemove, hostVars, viewVars, ReserveImageRemoval
<1>2. "remove" \in OpKinds
  BY DEF OpKinds
<1>3. RegistryInv' /\ ops' \in SUBSET Op /\ OpsInv'
  BY <1>1, <1>2, BeginHolds DEF LifecycleInv, LifecycleTypeOK
<1>4. Unhandled => Unhandled'
  BY <1>1 DEF Unhandled
<1>5. ShownInv' /\ ReadInv'
  BY <1>1, <1>4, ShownFrame, SameView DEF LifecycleInv
<1>6. LifecycleTypeOK'
  BY <1>1, <1>3 DEF LifecycleInv, LifecycleTypeOK
<1> QED BY <1>3, <1>5, <1>6 DEF LifecycleInv

LEMMA AskKeeps ==
    ASSUME LifecycleInv, Ask
    PROVE  LifecycleInv'
<1>1. CASE \E m \in Machines : \E kind \in OpKinds \ {"remove"} : BeginOperation(m, kind)
  BY <1>1, BeginOperationKeeps
<1>2. CASE \E i \in Images : BeginRemove(i)
  BY <1>2, BeginRemoveKeeps
<1>3. \A m \in Machines : BeginLaunch(m) => BeginOperation(m, "launch")
  BY DEF BeginLaunch
<1>4. \A m \in Machines : BeginUnit(m) => BeginOperation(m, "unit")
  BY DEF BeginUnit
<1>5. \A m \in Machines, a \in RuntimeAction : BeginRuntime(m, a) => BeginOperation(m, a)
  BY DEF BeginRuntime
<1>6. {"launch", "unit"} \cup RuntimeAction \subseteq OpKinds \ {"remove"}
  BY DEF OpKinds, RuntimeAction
<1> QED BY <1>1, <1>2, <1>3, <1>4, <1>5, <1>6 DEF Ask

\* A step of an operation before it drops: it may change jobs and images of the
\* host and announce that, and touches nothing that is shown.
LEMMA OpStepKeeps ==
    ASSUME LifecycleInv, NEW o \in ops, NEW new \in Op, new.id = o.id, new.name = o.name,
           OpInv(new), Becomes(o, new), o.pc # "release", OnlyOps,
           host' \in HostState, host'.machine = host.machine,
           signal' \in BOOLEAN, signal => signal',
           invalidated' \in BOOLEAN, invalidated => invalidated'
    PROVE  LifecycleInv'
<1>1. UNCHANGED <<vars, transitions, finished, watcher, loop, channel, catalog>>
  BY DEF OnlyOps
<1>2. RegistryInv' /\ ops' \in SUBSET Op /\ OpsInv'
  BY <1>1, BecomesHolds DEF LifecycleInv, LifecycleTypeOK
<1>3. Unhandled => Unhandled'
  BY <1>1 DEF Unhandled, Becomes
<1>4. ShownInv' /\ ReadInv'
  BY <1>1, <1>3, ShownFrame, SameView DEF LifecycleInv
<1>5. LifecycleTypeOK'
  BY <1>1, <1>2 DEF LifecycleInv, LifecycleTypeOK
<1> QED BY <1>2, <1>4, <1>5 DEF LifecycleInv

\* What a step makes of an operation.
LEMMA PcSet ==
    ASSUME NEW o \in Op, OpInv(o),
           NEW pc \in Early \cup {"confirm", "drop", "release"},
           pc \in Early => o.calls = 0,
           pc \in {"prepare", "control", "confirm", "drop"} => o.kind # "remove"
    PROVE  LET new == [o EXCEPT !.pc = pc] IN
               new \in Op /\ new.id = o.id /\ new.name = o.name /\ OpInv(new)
<1> DEFINE new == [o EXCEPT !.pc = pc]
<1>1. /\ new \in Op /\ new.id = o.id /\ new.name = o.name /\ new.kind = o.kind
      /\ new.calls = o.calls /\ new.pc = pc
  BY DEF Op
<1> HIDE DEF new
<1>2. OpInv(new)
  BY <1>1 DEF OpInv
<1> QED BY <1>1, <1>2 DEF new

LEMMA EndsSet ==
    ASSUME NEW o \in Op, OpInv(o), o.kind # "remove", NEW retain \in BOOLEAN
    PROVE  LET new == Ends(o, retain) IN
               new \in Op /\ new.id = o.id /\ new.name = o.name /\ OpInv(new)
<1> DEFINE new == Ends(o, retain)
           r == retain /\ HasTransition(o)
           p == [o EXCEPT !.pc = "drop"]
<1>1. p \in Op /\ p.id = o.id /\ p.name = o.name /\ OpInv(p)
  BY PcSet, Zenon DEF Early
<1>1a. p.kind = o.kind /\ p.calls = o.calls /\ p.pc = "drop"
  BY DEF Op
<1>2. r \in BOOLEAN
  OBVIOUS
<1> HIDE DEF r
<1>3. new = [p EXCEPT !.retain = r]
  BY DEF Ends, r, Op
<1> HIDE DEF new, p
<1>4. /\ new \in Op /\ new.id = p.id /\ new.name = p.name /\ new.kind = p.kind
      /\ new.calls = p.calls /\ new.pc = p.pc
  BY <1>1, <1>2, <1>3 DEF Op
<1>5. OpInv(new)
  BY <1>1, <1>4 DEF OpInv
<1> QED BY <1>1, <1>4, <1>5 DEF new

\* A call is counted when it may have reached the host.
LEMMA CallSet ==
    ASSUME NEW o \in Op, OpInv(o), o.pc \in Early, NEW n \in {0, 1},
           NEW new \in {[o EXCEPT !.calls = n]}
    PROVE  /\ new \in Op /\ new.id = o.id /\ new.name = o.name /\ new.kind = o.kind
           /\ new.pc = o.pc /\ new.calls = n /\ new.route = o.route
<1> QED BY DEF Op

LEMMA RefuseKeeps ==
    ASSUME LifecycleInv, NEW o \in ops, Refuse(o)
    PROVE  LifecycleInv'
<1>1. o \in Op /\ OpInv(o) /\ host \in HostState /\ signal \in BOOLEAN /\ invalidated \in BOOLEAN
  BY DEF LifecycleInv, LifecycleTypeOK, OpsInv
<1>2. o.pc # "release"
  BY DEF Refuse, FirstStep
<1>3. \E new \in Op : new.id = o.id /\ new.name = o.name /\ OpInv(new) /\ Becomes(o, new)
  <2>1. CASE o.kind = "remove"
    <3>1. Becomes(o, [o EXCEPT !.pc = "release"])
      BY <2>1 DEF Refuse, Goto
    <3> QED BY <3>1, <1>1, PcSet, Zenon DEF Early
  <2>2. CASE o.kind # "remove"
    <3>1. Becomes(o, Ends(o, FALSE))
      BY <2>2, Zenon DEF Refuse
    <3> QED BY <3>1, <2>2, <1>1, EndsSet, Zenon
  <2> QED BY <2>1, <2>2
<1> QED BY <1>1, <1>2, <1>3, OpStepKeeps DEF Refuse

LEMMA PrepareKeeps ==
    ASSUME LifecycleInv, NEW o \in ops, Prepare(o)
    PROVE  LifecycleInv'
<1>1. /\ o \in Op /\ OpInv(o) /\ host \in HostState /\ signal \in BOOLEAN
      /\ o.pc = "prepare" /\ o.kind # "remove" /\ o.calls = 0
  BY DEF LifecycleInv, LifecycleTypeOK, OpsInv, OpInv, Prepare, Early
<1>2. \E new \in Op : new.id = o.id /\ new.name = o.name /\ OpInv(new) /\ Becomes(o, new)
  <2>1. CASE Goto(o, "control")
    BY <2>1, <1>1, PcSet, Zenon DEF Early, Goto
  <2>2. CASE \E unknown \in BOOLEAN : Becomes(o, Ends(o, unknown))
    BY <2>2, <1>1, EndsSet
  <2> QED BY <2>1, <2>2 DEF Prepare
<1> QED BY <1>1, <1>2, OpStepKeeps DEF Prepare

LEMMA ConfirmStartKeeps ==
    ASSUME LifecycleInv, NEW o \in ops, ConfirmStart(o)
    PROVE  LifecycleInv'
<1>1. /\ o \in Op /\ OpInv(o) /\ host \in HostState /\ signal \in BOOLEAN
      /\ o.pc = "confirm" /\ o.kind # "remove"
  BY DEF LifecycleInv, LifecycleTypeOK, OpsInv, OpInv, ConfirmStart
<1>2. \E new \in Op : new.id = o.id /\ new.name = o.name /\ OpInv(new) /\ Becomes(o, new)
  BY <1>1, EndsSet, Zenon DEF ConfirmStart
<1> QED BY <1>1, <1>2, OpStepKeeps DEF ConfirmStart

LEMMA ListMachinesKeeps ==
    ASSUME LifecycleInv, NEW o \in ops, ListMachines(o)
    PROVE  LifecycleInv'
<1>1. /\ o \in Op /\ OpInv(o) /\ host \in HostState /\ signal \in BOOLEAN
      /\ invalidated \in BOOLEAN /\ o.pc = "list" /\ o.calls = 0
  BY DEF LifecycleInv, LifecycleTypeOK, OpsInv, OpInv, ListMachines, Early
<1>2. \E new \in Op : new.id = o.id /\ new.name = o.name /\ OpInv(new) /\ Becomes(o, new)
  <2>1. Goto(o, "release") \/ Goto(o, "remove")
    BY DEF ListMachines
  <2> QED BY <2>1, <1>1, PcSet, Zenon DEF Early, Goto
<1> QED BY <1>1, <1>2, OpStepKeeps DEF ListMachines

\* What a call does to the host leaves its machines to the host.
LEMMA AcceptedType ==
    ASSUME NEW o \in Op, OpInv(o), host \in HostState
    PROVE  Accepted(o) \in HostState /\ Accepted(o).machine = host.machine
<1> DEFINE h == [host EXCEPT !.images = @ \ {o.name}]
<1>1. h \in HostState /\ h.machine = host.machine
  BY DEF HostState
<1>2. CASE o.kind = "remove"
  BY <1>1, <1>2, Zenon DEF Accepted
<1>3. CASE o.kind # "remove"
  <2>1. o.name \in Machines
    BY <1>3 DEF OpInv
  <2>2. \A j \in {"none", "start", "stop", "reboot"} :
            [host EXCEPT !.job[o.name] = j] \in HostState
            /\ [host EXCEPT !.job[o.name] = j].machine = host.machine
    BY <2>1, JobSet, Zenon
  <2>3. \/ Accepted(o) = host
        \/ \E j \in {"none", "start", "stop", "reboot"} : Accepted(o) = [host EXCEPT !.job[o.name] = j]
    BY <1>3 DEF Accepted
  <2> QED BY <2>2, <2>3, Zenon
<1> QED BY <1>2, <1>3

LEMMA AttemptKeeps ==
    ASSUME NEW o \in Op, OpInv(o), host \in HostState, signal \in BOOLEAN,
           NEW outcome, Attempt(o, outcome)
    PROVE  /\ host' \in HostState /\ host'.machine = host.machine
           /\ signal' \in BOOLEAN /\ (signal => signal')
<1>1. (host' = Accepted(o) /\ Announce(o.kind = "remove")) \/ UNCHANGED <<host, signal>>
  BY DEF Attempt
<1>2. Accepted(o) \in HostState /\ Accepted(o).machine = host.machine
  BY AcceptedType
<1> QED BY <1>1, <1>2, Zenon DEF Announce

\* One executor at a time; only a call that was not attempted leaves the
\* operation where it was.
LEMMA ControlKeeps ==
    ASSUME LifecycleInv, NEW o \in ops, Control(o)
    PROVE  LifecycleInv'
<1>1. /\ o \in Op /\ OpInv(o) /\ host \in HostState /\ signal \in BOOLEAN
      /\ invalidated \in BOOLEAN /\ o.pc = "control" /\ o.kind # "remove" /\ o.calls = 0
      /\ o.pc \in Early
  BY DEF LifecycleInv, LifecycleTypeOK, OpsInv, OpInv, Control, Early
<1>2. PICK outcome \in ControlOutcome :
        LET called == [o EXCEPT !.calls = IF outcome \in {"NotAttempted", "Rejected"}
                                          THEN @ ELSE @ + 1]
        IN  /\ Attempt(o, outcome)
            /\ IF FallsBack(o, outcome)
               THEN Becomes(o, [called EXCEPT !.route = "second"])
                    /\ UNCHANGED invalidated
               ELSE IF o.kind = "launch" /\ outcome = "Succeeded"
               THEN Becomes(o, [called EXCEPT !.pc = "confirm"])
                    /\ UNCHANGED invalidated
               ELSE /\ Becomes(o, Ends(called, outcome \in {"Succeeded", "OutcomeUnknown"}))
                    /\ invalidated' = TRUE
  BY Zenon DEF Control
<1>3. PICK n \in {0, 1} : n = IF outcome \in {"NotAttempted", "Rejected"} THEN 0 ELSE 1
  OBVIOUS
<1>4. PICK called : called = [o EXCEPT !.calls = n]
  BY Zenon
<1>5. called = [o EXCEPT !.calls = IF outcome \in {"NotAttempted", "Rejected"}
                                   THEN @ ELSE @ + 1]
  BY <1>1, <1>3, <1>4 DEF Op
<1>6. /\ called \in Op /\ called.id = o.id /\ called.name = o.name /\ called.kind = o.kind
      /\ called.pc = o.pc /\ called.calls = n
  BY <1>1, <1>4, CallSet, Zenon
<1>7. \/ FallsBack(o, outcome) /\ Becomes(o, [called EXCEPT !.route = "second"])
         /\ UNCHANGED invalidated
      \/ Becomes(o, [called EXCEPT !.pc = "confirm"]) /\ UNCHANGED invalidated
      \/ Becomes(o, Ends(called, outcome \in {"Succeeded", "OutcomeUnknown"}))
         /\ invalidated' = TRUE
  BY <1>2, <1>5
<1>8. \E new \in Op : new.id = o.id /\ new.name = o.name /\ OpInv(new) /\ Becomes(o, new)
  <2>1. CASE FallsBack(o, outcome) /\ Becomes(o, [called EXCEPT !.route = "second"])
    <3>1. n = 0
      BY <2>1, <1>3 DEF FallsBack
    <3>2. PICK new : new = [called EXCEPT !.route = "second"]
      BY Zenon
    <3>3. /\ new \in Op /\ new.id = o.id /\ new.name = o.name /\ new.kind = o.kind
          /\ new.pc = o.pc /\ new.calls = 0
      BY <3>1, <3>2, <1>6 DEF Op
    <3>4. OpInv(new)
      BY <3>3, <1>1 DEF OpInv
    <3> QED BY <2>1, <3>2, <3>3, <3>4, Zenon
  <2>2. CASE Becomes(o, [called EXCEPT !.pc = "confirm"])
    <3>1. PICK new : new = [called EXCEPT !.pc = "confirm"]
      BY Zenon
    <3>2. /\ new \in Op /\ new.id = o.id /\ new.name = o.name /\ new.kind = o.kind
          /\ new.pc = "confirm" /\ new.calls = n
      BY <3>1, <1>6 DEF Op
    <3>3. OpInv(new)
      BY <3>2, <1>1 DEF OpInv, Early
    <3> QED BY <2>2, <3>1, <3>2, <3>3, Zenon
  <2>3. CASE Becomes(o, Ends(called, outcome \in {"Succeeded", "OutcomeUnknown"}))
    <3> DEFINE retain == outcome \in {"Succeeded", "OutcomeUnknown"}
    <3>1. Becomes(o, Ends(called, retain)) /\ retain \in BOOLEAN
      BY <2>3
    <3> HIDE DEF retain
    <3>2. PICK new : new = Ends(called, retain)
      OBVIOUS
    <3> DEFINE keep == retain /\ HasTransition(called)
    <3>3. keep \in BOOLEAN
      BY <3>1
    <3>4. new = [called EXCEPT !.pc = "drop", !.retain = keep]
      BY <3>2 DEF Ends
    <3> HIDE DEF keep
    <3>5. PICK dropped : dropped = [called EXCEPT !.pc = "drop"]
      BY Zenon
    <3>6. /\ dropped \in Op /\ dropped.id = o.id /\ dropped.name = o.name
          /\ dropped.kind = o.kind /\ dropped.pc = "drop" /\ dropped.calls = n
      BY <3>5, <1>6 DEF Op
    <3>7. new = [dropped EXCEPT !.retain = keep]
      BY <3>4, <3>5, <1>6 DEF Op
    <3>8. /\ new \in Op /\ new.id = o.id /\ new.name = o.name /\ new.kind = o.kind
          /\ new.pc = "drop" /\ new.calls = n
      BY <3>3, <3>6, <3>7 DEF Op
    <3>9. OpInv(new)
      BY <3>8, <1>1 DEF OpInv, Early
    <3> QED BY <3>1, <3>2, <3>8, <3>9
  <2> QED BY <1>7, <2>1, <2>2, <2>3
<1>9. /\ host' \in HostState /\ host'.machine = host.machine
      /\ signal' \in BOOLEAN /\ (signal => signal')
  BY <1>1, <1>2, AttemptKeeps
<1>10. invalidated' \in BOOLEAN /\ (invalidated => invalidated')
  BY <1>1, <1>7, Zenon
<1>11. o.pc # "release" /\ OnlyOps
  BY <1>1 DEF Control
<1> QED BY <1>8, <1>9, <1>10, <1>11, OpStepKeeps

LEMMA RemoveImageKeeps ==
    ASSUME LifecycleInv, NEW o \in ops, RemoveImage(o)
    PROVE  LifecycleInv'
<1>1. /\ o \in Op /\ OpInv(o) /\ host \in HostState /\ signal \in BOOLEAN
      /\ invalidated \in BOOLEAN /\ o.pc = "remove" /\ o.calls = 0 /\ o.pc \in Early
  BY DEF LifecycleInv, LifecycleTypeOK, OpsInv, OpInv, RemoveImage, Early
<1>2. PICK outcome \in ControlOutcome :
        /\ Attempt(o, outcome)
        /\ LET called == [o EXCEPT !.calls = IF outcome \in {"NotAttempted", "Rejected"}
                                             THEN @ ELSE @ + 1]
           IN  Becomes(o, IF FallsBack(o, outcome)
                          THEN [called EXCEPT !.route = "second"]
                          ELSE [called EXCEPT !.pc = "release"])
  BY Zenon DEF RemoveImage
<1>3. PICK n \in {0, 1} : n = IF outcome \in {"NotAttempted", "Rejected"} THEN 0 ELSE 1
  OBVIOUS
<1>4. PICK called : called = [o EXCEPT !.calls = n]
  BY Zenon
<1>5. called = [o EXCEPT !.calls = IF outcome \in {"NotAttempted", "Rejected"}
                                   THEN @ ELSE @ + 1]
  BY <1>1, <1>3, <1>4 DEF Op
<1>6. /\ called \in Op /\ called.id = o.id /\ called.name = o.name /\ called.kind = o.kind
      /\ called.pc = o.pc /\ called.calls = n
  BY <1>1, <1>4, CallSet, Zenon
<1>7. \E new \in Op : new.id = o.id /\ new.name = o.name /\ OpInv(new) /\ Becomes(o, new)
  <2>1. CASE FallsBack(o, outcome)
    <3>1. n = 0
      BY <2>1, <1>3 DEF FallsBack
    <3>2. PICK new : new = [called EXCEPT !.route = "second"]
      BY Zenon
    <3>3. /\ new \in Op /\ new.id = o.id /\ new.name = o.name /\ new.kind = o.kind
          /\ new.pc = o.pc /\ new.calls = 0
      BY <3>1, <3>2, <1>6 DEF Op
    <3>4. OpInv(new)
      BY <3>3, <1>1 DEF OpInv
    <3>5. Becomes(o, new)
      BY <2>1, <1>2, <1>5, <3>2
    <3> QED BY <3>3, <3>4, <3>5
  <2>2. CASE ~ FallsBack(o, outcome)
    <3>1. PICK new : new = [called EXCEPT !.pc = "release"]
      BY Zenon
    <3>2. /\ new \in Op /\ new.id = o.id /\ new.name = o.name /\ new.kind = o.kind
          /\ new.pc = "release" /\ new.calls = n
      BY <3>1, <1>6 DEF Op
    <3>3. OpInv(new)
      BY <3>2, <1>1 DEF OpInv, Early
    <3>4. Becomes(o, new)
      BY <2>2, <1>2, <1>5, <3>1
    <3> QED BY <3>2, <3>3, <3>4
  <2> QED BY <2>1, <2>2
<1>8. /\ host' \in HostState /\ host'.machine = host.machine
      /\ signal' \in BOOLEAN /\ (signal => signal')
  BY <1>1, <1>2, AttemptKeeps
<1>9. o.pc # "release" /\ OnlyOps /\ invalidated' = invalidated
  BY <1>1 DEF RemoveImage
<1> QED BY <1>1, <1>7, <1>8, <1>9, OpStepKeeps

\* Taking the transition back leaves the list stale until the completion is
\* handled, which the operation that is about to release announces.
LEMMA DropTransitionKeeps ==
    ASSUME LifecycleInv, NEW o \in ops, DropTransition(o),
           UNCHANGED <<hostVars, viewVars, invalidated, catalog, inputs>>
    PROVE  LifecycleInv'
<1>1. /\ UNCHANGED <<vars, finished, host, signal, watcher, loop, channel, invalidated, catalog>>
      /\ o.pc = "drop"
  BY DEF DropTransition, hostVars, viewVars
<1>2. o \in Op /\ OpInv(o) /\ o.kind # "remove"
  BY <1>1 DEF LifecycleInv, LifecycleTypeOK, OpsInv, OpInv
<1>3. PICK new : new = [o EXCEPT !.pc = "release"]
  BY Zenon
<1>4. new \in Op /\ new.id = o.id /\ new.name = o.name /\ OpInv(new)
  BY <1>2, <1>3, PcSet, Zenon DEF Early
<1>5. new.pc = "release" /\ new.kind # "remove"
  BY <1>2, <1>3 DEF Op
<1>6. Becomes(o, new)
  BY <1>3 DEF DropTransition, Goto
<1>7. RegistryInv' /\ ops' \in SUBSET Op /\ OpsInv'
  BY <1>1, <1>4, <1>6, BecomesHolds DEF LifecycleInv, LifecycleTypeOK
<1>8. Unhandled'
  BY <1>5, <1>6 DEF Unhandled, Becomes
<1>9. ShownInv'
  BY <1>1, <1>8 DEF LifecycleInv, ShownInv
<1>10. ReadInv'
  BY <1>1, SameView DEF LifecycleInv
<1>11. transitions' \in [Machines -> Pending]
  BY Zenon DEF DropTransition, LifecycleInv, LifecycleTypeOK, Pending
<1>12. LifecycleTypeOK'
  BY <1>1, <1>7, <1>11 DEF LifecycleInv, LifecycleTypeOK
<1> QED BY <1>7, <1>9, <1>10, <1>12 DEF LifecycleInv

LEMMA DropReservationKeeps ==
    ASSUME LifecycleInv, NEW o \in ops, DropReservation(o),
           UNCHANGED <<hostVars, viewVars, invalidated, catalog, inputs>>
    PROVE  LifecycleInv'
<1>1. /\ UNCHANGED <<transitions, host, signal, watcher, loop, channel, invalidated, catalog>>
      /\ ops' = ops \ {o} /\ finished' = finished \cup {o.kind}
      /\ Release(CHOOSE g \in guards : g.id = o.id)
  BY DEF DropReservation, hostVars, viewVars
<1>2. RegistryInv' /\ ops' \in SUBSET Op /\ OpsInv'
  BY <1>1, DropHolds DEF LifecycleInv, LifecycleTypeOK
<1>3. Unhandled => Unhandled'
  <2>1. CASE o.kind # "remove"
    BY <2>1, <1>1 DEF Unhandled
  <2>2. CASE o.kind = "remove"
    BY <2>2, <1>1 DEF Unhandled
  <2> QED BY <2>1, <2>2
<1>4. ShownInv' /\ ReadInv'
  BY <1>1, <1>3, ShownFrame, SameView DEF LifecycleInv
<1>5. o.kind \in OpKinds
  BY DEF LifecycleInv, LifecycleTypeOK, Op
<1>6. LifecycleTypeOK'
  BY <1>1, <1>2, <1>5 DEF LifecycleInv, LifecycleTypeOK
<1> QED BY <1>2, <1>4, <1>6 DEF LifecycleInv

LEMMA OperationStepKeeps ==
    ASSUME LifecycleInv, NEW o \in ops, OperationStep(o)
    PROVE  LifecycleInv'
BY RefuseKeeps, PrepareKeeps, ControlKeeps, ConfirmStartKeeps, ListMachinesKeeps,
   RemoveImageKeeps, DropTransitionKeeps, DropReservationKeeps DEF OperationStep, Drop

-----------------------------------------------------------------------------
(* The watcher, the loop and the main loop.                                 *)

LEMMA WatcherKeeps ==
    ASSUME LifecycleInv, Forward \/ Subscribe \/ WatcherEnds
    PROVE  LifecycleInv'
<1>1. UNCHANGED <<vars, host, ops, transitions, finished, loop, channel, catalog>>
  BY DEF Forward, Subscribe, WatcherEnds, viewVars, hostVars
<1>2. RegistryInv' /\ ops' \in SUBSET Op /\ OpsInv'
  BY <1>1, HoldsFrame DEF LifecycleInv, LifecycleTypeOK
<1>3. Unhandled => Unhandled'
  BY <1>1 DEF Unhandled
<1>4. ShownInv'
  BY <1>1, <1>3, ShownFrame DEF LifecycleInv
<1>5. ReadInv'
  <2>1. \A s : SameMachines(s) => SameMachines(s)'
    BY <1>1 DEF SameMachines, View
  <2>2. CASE Forward
    BY <2>1, <2>2, <1>1 DEF Forward, viewVars, LifecycleInv, ReadInv
  <2>3. CASE Subscribe
    BY <2>1, <2>3, <1>1 DEF Subscribe, hostVars, LifecycleInv, ReadInv
  <2>4. CASE WatcherEnds
    BY <2>1, <2>4, <1>1 DEF WatcherEnds, LifecycleInv, ReadInv
  <2> QED BY <2>2, <2>3, <2>4
<1>6. LifecycleTypeOK'
  BY <1>1, <1>2, Zenon DEF Forward, Subscribe, WatcherEnds, viewVars, hostVars, LifecycleInv,
                    LifecycleTypeOK
<1> QED BY <1>2, <1>4, <1>5, <1>6 DEF LifecycleInv

\* What a step of the loop leaves alone.
LEMMA LoopFrame ==
    ASSUME LifecycleInv, LoopOnly, loop' \in Loop, channel' \in Updates,
           watcher' \in {"starting", "watching", "ended", "stopped"}, invalidated' \in BOOLEAN
    PROVE  /\ RegistryInv' /\ OpsInv' /\ LifecycleTypeOK' /\ (Unhandled => Unhandled')
           /\ \A s : SameMachines(s) => SameMachines(s)'
<1>1. UNCHANGED <<vars, host, signal, ops, transitions, finished, catalog>>
  BY DEF LoopOnly, hostVars
<1>2. RegistryInv' /\ ops' \in SUBSET Op /\ OpsInv'
  BY <1>1, HoldsFrame DEF LifecycleInv, LifecycleTypeOK
<1>3. LifecycleTypeOK'
  BY <1>1, <1>2 DEF LifecycleInv, LifecycleTypeOK
<1>4. Unhandled => Unhandled'
  BY <1>1 DEF Unhandled
<1>5. \A s : SameMachines(s) => SameMachines(s)'
  BY <1>1 DEF SameMachines, View
<1> QED BY <1>2, <1>3, <1>4, <1>5

LEMMA LoopTopKeeps ==
    ASSUME LifecycleInv, LoopTop
    PROVE  LifecycleInv'
<1>1. /\ loop \in Loop /\ channel \in Updates /\ invalidated \in BOOLEAN
      /\ watcher \in {"starting", "watching", "ended", "stopped"}
  BY DEF LifecycleInv, LifecycleTypeOK
<1>2. PICK p \in BOOLEAN : p = (loop.publish \/ invalidated)
  BY <1>1 DEF Loop
<1>3. loop' = [loop EXCEPT !.pc = "query", !.publish = p, !.watched = FALSE]
  BY <1>2 DEF LoopTop
<1>4. /\ loop'.pc = "query" /\ loop'.watched = FALSE /\ loop'.previous = loop.previous
      /\ loop' \in Loop
  BY <1>1, <1>3, Zenon DEF Loop
<1>5. invalidated' = FALSE /\ watcher' = watcher /\ channel' = channel /\ LoopOnly
  BY DEF LoopTop
<1>6. RegistryInv' /\ OpsInv' /\ LifecycleTypeOK' /\ (Unhandled => Unhandled')
  BY <1>1, <1>4, <1>5, LoopFrame, Zenon
<1>7. ShownInv'
  BY <1>4, <1>5, <1>6, ShownFrame DEF LifecycleInv, LoopOnly
<1>8. ReadInv'
  BY <1>4 DEF ReadInv
<1> QED BY <1>6, <1>7, <1>8 DEF LifecycleInv

LEMMA SnapshotType ==
    ASSUME host \in HostState, NEW dbus \in BOOLEAN
    PROVE  Snapshot(dbus) \in Snapshots /\ SameMachines(Snapshot(dbus))
<1>1. View \in [Machines -> Observed]
  BY DEF View, HostState, Observed
<1> HIDE DEF View
<1>2. Snapshot(dbus).machines = View
  BY DEF Snapshot
<1>3. SameMachines(Snapshot(dbus))
  BY <1>2 DEF SameMachines
<1>4. host.images \in SUBSET Images
  BY DEF HostState
<1> QED BY <1>1, <1>3, <1>4 DEF Snapshot, Snapshots

LEMMA LoopQueryKeeps ==
    ASSUME LifecycleInv, LoopQuery
    PROVE  LifecycleInv'
<1>1. /\ loop \in Loop /\ channel \in Updates /\ invalidated \in BOOLEAN
      /\ watcher \in {"starting", "watching", "ended", "stopped"} /\ host \in HostState
  BY DEF LifecycleInv, LifecycleTypeOK
<1>2. PICK result \in {Snapshot(TRUE), Snapshot(FALSE), [kind |-> "Failure"]} :
        loop' = [loop EXCEPT !.pc = "update", !.result = result,
                             !.watched = watcher = "watching"]
  BY Zenon DEF LoopQuery
<1>3. result \in Updates /\ (result.kind = "Snapshot" => SameMachines(result))
  <2>1. CASE result = [kind |-> "Failure"]
    BY <2>1 DEF Updates
  <2>2. CASE \E dbus \in BOOLEAN : result = Snapshot(dbus)
    <3>1. result \in Snapshots /\ SameMachines(result)
      BY <2>2, <1>1, SnapshotType
    <3> QED BY <3>1 DEF Updates
  <2> QED BY <2>1, <2>2, Zenon
<1>4. PICK w \in BOOLEAN : w = (watcher = "watching")
  BY Zenon
<1>5. /\ loop'.pc = "update" /\ loop'.watched = w /\ loop'.previous = loop.previous
      /\ loop'.result = result /\ loop' \in Loop
  BY <1>1, <1>2, <1>3, <1>4, Zenon DEF Loop
<1>6. UNCHANGED <<invalidated, watcher, channel>> /\ LoopOnly
  BY DEF LoopQuery
<1>7. /\ RegistryInv' /\ OpsInv' /\ LifecycleTypeOK' /\ (Unhandled => Unhandled')
      /\ \A s : SameMachines(s) => SameMachines(s)'
  BY <1>1, <1>5, <1>6, LoopFrame
<1>8. ShownInv'
  BY <1>5, <1>6, <1>7, ShownFrame DEF LifecycleInv, LoopOnly
<1>9. ReadInv'
  <2>1. result.kind = "Snapshot" => SameMachines(result)'
    BY <1>3, <1>7
  <2>2. loop'.result.kind = "Snapshot" => SameMachines(loop.result)'
    BY <2>1, <1>5 DEF SameMachines
  <2> QED BY <2>2, <1>4, <1>5, <1>6, Zenon DEF ReadInv
<1> QED BY <1>7, <1>8, <1>9 DEF LifecycleInv

\* Updates are told apart by their kind.
LEMMA Kinds ==
    ASSUME NEW u \in Updates
    PROVE  /\ u.kind \in {"Snapshot", "Failure", "none"}
           /\ u.kind = "Snapshot" <=> u \in Snapshots
           /\ u.kind = "none" <=> u = NoUpdate
BY DEF Updates, Snapshots, NoUpdate

\* RefreshState::update: a result is handed on unless it repeats the last one,
\* so the main loop has or will have whatever was seen last.
LEMMA LoopUpdateKeeps ==
    ASSUME LifecycleInv, LoopUpdate
    PROVE  LifecycleInv'
<1>1. /\ loop \in Loop /\ channel \in Updates /\ invalidated \in BOOLEAN
      /\ watcher \in {"starting", "watching", "ended", "stopped"}
      /\ loop.result \in Updates /\ loop.previous \in Snapshots \cup {NoUpdate}
      /\ loop.watched \in BOOLEAN /\ loop.pc = "update"
  BY DEF LifecycleInv, LifecycleTypeOK, Loop, LoopUpdate, Deliver
<1> DEFINE failed == loop.result.kind = "Failure"
           w == loop.watched /\ loop.result.kind = "Snapshot"
<1>2. PICK last : last = IF loop.result.kind = "Failure" THEN loop.previous ELSE loop.result
  OBVIOUS
<1>3. last \in Snapshots \cup {NoUpdate}
  BY <1>1, <1>2, Kinds
<1>4. failed \in BOOLEAN /\ w \in BOOLEAN
  BY <1>1
<1>5. loop' = [loop EXCEPT !.pc = "wait", !.result = NoUpdate, !.publish = FALSE,
                           !.failing = failed, !.watched = w, !.previous = last]
  BY <1>2 DEF LoopUpdate, Deliver
<1>6. w => loop.watched /\ loop.result.kind = "Snapshot"
  OBVIOUS
<1> HIDE DEF failed, w
<1>7. /\ loop'.pc = "wait" /\ loop'.previous = last /\ loop'.watched = w
      /\ loop'.result = NoUpdate /\ loop' \in Loop
  <2>1. /\ loop' = [pc |-> "wait", publish |-> FALSE, backend |-> loop.backend,
                    primary |-> loop.primary, result |-> NoUpdate, previous |-> last,
                    failing |-> failed, watched |-> w]
    BY <1>1, <1>5, Zenon DEF Loop
  <2>2. loop.backend \in BOOLEAN /\ loop.primary \in BOOLEAN /\ NoUpdate \in Updates
    BY <1>1 DEF Loop, Updates
  <2> HIDE DEF Updates, Snapshots, NoUpdate
  <2> QED BY <2>1, <2>2, <1>3, <1>4 DEF Loop
<1>8. \/ channel = NoUpdate /\ channel' = loop.result
      \/ channel' = channel /\ loop.result.kind # "Failure" /\ loop.previous = loop.result
  BY DEF LoopUpdate, Deliver, Publishes
<1>9. UNCHANGED <<invalidated, watcher>> /\ LoopOnly /\ channel' \in Updates
  BY <1>1, <1>8 DEF LoopUpdate, Deliver
<1>10. /\ RegistryInv' /\ OpsInv' /\ LifecycleTypeOK' /\ (Unhandled => Unhandled')
       /\ \A s : SameMachines(s) => SameMachines(s)'
  BY <1>1, <1>7, <1>9, LoopFrame
<1>11. ShownInv'
  <2>1. UNCHANGED <<catalog, transitions>> /\ ShownInv
    BY <1>9 DEF LoopOnly, LifecycleInv
  <2>2. channel'.kind = "Snapshot" => channel' = last
    BY <1>2, <1>8, <2>1 DEF ShownInv, NoUpdate
  <2>3. channel'.kind # "Snapshot" /\ last # NoUpdate =>
            catalog.observed = last.machines /\ catalog.images = last.images
    <3>1. CASE channel' = channel /\ loop.previous = loop.result
      BY <3>1, <2>1, <1>2 DEF ShownInv
    <3>2. CASE channel = NoUpdate /\ channel' = loop.result
      <4>1. channel.kind # "Snapshot"
        BY <3>2 DEF NoUpdate
      <4>2. CASE loop.result.kind = "Failure"
        BY <4>1, <4>2, <3>2, <2>1, <1>2 DEF ShownInv
      <4>3. CASE loop.result.kind # "Failure"
        BY <4>3, <3>2, <1>1, <1>2, Kinds
      <4> QED BY <4>2, <4>3
    <3> QED BY <3>1, <3>2, <1>8
  <2> QED BY <2>1, <2>2, <2>3, <1>7, <1>10 DEF ShownInv
<1>12. ReadInv'
  <2>1. ReadInv /\ signal' = signal
    BY <1>9 DEF LifecycleInv, LoopOnly, hostVars
  <2>2. ASSUME w, watcher = "watching", ~ invalidated, ~ signal
        PROVE  last \in Snapshots /\ SameMachines(last)'
    <3>1. loop.watched /\ loop.result.kind = "Snapshot" /\ last = loop.result
      BY <2>2, <1>2, <1>6
    <3>2. SameMachines(loop.result)
      BY <3>1, <2>1, <2>2, <1>1 DEF ReadInv
    <3>3. last \in Snapshots /\ SameMachines(last)
      BY <3>1, <3>2, <1>1, Kinds
    <3> QED BY <3>3, <1>10
  <2>3. SameMachines(last)' => SameMachines(loop.previous)'
    BY <1>7 DEF SameMachines
  <2>4. loop'.watched => watcher' # "starting"
    BY <2>1, <1>6, <1>7, <1>9 DEF ReadInv
  <2> QED BY <2>1, <2>2, <2>3, <2>4, <1>7, <1>9 DEF ReadInv
<1> QED BY <1>10, <1>11, <1>12 DEF LifecycleInv

LEMMA LoopWaitKeeps ==
    ASSUME LifecycleInv, LoopWait
    PROVE  LifecycleInv'
<1>1. /\ loop \in Loop /\ channel \in Updates /\ invalidated \in BOOLEAN
      /\ watcher \in {"starting", "watching", "ended", "stopped"}
      /\ loop.previous \in Snapshots \cup {NoUpdate}
  BY DEF LifecycleInv, LifecycleTypeOK, Loop
<1>2. /\ loop'.pc = "top" /\ loop'.previous = loop.previous /\ loop'.watched = loop.watched
      /\ loop' \in Loop
  <2>1. \A p, b \in BOOLEAN : \A l :
            l = [loop EXCEPT !.pc = "top", !.publish = p, !.backend = b] =>
               /\ l.pc = "top" /\ l.previous = loop.previous /\ l.watched = loop.watched
               /\ l \in Loop
    BY <1>1, Zenon DEF Loop
  <2>2. loop.backend \in BOOLEAN /\ [loop EXCEPT !.backend = loop.backend] = loop
    BY <1>1 DEF Loop
  <2>3. Heartbeat \in BOOLEAN
    BY DEF Heartbeat
  <2>4. \/ loop' = [loop EXCEPT !.pc = "top", !.publish = Heartbeat]
        \/ loop' = [loop EXCEPT !.pc = "top", !.publish = TRUE]
        \/ loop' = [loop EXCEPT !.pc = "top", !.publish = TRUE, !.backend = FALSE]
    BY DEF LoopWait
  <2>5. \A p \in BOOLEAN : [loop EXCEPT !.pc = "top", !.publish = p] =
            [loop EXCEPT !.pc = "top", !.publish = p, !.backend = loop.backend]
    BY <1>1, Zenon DEF Loop
  <2> HIDE DEF Heartbeat
  <2>6. \E p, b \in BOOLEAN : loop' = [loop EXCEPT !.pc = "top", !.publish = p, !.backend = b]
    BY <2>2, <2>3, <2>4, <2>5, Zenon
  <2> QED BY <2>1, <2>6, Zenon
<1>3. /\ invalidated' \in BOOLEAN /\ channel' = channel /\ LoopOnly
      /\ watcher' \in {"starting", "watching", "ended", "stopped"}
      /\ watcher' = watcher \/ watcher' = "stopped"
  BY <1>1, Zenon DEF LoopWait
<1>4. RegistryInv' /\ OpsInv' /\ LifecycleTypeOK' /\ (Unhandled => Unhandled')
  BY <1>1, <1>2, <1>3, LoopFrame
<1>5. ShownInv'
  BY <1>2, <1>3, <1>4, ShownFrame DEF LifecycleInv, LoopOnly
<1>6. ReadInv'
  BY <1>2, <1>3 DEF ReadInv, LifecycleInv
<1> QED BY <1>4, <1>5, <1>6 DEF LifecycleInv

LEMMA LoopStepKeeps ==
    ASSUME LifecycleInv, LoopStep
    PROVE  LifecycleInv'
BY LoopTopKeeps, LoopQueryKeeps, LoopUpdateKeeps, LoopWaitKeeps DEF LoopStep

\* sync_snapshot: the screen is made of the snapshot that was seen last, with
\* the transitions it did not confirm laid over it.
LEMMA ApplyUpdateKeeps ==
    ASSUME LifecycleInv, ApplyUpdate
    PROVE  LifecycleInv'
<1>1. /\ UNCHANGED <<vars, host, signal, ops, watcher, loop, finished, invalidated>>
      /\ channel' = NoUpdate
  BY DEF ApplyUpdate, MainOnly, hostVars
<1>2. RegistryInv' /\ ops' \in SUBSET Op /\ OpsInv'
  BY <1>1, HoldsFrame DEF LifecycleInv, LifecycleTypeOK
<1>3. ReadInv'
  BY <1>1, SameView DEF LifecycleInv
<1>4. Unhandled => Unhandled'
  BY <1>1 DEF Unhandled
<1>5. channel \in Updates /\ transitions \in [Machines -> Pending] /\ catalog \in Catalog
  BY DEF LifecycleInv, LifecycleTypeOK
<1>6. transitions' \in [Machines -> Pending] /\ catalog' \in Catalog /\ ShownInv'
  <2>1. CASE channel.kind = "Snapshot"
    <3>1. channel \in Snapshots /\ channel = loop.previous
      BY <2>1, <1>5, Kinds DEF LifecycleInv, ShownInv
    <3>2. channel.machines \in [Machines -> Observed] /\ channel.images \in SUBSET Images
      BY <3>1 DEF Snapshots
    <3>3. transitions' \in [Machines -> Pending]
      <4>1. \A kind \in Pending : \A state : Confirmed(kind, state) \in Pending
        BY DEF Confirmed, Pending
      <4> QED BY <4>1, <2>1, <1>5 DEF ApplyUpdate
    <3>4. catalog' = [observed |-> channel.machines,
                      shown |-> Project(channel.machines, transitions'),
                      images |-> channel.images]
      BY <2>1 DEF ApplyUpdate
    <3>5. Project(channel.machines, transitions') \in [Machines -> Observed \cup {"Exiting"}]
      BY <3>2, <3>3, ProjectType
    <3>6. /\ catalog' \in Catalog /\ catalog'.observed = channel.machines
          /\ catalog'.shown = Project(channel.machines, transitions')
          /\ catalog'.images = channel.images
      BY <3>2, <3>4, <3>5 DEF Catalog
    <3>7. ShownInv'
      BY <3>1, <3>6, <1>1 DEF ShownInv, NoUpdate
    <3> QED BY <3>3, <3>6, <3>7
  <2>2. CASE channel.kind # "Snapshot"
    <3>1. UNCHANGED <<transitions, catalog>>
      BY <2>2 DEF ApplyUpdate
    <3>2. ShownInv'
      BY <2>2, <3>1, <1>1, <1>4 DEF LifecycleInv, ShownInv, NoUpdate
    <3> QED BY <3>1, <3>2, <1>5
  <2> QED BY <2>1, <2>2
<1>7. LifecycleTypeOK'
  BY <1>1, <1>2, <1>6 DEF LifecycleInv, LifecycleTypeOK, Updates
<1> QED BY <1>2, <1>3, <1>6, <1>7 DEF LifecycleInv

LEMMA ExpireTransitionsKeeps ==
    ASSUME LifecycleInv, ExpireTransitions
    PROVE  LifecycleInv'
<1>1. UNCHANGED <<vars, host, signal, ops, watcher, loop, finished, invalidated, channel>>
  BY DEF ExpireTransitions, MainOnly, hostVars
<1>2. RegistryInv' /\ ops' \in SUBSET Op /\ OpsInv'
  BY <1>1, HoldsFrame DEF LifecycleInv, LifecycleTypeOK
<1>3. transitions' \in [Machines -> Pending]
  BY DEF ExpireTransitions, LifecycleInv, LifecycleTypeOK, Pending
<1>4. catalog' \in Catalog /\ ShownInv'
  BY <1>1, <1>3, ReprojectKeeps, Zenon DEF ExpireTransitions, LifecycleInv, LifecycleTypeOK
<1>5. ReadInv'
  BY <1>1, SameView DEF LifecycleInv
<1>6. LifecycleTypeOK'
  BY <1>1, <1>2, <1>3, <1>4 DEF LifecycleInv, LifecycleTypeOK
<1> QED BY <1>2, <1>4, <1>5, <1>6 DEF LifecycleInv

LEMMA HandleCompletionKeeps ==
    ASSUME LifecycleInv, NEW f \in finished, HandleCompletion(f)
    PROVE  LifecycleInv'
<1>1. /\ UNCHANGED <<vars, host, signal, ops, watcher, loop, transitions, channel>>
      /\ finished' = finished \ {f} /\ (invalidated' = TRUE \/ UNCHANGED invalidated)
  BY DEF HandleCompletion, MainOnly, hostVars
<1>2. RegistryInv' /\ ops' \in SUBSET Op /\ OpsInv'
  BY <1>1, HoldsFrame DEF LifecycleInv, LifecycleTypeOK
<1>3. ReadInv'
  BY <1>1, SameView DEF LifecycleInv
<1>4. catalog' \in Catalog /\ ShownInv'
  <2>1. CASE f = "remove"
    <3>1. Unhandled => Unhandled'
      BY <2>1, <1>1 DEF Unhandled
    <3> QED BY <2>1, <3>1, <1>1, ShownFrame
            DEF HandleCompletion, LifecycleInv, LifecycleTypeOK
  <2>2. CASE f # "remove"
    <3>1. Reproject(transitions)
      BY <2>2 DEF HandleCompletion
    <3> QED BY <3>1, <1>1, ReprojectKeeps DEF LifecycleInv, LifecycleTypeOK
  <2> QED BY <2>1, <2>2
<1>5. LifecycleTypeOK'
  BY <1>1, <1>2, <1>4, Zenon DEF LifecycleInv, LifecycleTypeOK
<1> QED BY <1>2, <1>3, <1>4, <1>5 DEF LifecycleInv

LEMMA LifecycleStutters ==
    ASSUME LifecycleInv, UNCHANGED <<vars, lifecycleVars>>
    PROVE  LifecycleInv'
<1>1. UNCHANGED <<vars, host, ops, transitions, finished, invalidated, signal, watcher, loop,
                  channel, catalog>>
  BY DEF lifecycleVars
<1>2. RegistryInv' /\ ops' \in SUBSET Op /\ OpsInv'
  BY <1>1, HoldsFrame DEF LifecycleInv, LifecycleTypeOK
<1>3. Unhandled => Unhandled'
  BY <1>1 DEF Unhandled
<1>4. ShownInv' /\ ReadInv'
  BY <1>1, <1>3, ShownFrame, SameView DEF LifecycleInv
<1>5. LifecycleTypeOK'
  BY <1>1, <1>2 DEF LifecycleInv, LifecycleTypeOK
<1> QED BY <1>2, <1>4, <1>5 DEF LifecycleInv

LEMMA LifecycleStarts == LifecycleInit => LifecycleInv
<1> SUFFICES ASSUME LifecycleInit PROVE LifecycleInv
  OBVIOUS
<1>1. RegistryInv
  BY Zenon DEF LifecycleInit, Init, RegistryInv, Types, IdsIssued, IdsUnique, ExclusiveAccess,
         HeldExactly
<1>2. OpsInv
  BY DEF LifecycleInit, OpsInv
<1>3. host \in HostState
  <2>1. Machines \in SUBSET Images
    BY MachineNames
  <2> QED BY <2>1 DEF LifecycleInit, HostState, Observed, Registered
<1>4. /\ watcher \in {"starting", "watching", "ended", "stopped"} /\ channel \in Updates
      /\ transitions \in [Machines -> Pending] /\ ops \in SUBSET Op
      /\ finished \in SUBSET OpKinds /\ invalidated \in BOOLEAN /\ signal \in BOOLEAN
  BY Zenon DEF LifecycleInit, Pending, Updates
<1>5. catalog \in Catalog
  BY DEF LifecycleInit, Catalog, Observed
<1>6. loop \in Loop
  <2>1. PICK b \in BOOLEAN : b = (watcher = "starting")
    BY Zenon
  <2>2. loop = [pc |-> "top", publish |-> TRUE, backend |-> b, primary |-> b,
                result |-> NoUpdate, previous |-> NoUpdate, failing |-> FALSE,
                watched |-> FALSE]
    BY <2>1 DEF LifecycleInit
  <2> QED BY <2>2 DEF Loop, Updates
<1>7. ReadInv
  BY DEF LifecycleInit, ReadInv
<1>8. ShownInv
  <2>1. catalog.shown = Project(catalog.observed, transitions)
    BY DEF LifecycleInit, Project
  <2> QED BY <2>1 DEF LifecycleInit, ShownInv, NoUpdate
<1> QED BY <1>1, <1>2, <1>3, <1>4, <1>5, <1>6, <1>7, <1>8 DEF LifecycleInv, LifecycleTypeOK

\* The lifecycle invariant holds whatever operations the user begins, whatever
\* the host and others do meanwhile, and however the watcher, the loop and the
\* main loop interleave with them.
THEOREM LifecycleInvariant == LifecycleSpec => []LifecycleInv
<1>1. LifecycleInv /\ [LifecycleNext]_<<vars, lifecycleVars>> => LifecycleInv'
  <2> SUFFICES ASSUME LifecycleInv, [LifecycleNext]_<<vars, lifecycleVars>> PROVE LifecycleInv'
    OBVIOUS
  <2>1. CASE \E m \in Machines : HostStep(m) \/ \E j \in {"start", "stop"} : Elsewhere(m, j)
    BY <2>1, HostStepKeeps, ElsewhereKeeps
  <2>2. CASE Ask
    BY <2>2, AskKeeps
  <2>3. CASE \E o \in ops : OperationStep(o)
    BY <2>3, OperationStepKeeps
  <2>4. CASE Forward \/ Subscribe \/ WatcherEnds
    BY <2>4, WatcherKeeps
  <2>5. CASE LoopStep
    BY <2>5, LoopStepKeeps
  <2>6. CASE MainStep
    BY <2>6, ApplyUpdateKeeps, ExpireTransitionsKeeps, HandleCompletionKeeps DEF MainStep
  <2>7. CASE UNCHANGED <<vars, lifecycleVars>>
    BY <2>7, LifecycleStutters
  <2> QED BY <2>1, <2>2, <2>3, <2>4, <2>5, <2>6, <2>7 DEF LifecycleNext
<1> QED BY <1>1, LifecycleStarts, PTL DEF LifecycleSpec

\* The host is asked at most once for an operation, and two operations on one
\* machine or its image are never alive together: each holds the only, exclusive
\* claim on the key of its name.
THEOREM OperationsControlOnce == LifecycleSpec => []ControlAtMostOnce
<1>1. LifecycleInv => ControlAtMostOnce
  <2> SUFFICES ASSUME LifecycleInv PROVE ControlAtMostOnce
    OBVIOUS
  <2>1. ASSUME NEW o1 \in ops, NEW o2 \in ops, o1.name = o2.name
        PROVE  o1 = o2
    <3>1. OpHolds(o1) /\ OpHolds(o2)
      BY DEF LifecycleInv, OpsInv
    <3>2. {[access |-> "Exclusive", owner |-> o1.id]} =
          {[access |-> "Exclusive", owner |-> o2.id]}
      BY <2>1, <3>1 DEF OpHolds
    <3>3. [access |-> "Exclusive", owner |-> o1.id] = [access |-> "Exclusive", owner |-> o2.id]
      BY <3>2
    <3>4. o1.id = o2.id
      BY <3>3
    <3> QED BY <3>4 DEF LifecycleInv, OpsInv
  <2>2. \A o \in ops : o.calls <= 1
    BY DEF LifecycleInv, OpsInv, OpInv
  <2> QED BY <2>1, <2>2 DEF ControlAtMostOnce
<1> QED BY <1>1, LifecycleInvariant, PTL

\* With nothing pending, what is shown is the host that was seen last; and a
\* loop that sleeps next to a subscribed watcher knows every registered machine.
THEOREM DisplayStaysTrue == LifecycleSpec => []DisplayIsTrue
<1>1. LifecycleInv => DisplayIsTrue
  <2> SUFFICES ASSUME LifecycleInv PROVE DisplayIsTrue
    OBVIOUS
  <2>1. ASSUME ops = {}, finished = {}, channel = NoUpdate,
               \A m \in Machines : transitions[m] = "none", loop.previous # NoUpdate,
               loop.previous.machines = View, loop.previous.images = host.images
        PROVE  catalog.shown = View /\ catalog.images = host.images
    <3>1. catalog.observed = View /\ catalog.images = host.images
      BY <2>1 DEF LifecycleInv, ShownInv, NoUpdate
    <3>2. catalog.shown = Project(catalog.observed, transitions)
      BY <2>1 DEF LifecycleInv, ShownInv, Unhandled
    <3>3. Project(View, transitions) = [m \in Machines |-> View[m]]
      BY <2>1 DEF Project
    <3>4. [m \in Machines |-> View[m]] = View
      BY DEF View
    <3> QED BY <3>1, <3>2, <3>3, <3>4
  <2>2. ASSUME loop.pc = "wait", loop.watched, watcher = "watching", ~ invalidated, ~ signal
        PROVE  \A m \in Machines : loop.previous.machines[m] = "absent" <=> View[m] = "absent"
    BY <2>2 DEF LifecycleInv, ReadInv, SameMachines
  <2> QED BY <2>1, <2>2 DEF DisplayIsTrue
<1> QED BY <1>1, LifecycleInvariant, PTL
==============================================================================
