-------------------------- MODULE OperationRegistry --------------------------
(***************************************************************************)
(* The in-process claim registry of application/operations/registry.rs.    *)
(* An operation reserves a set of resource keys, each for shared or        *)
(* exclusive access; it gets all of them or none, and a guard that gives    *)
(* everything back when it is dropped.  Both the client process and the     *)
(* elevated daemon own one registry.                                        *)
(***************************************************************************)
EXTENDS Naturals, FiniteSets

CONSTANTS
    Keys,          \* ResourceKey values: machines, non-machine images, systemd
    Images,        \* image names a removal can be announced for
    KeyOf,         \* ResourceKey::for_image
    NoImage,       \* a reservation that removes no image
    MaxReservations  \* bound on next_id, for model checking

\* ResourceKey::for_image maps a name either to the machine key of that name or
\* to the image key of that name, so two images never share a key.
ASSUME ImageKeys ==
    /\ KeyOf \in [Images -> Keys]
    /\ \A i, j \in Images : KeyOf[i] = KeyOf[j] => i = j
    /\ NoImage \notin Images
ASSUME ReservationBound == MaxReservations \in Nat

VARIABLES
    claims,          \* key -> its holders (RegistryState.claims)
    imageRemovals,   \* image -> owner id, 0 when absent (image_removals)
    nextId,          \* next_id
    guards           \* ResourceReservation values that have not been dropped

vars == <<claims, imageRemovals, nextId, guards>>

Access == {"Shared", "Exclusive"}
Claim == [key : Keys, access : Access]
Holder == [access : Access, owner : Nat]
Guard == [id : Nat, keys : SUBSET Keys, image : Images \cup {NoImage}]

-----------------------------------------------------------------------------
Conflicts_HeldOnly(want) ==
    \E k \in DOMAIN want : \E h \in claims[k] : h.access = "Exclusive"

\* Duplicate claims on one key are merged; exclusive access wins.
Canonicalize(request) ==
    [k \in {c.key : c \in request} |->
        IF [key |-> k, access |-> "Exclusive"] \in request
        THEN "Exclusive" ELSE "Shared"]

\* fetch_add on next_id: ids start at 1 and are never reused.
FreshId == nextId + 1

\* A claim conflicts when its key is held and either side is exclusive.
Conflicts(want) ==
    \E k \in DOMAIN want : \E h \in claims[k] :
        h.access = "Exclusive" \/ want[k] = "Exclusive"

\* reserve_inner: under the lock, either a conflict and nothing changes, or
\* every claim is pushed under one fresh id.
ReserveInner(want, image) ==
    /\ nextId < MaxReservations
    /\ ~ Conflicts(want)
    /\ nextId' = nextId + 1
    /\ claims' = [k \in Keys |->
                    IF k \in DOMAIN want
                    THEN claims[k] \cup {[access |-> want[k], owner |-> FreshId]}
                    ELSE claims[k]]
    /\ imageRemovals' = IF image = NoImage THEN imageRemovals
                        ELSE [imageRemovals EXCEPT ![image] = FreshId]
    /\ guards' = guards \cup
                    {[id |-> FreshId, keys |-> DOMAIN want, image |-> image]}

Reserve(request) == ReserveInner(Canonicalize(request), NoImage)

\* reserve_image_removal as ImageLifecycleService::begin_remove calls it: the
\* image is announced and its key claimed exclusively.
ReserveImageRemoval(image) ==
    ReserveInner(
        Canonicalize({[key |-> KeyOf[image], access |-> "Exclusive"]}), image)

WithoutOwner(id, keys) ==
    [k \in Keys |-> IF k \in keys
                    THEN {h \in claims[k] : h.owner # id} ELSE claims[k]]

ForgetRemovals(id) ==
    [i \in Images |-> IF imageRemovals[i] = id THEN 0 ELSE imageRemovals[i]]

\* Drop of a guard: release removes its holders from the keys it was granted
\* and every image removal it owns.
Release(g) ==
    /\ claims' = WithoutOwner(g.id, g.keys)
    /\ imageRemovals' = ForgetRemovals(g.id)
    /\ guards' = guards \ {g}
    /\ UNCHANGED nextId

Init ==
    /\ claims = [k \in Keys |-> {}]
    /\ imageRemovals = [i \in Images |-> 0]
    /\ nextId = 0
    /\ guards = {}

Next ==
    \/ \E request \in SUBSET Claim : Reserve(request)
    \/ \E image \in Images : ReserveImageRemoval(image)
    \/ \E g \in guards : Release(g)

Spec == Init /\ [][Next]_vars

-----------------------------------------------------------------------------
Types ==
    /\ claims \in [Keys -> SUBSET Holder]
    /\ imageRemovals \in [Images -> Nat]
    /\ nextId \in Nat
    /\ guards \in SUBSET Guard

IdsIssued ==
    /\ \A g \in guards : g.id \in 1..nextId
    /\ \A k \in Keys : \A h \in claims[k] : h.owner \in 1..nextId

\* Every value has its type, and no holder or guard has an id that was not
\* handed out yet (registry.rs: the id is taken from next_id under the lock).
TypeOK == Types /\ IdsIssued

\* Ids identify guards.
IdsUnique == \A g1, g2 \in guards : g1.id = g2.id => g1 = g2

\* No operation runs next to an exclusive one on the same resource, whatever
\* the order of reservations and drops (reserve_inner's conflict test).
ExclusiveAccess ==
    \A k \in Keys : \A h1, h2 \in claims[k] :
        h1.access = "Exclusive" => h1 = h2

\* The registry holds exactly what live guards hold: a reservation got all of
\* its keys, a refused one left nothing, and a dropped one leaked nothing
\* (reserve_inner and release, which look at different key lists).
HeldExactly ==
    \A k \in Keys :
        /\ \A h \in claims[k] : \E g \in guards : g.id = h.owner /\ k \in g.keys
        /\ \A g \in guards : k \in g.keys =>
                \E h \in claims[k] : h.owner = g.id

\* active_image_names shows an image as being removed exactly while the guard
\* of its removal is alive, and that guard has the image to itself.
RemovalProjection ==
    /\ \A i \in Images : imageRemovals[i] # 0 =>
            /\ \E g \in guards : g.id = imageRemovals[i] /\ g.image = i
            /\ claims[KeyOf[i]] =
                    {[access |-> "Exclusive", owner |-> imageRemovals[i]]}
    /\ \A g \in guards : g.image # NoImage => imageRemovals[g.image] = g.id
==============================================================================
