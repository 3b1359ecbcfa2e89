---------------------------- MODULE SettingsProofs ----------------------------
(***************************************************************************)
(* Proofs about the settings files: the processes that write them under    *)
(* their locks (LockedWriter), for any number of processes, and the view   *)
(* that previews and applies edits (ConfigurationView), for any targets,   *)
(* items and channel capacity.                                             *)
(***************************************************************************)
EXTENDS LockedWriter, ConfigurationView, FiniteSetTheorems, TLAPS

-----------------------------------------------------------------------------
(* LockedWriter.                                                           *)

\* A process that is past the settings lock of a .nspawn file and may change
\* the file.
Inside(p) == kind = "nspawn" /\ at[p] \notin {"idle", "settings"} /\ op[p] # "cleanup"

\* NoLostUpdate is not inductive: that nobody else changes the file before the
\* rename rests on the settings lock, which every .nspawn operation but the
\* cleanup holds from its first step on.  The cleanup is harmless because it
\* never gets to a step that writes.
LockInv ==
    /\ LockTypeOK
    /\ \A p \in Processes :
          /\ op[p] \in Operations(kind)
          /\ Inside(p) => settings = {p}
          /\ at[p] \in {"read", "persist"} => Creates(op[p])
          /\ kind = "nspawn" => at[p] # "probe"
          /\ at[p] = "inspect" => op[p] = "edit"
          /\ kind = "nspawn" /\ at[p] = "unlink" => op[p] = "remove"
          /\ kind = "nspawn" /\ at[p] = "persist" => file = found[p]
          /\ at[p] \notin {"check", "restat", "unlinkLock", "read", "persist"} => ~ holds[p]
          /\ at[p] \in {"check", "restat", "read", "persist"} => holds[p]
    /\ \A p, q \in Processes : holds[p] /\ holds[q] /\ inode[p] = inode[q] => p = q

LEMMA LockInitially == LockInit => LockInv
<1> SUFFICES ASSUME LockInit PROVE LockInv
  OBVIOUS
<1>1. LockTypeOK
  BY DEF LockInit, LockTypeOK, Steps, Contents, AllOperations, Absent, Foreign, Created
<1>2. \A p \in Processes : op[p] \in Operations(kind)
  BY DEF LockInit, Operations
<1> QED
  BY <1>1, <1>2 DEF LockInit, LockInv, Inside

\* A process that returns, fails or is killed disturbs nobody else.
LEMMA LeavePreserves ==
    ASSUME LockInv, NEW p \in Processes, Leave(p), UNCHANGED kind,
           sidecar' \in Inodes \cup {NoInode}, file' \in Contents,
           file' = file \/ \A q \in Processes : Inside(q) => q = p
    PROVE  LockInv'
<1>1. LockTypeOK'
  BY DEF LockInv, LockTypeOK, Leave, Steps, Contents, AllOperations, Absent
<1>2. \A q \in Processes : op'[q] \in Operations(kind)'
  BY DEF LockInv, LockTypeOK, Leave, Operations
<1>3. ASSUME NEW q \in Processes, q # p
      PROVE  /\ at'[q] = at[q] /\ op'[q] = op[q] /\ found'[q] = found[q]
             /\ holds'[q] = holds[q] /\ inode'[q] = inode[q]
  BY <1>3 DEF Leave, LockInv, LockTypeOK
<1>4. at'[p] = "idle" /\ ~ holds'[p] /\ settings' = settings \ {p}
  BY DEF Leave, LockInv, LockTypeOK
<1> QED
  BY <1>1, <1>2, <1>3, <1>4 DEF LockInv, Inside, Creates

\* The others keep what they had, and p goes on inside its critical section.
LEMMA MovePreserves ==
    ASSUME LockInv, NEW p \in Processes, NEW step \in Steps, GoTo(p, step),
           UNCHANGED <<kind, settings, op>>, LockTypeOK',
           \A q \in Processes \ {p} :
              inode'[q] = inode[q] /\ holds'[q] = holds[q] /\ found'[q] = found[q],
           kind = "nspawn" /\ step # "settings" /\ op[p] # "cleanup" => settings = {p},
           file' = file \/ \A q \in Processes : Inside(q) => q = p,
           step \in {"read", "persist"} => Creates(op[p]),
           kind = "nspawn" => step # "probe",
           step = "inspect" => op[p] = "edit",
           kind = "nspawn" /\ step = "unlink" => op[p] = "remove",
           step = "persist" => file' = found'[p],
           step \notin {"check", "restat", "unlinkLock", "read", "persist"} => ~ holds'[p],
           step \in {"check", "restat", "read", "persist"} => holds'[p],
           holds'[p] => \A q \in Processes \ {p} : ~ (holds[q] /\ inode[q] = inode'[p])
    PROVE  LockInv'
<1>1. \A q \in Processes \ {p} : at'[q] = at[q]
  BY DEF GoTo, LockInv, LockTypeOK
<1>2. at'[p] = step
  BY DEF GoTo, LockInv, LockTypeOK
<1> QED
  BY <1>1, <1>2 DEF LockInv, Inside, Operations, Creates

\* Where an operation starts, once it holds what it needs.
LEMMA EntryFacts ==
    ASSUME kind \in {"nspawn", "override"}, NEW o \in Operations(kind)
    PROVE  /\ Entry(o) \in {"open", "probe", "inspect", "unlink", "stat"}
           /\ Entry(o) = "inspect" => o = "edit"
           /\ kind = "nspawn" => Entry(o) # "probe"
           /\ kind = "nspawn" /\ Entry(o) = "unlink" => o = "remove"
BY DEF Entry, Operations

LEMMA BeginPreserves ==
    ASSUME LockInv, NEW p \in Processes, NEW o \in AllOperations, Begin(p, o)
    PROVE  LockInv'
<1> DEFINE step == IF NeedsSettings(o) THEN "settings" ELSE Entry(o)
<1>1. kind \in {"nspawn", "override"} /\ o \in Operations(kind) /\ at[p] = "idle"
  BY ProcessesAssumption DEF LockInv, LockTypeOK, Begin
<1>2. /\ step \in {"settings", "open", "probe", "inspect", "unlink", "stat"}
      /\ step = "inspect" => o = "edit"
      /\ kind = "nspawn" => step # "probe"
      /\ kind = "nspawn" /\ step = "unlink" => o = "remove"
      /\ kind = "nspawn" /\ o # "cleanup" => step = "settings"
  BY <1>1, EntryFacts DEF NeedsSettings
<1>3. /\ at' = [at EXCEPT ![p] = step] /\ op' = [op EXCEPT ![p] = o]
      /\ UNCHANGED <<kind, file, sidecar, settings, inode, holds, seen, found>>
  BY DEF Begin, GoTo
<1>4. step \in Steps
  BY <1>2 DEF Steps
<1> HIDE DEF step
<1>5. LockTypeOK'
  BY <1>3, <1>4 DEF LockInv, LockTypeOK
<1>6. \A q \in Processes \ {p} : at'[q] = at[q] /\ op'[q] = op[q]
  BY <1>3 DEF LockInv, LockTypeOK
<1>7. at'[p] = step /\ op'[p] = o
  BY <1>3 DEF LockInv, LockTypeOK
<1>8. \A q \in Processes : op'[q] \in Operations(kind)'
  BY <1>1, <1>3, <1>6, <1>7 DEF LockInv, Operations
<1> QED
  BY <1>1, <1>2, <1>3, <1>5, <1>6, <1>7, <1>8 DEF LockInv, Inside, Creates

LEMMA TakeSettingsPreserves ==
    ASSUME LockInv, NEW p \in Processes, TakeSettings(p)
    PROVE  LockInv'
<1> DEFINE step == Entry(op[p])
<1>1. kind \in {"nspawn", "override"} /\ op[p] \in Operations(kind)
  BY ProcessesAssumption DEF LockInv, LockTypeOK
<1>2. /\ step \in {"open", "probe", "inspect", "unlink", "stat"}
      /\ step = "inspect" => op[p] = "edit"
      /\ kind = "nspawn" => step # "probe"
      /\ kind = "nspawn" /\ step = "unlink" => op[p] = "remove"
  BY <1>1, EntryFacts
<1>3. /\ at' = [at EXCEPT ![p] = step] /\ settings = {} /\ settings' = {p}
      /\ at[p] = "settings"
      /\ UNCHANGED <<kind, file, sidecar, op, inode, holds, seen, found>>
  BY DEF TakeSettings, GoTo
<1>4. step \in Steps
  BY <1>2 DEF Steps
<1> HIDE DEF step
<1>5. LockTypeOK'
  BY <1>3, <1>4 DEF LockInv, LockTypeOK
<1>6. \A q \in Processes \ {p} : at'[q] = at[q]
  BY <1>3 DEF LockInv, LockTypeOK
<1>7. at'[p] = step
  BY <1>3 DEF LockInv, LockTypeOK
<1>8. \A q \in Processes : ~ Inside(q)
  BY <1>3 DEF LockInv
<1> QED
  BY <1>2, <1>3, <1>5, <1>6, <1>7, <1>8 DEF LockInv, Inside, Operations, Creates

\* The steps before the lock only look.
LEMMA LookPreserves ==
    ASSUME LockInv, NEW p \in Processes, Probe(p) \/ Inspect(p) \/ Stat(p)
    PROVE  LockInv'
<1>1. CASE Leave(p) /\ UNCHANGED <<kind, file, sidecar>>
  BY <1>1, LeavePreserves DEF LockInv, LockTypeOK
<1>2. CASE \E step \in {"unlink", "open"} :
             /\ GoTo(p, step)
             /\ step = "unlink" => at[p] = "probe"
             /\ seen' = seen \/ seen' = [seen EXCEPT ![p] = file]
             /\ UNCHANGED <<kind, file, sidecar, settings, op, inode, holds, found>>
             /\ at[p] \in {"probe", "inspect", "stat"}
  <2>1. PICK step \in {"unlink", "open"} :
             /\ GoTo(p, step)
             /\ step = "unlink" => at[p] = "probe"
             /\ seen' = seen \/ seen' = [seen EXCEPT ![p] = file]
             /\ UNCHANGED <<kind, file, sidecar, settings, op, inode, holds, found>>
             /\ at[p] \in {"probe", "inspect", "stat"}
    BY <1>2
  <2>2. LockTypeOK'
    BY <2>1 DEF LockInv, LockTypeOK, GoTo, Steps
  <2> QED
    BY <2>1, <2>2, MovePreserves DEF LockInv, Inside, Steps
<1> QED
  BY <1>1, <1>2 DEF Probe, Inspect, Stat

LEMMA UnlinkPreserves ==
    ASSUME LockInv, NEW p \in Processes, Unlink(p)
    PROVE  LockInv'
<1>1. LockTypeOK'
  BY DEF LockInv, LockTypeOK, Unlink, GoTo, Steps, Contents, Absent
<1>2. \A q \in Processes : Inside(q) => q = p
  BY DEF LockInv, Inside, Unlink
<1> QED
  BY <1>1, <1>2, MovePreserves DEF LockInv, Inside, Unlink, Steps

LEMMA UnlinkLockPreserves ==
    ASSUME LockInv, NEW p \in Processes, UnlinkLock(p)
    PROVE  LockInv'
BY LeavePreserves DEF UnlinkLock, LockInv, LockTypeOK
\* There are more inodes than processes, so one is free whenever the sidecar
\* path names none.
LEMMA FreshInodeExists ==
    ASSUME LockTypeOK, sidecar = NoInode
    PROVE  FreshInode \in Inodes /\ \A q \in Processes : inode[q] # FreshInode
<1> DEFINE Free(i) == i # sidecar /\ \A q \in Processes : inode[q] # i
<1>1. IsFiniteSet(Processes) /\ Cardinality(Processes) \in Nat
  BY ProcessesAssumption, FS_CardinalityType
<1>2. Cardinality(Inodes) = Cardinality(Processes) + 1
  BY <1>1, FS_Interval DEF Inodes
<1>3. \E i \in Inodes : Free(i)
  <2> SUFFICES ASSUME \A i \in Inodes : ~ Free(i) PROVE FALSE
    OBVIOUS
  <2> DEFINE T == {q \in Processes : inode[q] \in Inodes}
             g == [q \in T |-> inode[q]]
  <2>1. \A i \in Inodes : \E q \in T : g[q] = i
    BY DEF Inodes, NoInode
  <2>2. g \in Surjection(T, Inodes)
    BY <2>1 DEF Surjection
  <2>3. IsFiniteSet(T) /\ Cardinality(T) <= Cardinality(Processes)
    BY <1>1, FS_Subset
  <2>4. Cardinality(Inodes) <= Cardinality(T) /\ Cardinality(T) \in Nat
    BY <2>2, <2>3, FS_Surjection, FS_CardinalityType
  <2> QED
    BY <1>1, <1>2, <2>3, <2>4
<1> QED
  BY <1>3 DEF FreshInode

LEMMA OpenPreserves ==
    ASSUME LockInv, NEW p \in Processes, Open(p)
    PROVE  LockInv'
<1>1. CASE Leave(p) /\ UNCHANGED <<kind, file, sidecar>>
  BY <1>1, LeavePreserves DEF LockInv, LockTypeOK
<1>2. CASE /\ sidecar' = IF sidecar = NoInode THEN FreshInode ELSE sidecar
           /\ inode' = [inode EXCEPT ![p] = sidecar']
           /\ GoTo(p, "lock")
           /\ UNCHANGED <<kind, file, settings, op, holds, seen, found>>
           /\ at[p] = "open"
  <2>1. sidecar' \in Inodes
    BY <1>2, FreshInodeExists DEF LockInv, LockTypeOK
  <2>2. LockTypeOK'
    BY <1>2, <2>1 DEF LockInv, LockTypeOK, GoTo, Steps
  <2> QED
    BY <1>2, <2>2, MovePreserves, Zenon DEF LockInv, LockTypeOK, Inside, Steps
<1> QED
  BY <1>1, <1>2 DEF Open

LEMMA TryLockPreserves ==
    ASSUME LockInv, NEW p \in Processes, TryLock(p)
    PROVE  LockInv'
<1>1. LockTypeOK'
  BY DEF LockInv, LockTypeOK, TryLock, GoTo, Steps
<1>2. holds'[p] /\ \A q \in Processes \ {p} : inode'[q] = inode[q] /\ holds'[q] = holds[q]
  BY DEF LockInv, LockTypeOK, TryLock
<1> QED
  BY <1>1, <1>2, MovePreserves, Zenon DEF LockInv, TryLock, Inside, Steps

LEMMA CheckInodePreserves ==
    ASSUME LockInv, NEW p \in Processes, CheckInode(p)
    PROVE  LockInv'
<1>1. CASE InodeIsCurrent(p)
  <2> DEFINE step == IF Creates(op[p]) THEN "read" ELSE "restat"
  <2>1. /\ GoTo(p, step) /\ step \in Steps /\ at[p] = "check"
        /\ UNCHANGED <<kind, file, sidecar, settings, op, inode, holds, seen, found>>
    BY <1>1 DEF CheckInode, Steps
  <2>2. LockTypeOK'
    BY <2>1 DEF LockInv, LockTypeOK, GoTo
  <2> QED
    BY <2>1, <2>2, MovePreserves DEF LockInv, Inside
<1>2. CASE ~ InodeIsCurrent(p)
  <2>1. /\ GoTo(p, "open") /\ at[p] = "check"
        /\ inode' = [inode EXCEPT ![p] = NoInode] /\ holds' = [holds EXCEPT ![p] = FALSE]
        /\ UNCHANGED <<kind, file, sidecar, settings, op, seen, found>>
    BY <1>2 DEF CheckInode
  <2>2. LockTypeOK'
    BY <2>1 DEF LockInv, LockTypeOK, GoTo, Steps
  <2>3. ~ holds'[p] /\ \A q \in Processes \ {p} : inode'[q] = inode[q] /\ holds'[q] = holds[q]
    BY <2>1 DEF LockInv, LockTypeOK
  <2> QED
    BY <2>1, <2>2, <2>3, MovePreserves, Zenon DEF LockInv, Inside, Steps
<1> QED
  BY <1>1, <1>2

LEMMA RestatPreserves ==
    ASSUME LockInv, NEW p \in Processes, Restat(p)
    PROVE  LockInv'
<1>1. CASE Leave(p) /\ UNCHANGED <<kind, file, sidecar>>
  BY <1>1, LeavePreserves DEF LockInv, LockTypeOK
<1>2. CASE /\ GoTo(p, "unlinkLock") /\ at[p] = "restat"
           /\ UNCHANGED <<kind, file, sidecar, settings, op, inode, holds, seen, found>>
  <2>1. LockTypeOK'
    BY <1>2 DEF LockInv, LockTypeOK, GoTo, Steps
  <2> QED
    BY <1>2, <2>1, MovePreserves DEF LockInv, Inside, Steps
<1> QED
  BY <1>1, <1>2 DEF Restat

\* The generators make contents of contents.
LEMMA GeneratedType ==
    ASSUME LockTypeOK, NEW p \in Processes, Creates(op[p]), NEW c \in Contents
    PROVE  Generated(p, c) \in Contents
<1>1. {"lasper"} \in Contents /\ {"lasper", "gpu"} \in Contents
      /\ c \cup {"gpu"} \in Contents /\ c \cup {"display"} \in Contents
      /\ c \ {"display"} \in Contents
  BY DEF Contents
<1>2. NewContent(op[p]) \in Contents
  BY <1>1 DEF NewContent, Cloned, Created
<1> QED
  BY <1>1, <1>2 DEF Generated, Creates

LEMMA ReadExistingPreserves ==
    ASSUME LockInv, NEW p \in Processes, ReadExisting(p)
    PROVE  LockInv'
<1>1. CASE Leave(p) /\ UNCHANGED <<kind, file, sidecar>>
  BY <1>1, LeavePreserves DEF LockInv, LockTypeOK
<1>2. CASE /\ GoTo(p, "persist") /\ at[p] = "read"
           /\ found' = [found EXCEPT ![p] = file]
           /\ UNCHANGED <<kind, file, sidecar, settings, op, inode, holds, seen>>
  <2>1. LockTypeOK' /\ found'[p] = file
    BY <1>2 DEF LockInv, LockTypeOK, GoTo, Steps
  <2> QED
    BY <1>2, <2>1, MovePreserves, Zenon DEF LockInv, LockTypeOK, Inside, Steps
<1> QED
  BY <1>1, <1>2 DEF ReadExisting

LEMMA PersistPreserves ==
    ASSUME LockInv, NEW p \in Processes, Persist(p)
    PROVE  LockInv'
<1>1. Creates(op[p]) /\ at[p] = "persist" /\ Leave(p) /\ UNCHANGED <<kind, sidecar>>
  BY Zenon DEF Persist, LockInv
<1>2. file' \in Contents
  BY <1>1, GeneratedType DEF Persist, LockInv, LockTypeOK
<1>3. kind = "nspawn" => \A q \in Processes : Inside(q) => q = p
  BY <1>1 DEF LockInv, Inside, Creates
<1>4. kind # "nspawn" => \A q \in Processes : ~ Inside(q)
  BY DEF Inside
<1> QED
  BY <1>1, <1>2, <1>3, <1>4, LeavePreserves, Zenon DEF LockInv, LockTypeOK

LEMMA StepPreserves ==
    ASSUME LockInv, NEW p \in Processes, Step(p)
    PROVE  LockInv'
<1>1. CASE TimesOut(p) \/ Dies(p)
  BY <1>1, LeavePreserves DEF TimesOut, Dies, LockInv, LockTypeOK
<1> QED
  BY <1>1, TakeSettingsPreserves, LookPreserves, UnlinkPreserves, UnlinkLockPreserves,
     OpenPreserves, TryLockPreserves, CheckInodePreserves, RestatPreserves,
     ReadExistingPreserves, PersistPreserves DEF Step

\* LockInv holds of every history of any number of processes that write,
\* update, edit, remove and clean up one settings file, die and time out.
THEOREM LockInvariant == LockSpec => []LockInv
<1>1. LockInv /\ [LockNext]_lockVars => LockInv'
  <2> SUFFICES ASSUME LockInv, [LockNext]_lockVars PROVE LockInv'
    OBVIOUS
  <2>1. CASE LockNext
    BY <2>1, BeginPreserves, StepPreserves DEF LockNext
  <2>2. CASE UNCHANGED lockVars
    BY <2>2 DEF lockVars, LockInv, LockTypeOK, Inside, Operations, Creates
  <2> QED
    BY <2>1, <2>2
<1> QED
  BY <1>1, LockInitially, PTL DEF LockSpec

\* No .nspawn writer replaces content it has not read, whatever the number of
\* processes and wherever they die (apply_locked_inner).
THEOREM UpdatesAreNotLost == LockSpec => []NoLostUpdate
<1>1. LockInv => NoLostUpdate
  BY DEF LockInv, NoLostUpdate
<1> QED
  BY <1>1, LockInvariant, PTL

\* What the sidecar lock itself gives, for both kinds of file: two processes
\* past the check of their inode hold different inodes, so they share the
\* critical section only when the path was unlinked in between.
SplitMeansReplaced ==
    \A p, q \in Processes :
        at[p] \in {"read", "persist"} /\ at[q] \in {"read", "persist"} /\ p # q
          => inode[p] # inode[q]

\* SplitMeansReplaced holds: locking an inode excludes everybody who opened
\* the same one (acquire_stable_lock).
THEOREM SplitLocksDiffer == LockSpec => []SplitMeansReplaced
<1>1. LockInv => SplitMeansReplaced
  BY DEF LockInv, SplitMeansReplaced
<1> QED
  BY <1>1, LockInvariant, PTL

-----------------------------------------------------------------------------
(* ConfigurationView.                                                      *)

Previewed == {"ready", "conflict", "blocked", "failed"}
Views ==
    [target : Configurable, query : Nat, state : {"loading", "ready", "failed"},
     snapshot : Nat, draft : SUBSET Items, generation : Nat,
     shown : {"clean", "loading"} \cup Previewed, after : SUBSET Items,
     discard : {"none", "close", "refresh"}, restart : BOOLEAN, saving : BOOLEAN,
     stale : BOOLEAN]
Inspections == [query : Nat, target : Configurable]
Previews == [generation : Nat, target : Configurable, base : Nat, draft : SUBSET Items]
Applies ==
    [generation : Nat, target : Configurable, base : Nat, draft : SUBSET Items,
     reviewed : SUBSET Items, stage : {"queued", "locked", "renaming"}, new : SUBSET Items,
     heard : BOOLEAN]
Inspected ==
    [kind : {"inspected"}, query : Nat, target : Configurable,
     result : {"ready", "incomplete", "failed"}, rev : Nat]
PreviewedEvents ==
    [kind : {"previewed"}, generation : Nat, target : Configurable, result : Previewed,
     after : SUBSET Items]
Applied ==
    [kind : {"applied"}, generation : Nat, target : Configurable,
     result : {"refused", "applied", "failed", "unknown"}]
Events == Inspected \cup PreviewedEvents \cup Applied

ViewTypeOK ==
    /\ disk \in [Configurable -> [content : SUBSET Items, rev : Nat]]
    /\ OpenView => view \in Views
    /\ queries \in Nat
    /\ inspection \subseteq Inspections
    /\ preview \subseteq Previews
    /\ applies \subseteq Applies
    /\ inbox \in Seq(Events)

\* after is what the draft makes of the revision base, while the file has it.
Matches(t, base, draft, after) ==
    disk[t].rev = base => after = Toggled(disk[t].content, draft)

Settled == OpenView /\ view.state # "loading"
Awaited(m) == m.kind = "inspected" /\ m.query = queries

\* The executions: each one is for a revision the file has or had, and what
\* was reviewed is what its draft makes of that revision.
AppliesInv ==
    /\ \A e \in applies :
          /\ e.base <= disk[e.target].rev
          /\ Matches(e.target, e.base, e.draft, e.reviewed)
          /\ e.stage = "renaming" => e.new = e.reviewed
    /\ \A d, e \in applies :
          d.stage # "queued" /\ e.stage # "queued" /\ d.target = e.target => d = e

\* What the view shows, and what its preview task works on.
ShownInv ==
    /\ OpenView =>
          /\ view.query = queries
          /\ view.snapshot <= disk[view.target].rev
          /\ view.shown = "ready" =>
                view.draft # {} /\ Matches(view.target, view.snapshot, view.draft, view.after)
          /\ view.state = "loading" => view.draft = {}
    /\ \A r \in preview :
          /\ Settled
          /\ r.target = view.target /\ r.generation = view.generation
          /\ r.base = view.snapshot
          /\ view.draft # {} => r.draft = view.draft

\* Inspections: their answers arrive once, and a view that has its answer
\* waits for no other.
QueriesInv ==
    /\ \A r \in inspection : r.query <= queries
    /\ \A i \in 1..Len(inbox) :
          inbox[i].kind = "inspected" =>
             inbox[i].query <= queries /\ inbox[i].rev <= disk[inbox[i].target].rev
    /\ \A r \in inspection :
          r.query = queries => ~ Settled /\ \A i \in 1..Len(inbox) : ~ Awaited(inbox[i])
    /\ \A i \in 1..Len(inbox) : Awaited(inbox[i]) => ~ Settled
    /\ \A i, j \in 1..Len(inbox) : Awaited(inbox[i]) /\ Awaited(inbox[j]) => i = j

\* Generations restart with every view, so a preview of an earlier view on the
\* same target may carry a generation the new view will reach.  It is harmless
\* because events arrive in order: it is ahead of the answer that lets the new
\* view take edits.
OrderInv ==
    \A i, j \in 1..Len(inbox) :
        OpenView /\ i < j /\ Awaited(inbox[i]) => inbox[j].kind # "previewed"

PreviewsInv ==
    \A i \in 1..Len(inbox) :
        Settled /\ inbox[i].kind = "previewed" =>
           /\ inbox[i].generation <= view.generation
           /\ /\ inbox[i].generation = view.generation /\ inbox[i].target = view.target
              /\ inbox[i].result = "ready" /\ view.draft # {}
              => Matches(view.target, view.snapshot, view.draft, inbox[i].after)

ViewInv == ViewTypeOK /\ AppliesInv /\ ShownInv /\ QueriesInv /\ OrderInv /\ PreviewsInv

\* What is used of the order of revisions, queries and generations.
LEMMA Reflexive == \A a \in Nat : a <= a
OBVIOUS
LEMMA NextOne == \A a, b \in Nat : a <= b => a <= b + 1 /\ a # b + 1
OBVIOUS
LEMMA Weaker == \A a, b \in Nat : a < b => a <= b
OBVIOUS
LEMMA Chain ==
    ASSUME NEW a \in Nat, NEW b \in Nat, NEW c \in Nat, a <= b, b <= c
    PROVE  a <= c
OBVIOUS
LEMMA StrictChain ==
    ASSUME NEW a \in Nat, NEW b \in Nat, NEW c \in Nat, a <= b, b < c
    PROVE  a <= c /\ a # c
OBVIOUS

LEMMA OneMore ==
    ASSUME NEW n \in Nat
    PROVE  n <= n + 1 /\ \A i \in 1..(n + 1) : i \in 1..n \/ i = n + 1
OBVIOUS

LEMMA BeginQueryType ==
    ASSUME NEW v \in Views, queries \in Nat
    PROVE  /\ BeginQuery(v) \in Views
           /\ BeginQuery(v).target = v.target /\ BeginQuery(v).query = queries + 1
           /\ BeginQuery(v).state = "loading" /\ BeginQuery(v).snapshot = 0
           /\ BeginQuery(v).draft = {} /\ BeginQuery(v).shown = "clean"
<1> DEFINE q == [v EXCEPT !.query = queries + 1]
           a == [q EXCEPT !.state = "loading"]
           b == [a EXCEPT !.snapshot = NoRevision, !.draft = {}]
           c == [b EXCEPT !.shown = "clean", !.after = {}]
           d == [c EXCEPT !.discard = "none", !.restart = FALSE]
           e == [d EXCEPT !.stale = FALSE]
<1>1. BeginQuery(v) = e
  BY DEF BeginQuery
<1>2. q \in Views
  BY DEF Views
<1> HIDE DEF q
<1>3. a \in Views
  BY <1>2 DEF Views
<1> HIDE DEF a
<1>4. b \in Views
  BY <1>3, Zenon DEF Views, NoRevision
<1> HIDE DEF b
<1>5. c \in Views
  BY <1>4, Zenon DEF Views, Previewed
<1> HIDE DEF c
<1>6. d \in Views
  BY <1>5, Zenon DEF Views
<1> HIDE DEF d
<1>7. e \in Views
  BY <1>6, Zenon DEF Views
<1> QED
  BY <1>1, <1>7, Zenon DEF BeginQuery, Views, NoRevision

LEMMA ViewsAreOpen == \A v \in Views : v # Closed
<1> SUFFICES ASSUME NEW v \in Views, v = <<>> PROVE FALSE
  BY DEF Closed
<1>1. "state" \in DOMAIN v
  BY DEF Views
<1>2. DOMAIN v = 1..0
  OBVIOUS
<1> QED
  BY <1>1, <1>2

LEMMA NewViewType ==
    ASSUME NEW t \in Configurable
    PROVE  NewView(t) \in Views /\ NewView(t).target = t
BY DEF NewView, Views, NoRevision, Previewed

\* The inbox loses its head, or keeps what it has.
Shrinks == inbox' = inbox \/ (inbox # <<>> /\ inbox' = Tail(inbox))
LEMMA ShrinksFacts ==
    ASSUME inbox \in Seq(Events), Shrinks
    PROVE  /\ inbox' \in Seq(Events)
           /\ \E d \in {0, 1} :
                 /\ Len(inbox') = Len(inbox) - d
                 /\ \A i \in 1..Len(inbox') : i + d \in 1..Len(inbox) /\ inbox'[i] = inbox[i + d]
<1>1. CASE inbox' = inbox
  <2>1. \A i \in 1..Len(inbox') : i + 0 \in 1..Len(inbox) /\ inbox'[i] = inbox[i + 0]
    BY <1>1
  <2> QED
    BY <1>1, <2>1
<1>2. CASE inbox # <<>> /\ inbox' = Tail(inbox)
  <2>1. Len(inbox') = Len(inbox) - 1 /\ inbox' \in Seq(Events)
    BY <1>2
  <2>2. \A i \in 1..Len(inbox') : i + 1 \in 1..Len(inbox) /\ inbox'[i] = inbox[i + 1]
    BY <1>2, <2>1
  <2> QED
    BY <2>1, <2>2
<1> QED
  BY <1>1, <1>2 DEF Shrinks

LEMMA SendFacts ==
    ASSUME inbox \in Seq(Events), NEW m \in Events, Send(m)
    PROVE  /\ inbox' \in Seq(Events)
           /\ Len(inbox') = Len(inbox) + 1
           /\ \A i \in 1..Len(inbox) : inbox'[i] = inbox[i]
           /\ inbox'[Len(inbox) + 1] = m
BY DEF Send

LEMMA RefreshPreserves ==
    ASSUME ViewInv, NEW v \in Views, Refresh(v), UNCHANGED <<disk, applies>>, Shrinks
    PROVE  ViewInv'
<1>1. /\ view' \in Views /\ view'.target = v.target /\ view'.query = queries'
      /\ view'.state = "loading" /\ view'.snapshot = 0
      /\ view'.draft = {} /\ view'.shown = "clean"
      /\ queries' = queries + 1 /\ queries \in Nat /\ preview' = {}
      /\ inspection' = {[query |-> queries + 1, target |-> v.target]}
  BY BeginQueryType DEF Refresh, ViewInv, ViewTypeOK
<1>2. v.target \in Configurable /\ [query |-> queries + 1, target |-> v.target] \in Inspections
  BY <1>1 DEF Views, Inspections
<1>3. PICK d \in {0, 1} :
         /\ inbox' \in Seq(Events)
         /\ Len(inbox') = Len(inbox) - d
         /\ \A i \in 1..Len(inbox') : i + d \in 1..Len(inbox) /\ inbox'[i] = inbox[i + d]
  BY ShrinksFacts DEF ViewInv, ViewTypeOK
<1>4. ViewTypeOK'
  BY <1>1, <1>2, <1>3 DEF ViewInv, ViewTypeOK
<1>5. AppliesInv'
  BY DEF ViewInv, AppliesInv, Matches
<1>6. ShownInv'
  <2>1. disk[v.target].rev \in Nat
    BY <1>2 DEF ViewInv, ViewTypeOK
  <2>2. 0 <= disk[v.target].rev
    BY ONLY <2>1
  <2> QED
    BY <1>1, <2>2 DEF ShownInv
<1>7. \A i \in 1..Len(inbox') :
         /\ inbox'[i].kind = "inspected" =>
               /\ inbox'[i].query <= queries'
               /\ inbox'[i].rev <= disk[inbox'[i].target].rev
         /\ ~ Awaited(inbox[i])'
  <2> TAKE i \in 1..Len(inbox')
  <2>1. inbox'[i] \in Events
    BY <1>3
  <2>2. inbox'[i].kind = "inspected" => inbox'[i].query <= queries /\ inbox'[i].query \in Nat
    BY <1>3, <2>1 DEF ViewInv, QueriesInv, Events, Inspected, PreviewedEvents, Applied
  <2>3. inbox'[i].kind = "inspected" => inbox'[i].rev <= disk[inbox'[i].target].rev
    BY <1>3, Zenon DEF ViewInv, QueriesInv
  <2>4. inbox'[i].kind = "inspected" =>
           inbox'[i].query <= queries + 1 /\ inbox'[i].query # queries + 1
    BY <1>1, <2>2, NextOne, Zenon
  <2> QED
    BY <1>1, <2>3, <2>4, Zenon DEF Awaited
<1>8. QueriesInv' /\ OrderInv' /\ PreviewsInv'
  <2>1. ~ Settled' /\ \A r \in inspection' : r.query <= queries'
    BY <1>1 DEF Settled
  <2> QED
    BY <1>7, <2>1 DEF QueriesInv, OrderInv, PreviewsInv
<1> QED
  BY <1>4, <1>5, <1>6, <1>8 DEF ViewInv

LEMMA ClosePreserves ==
    ASSUME ViewInv, Close, UNCHANGED <<disk, applies, inbox>>
    PROVE  ViewInv'
<1>1. ~ OpenView' /\ inspection' = {} /\ preview' = {} /\ queries' = queries
  BY DEF Close, OpenView
<1>2. ViewTypeOK'
  BY <1>1 DEF ViewInv, ViewTypeOK
<1>3. AppliesInv'
  BY DEF ViewInv, AppliesInv, Matches
<1>4. ShownInv' /\ QueriesInv' /\ OrderInv' /\ PreviewsInv'
  BY <1>1 DEF ViewInv, ShownInv, QueriesInv, OrderInv, PreviewsInv, Settled, Awaited
<1> QED
  BY <1>2, <1>3, <1>4 DEF ViewInv

\* A confirmation, the end of a save and the arrival of a preview leave the
\* revision and the generation of the view, and its draft unless they drop it.
LEMMA KeepPreserves ==
    ASSUME ViewInv, OpenView' <=> OpenView, Shrinks,
           UNCHANGED <<disk, queries, inspection, preview>>,
           applies' \subseteq Applies, AppliesInv',
           OpenView =>
              /\ view' \in Views
              /\ view'.target = view.target /\ view'.query = view.query
              /\ view'.state = view.state /\ view'.snapshot = view.snapshot
              /\ view'.generation = view.generation
              /\ view'.draft = view.draft \/ view'.draft = {}
              /\ view'.shown = "ready" =>
                    /\ view'.draft # {}
                    /\ Matches(view.target, view.snapshot, view'.draft, view'.after)
    PROVE  ViewInv'
<1>1. PICK d \in {0, 1} :
         /\ inbox' \in Seq(Events)
         /\ Len(inbox') = Len(inbox) - d
         /\ \A i \in 1..Len(inbox') : i + d \in 1..Len(inbox) /\ inbox'[i] = inbox[i + d]
  BY ShrinksFacts DEF ViewInv, ViewTypeOK
<1>2. ViewTypeOK'
  BY <1>1 DEF ViewInv, ViewTypeOK
<1>3. Settled' <=> Settled
  BY DEF Settled
<1>4. ShownInv'
  <2>1. \A r \in preview' : r \in preview /\ Settled /\ Settled' /\ OpenView
    BY <1>3 DEF ViewInv, ShownInv, Settled
  <2>2. \A r \in preview' :
           /\ r.target = view'.target /\ r.generation = view'.generation
           /\ r.base = view'.snapshot
           /\ view'.draft # {} => r.draft = view'.draft
    BY <2>1 DEF ViewInv, ShownInv
  <2>3. OpenView' =>
           /\ view'.query = queries'
           /\ view'.snapshot <= disk'[view'.target].rev
           /\ view'.state = "loading" => view'.draft = {}
    BY DEF ViewInv, ShownInv
  <2>4. OpenView' /\ view'.shown = "ready" =>
           view'.draft # {} /\ Matches(view.target, view.snapshot, view.draft, view.after)'
    BY DEF Matches
  <2> QED
    BY <2>1, <2>2, <2>3, <2>4 DEF ShownInv
<1>5. \A i \in 1..Len(inbox') : Awaited(inbox[i])' = Awaited(inbox[i + d])
  BY <1>1 DEF Awaited
<1>6. QueriesInv'
  <2>1. \A r \in inspection' : r.query <= queries'
    BY DEF ViewInv, QueriesInv
  <2>2. \A i \in 1..Len(inbox') : inbox'[i].kind = "inspected" =>
           inbox'[i].query <= queries' /\ inbox'[i].rev <= disk'[inbox'[i].target].rev
    BY <1>1 DEF ViewInv, QueriesInv
  <2>3. \A r \in inspection' : r.query = queries' =>
           ~ Settled' /\ \A i \in 1..Len(inbox') : ~ Awaited(inbox[i])'
    BY <1>1, <1>3, <1>5 DEF ViewInv, QueriesInv
  <2>4. \A i \in 1..Len(inbox') : Awaited(inbox[i])' => ~ Settled'
    BY <1>1, <1>3, <1>5 DEF ViewInv, QueriesInv
  <2>5. \A i, j \in 1..Len(inbox') : Awaited(inbox[i])' /\ Awaited(inbox[j])' => i = j
    <3> SUFFICES ASSUME NEW i \in 1..Len(inbox'), NEW j \in 1..Len(inbox'),
                        Awaited(inbox[i])', Awaited(inbox[j])'
                 PROVE  i = j
      OBVIOUS
    <3>1. /\ i + d \in 1..Len(inbox) /\ j + d \in 1..Len(inbox)
          /\ Awaited(inbox[i + d]) /\ Awaited(inbox[j + d])
      BY <1>1, <1>5
    <3>2. i + d = j + d
      BY <3>1, Zenon DEF ViewInv, QueriesInv
    <3>3. i \in Int /\ j \in Int /\ d \in Int
      OBVIOUS
    <3> QED
      BY ONLY <3>2, <3>3
  <2> QED
    BY <2>1, <2>2, <2>3, <2>4, <2>5, Zenon DEF QueriesInv
<1>7. OrderInv'
  <2> SUFFICES ASSUME NEW i \in 1..Len(inbox'), NEW j \in 1..Len(inbox'),
                      OpenView', i < j, Awaited(inbox[i])'
               PROVE  inbox'[j].kind # "previewed"
    BY Zenon DEF OrderInv
  <2>1. /\ OpenView /\ i + d \in 1..Len(inbox) /\ j + d \in 1..Len(inbox)
        /\ Awaited(inbox[i + d]) /\ inbox'[j] = inbox[j + d]
    BY <1>1, <1>5, Zenon
  <2>2. i \in Int /\ j \in Int /\ d \in Int
    OBVIOUS
  <2>3. i + d < j + d
    BY ONLY <2>2, i < j
  <2> QED
    BY <2>1, <2>3, Zenon DEF ViewInv, OrderInv
<1>8. PreviewsInv'
  <2> SUFFICES ASSUME NEW i \in 1..Len(inbox'), Settled', inbox'[i].kind = "previewed"
               PROVE  /\ inbox'[i].generation <= view'.generation
                      /\ /\ inbox'[i].generation = view'.generation
                         /\ inbox'[i].target = view'.target
                         /\ inbox'[i].result = "ready" /\ view'.draft # {}
                         => Matches(view.target, view.snapshot, view.draft, inbox[i].after)'
    BY DEF PreviewsInv
  <2>1. Settled /\ OpenView /\ i + d \in 1..Len(inbox) /\ inbox'[i] = inbox[i + d]
    BY <1>1, <1>3 DEF Settled
  <2> QED
    BY <2>1 DEF ViewInv, PreviewsInv, Matches
<1> QED
  BY <1>2, <1>4, <1>6, <1>7, <1>8 DEF ViewInv

\* Nothing happens to a view but the loss of an event.
LEMMA SkipPreserves ==
    ASSUME ViewInv, Shrinks, UNCHANGED <<disk, view, queries, inspection, preview, applies>>
    PROVE  ViewInv'
<1>1. AppliesInv'
  BY DEF ViewInv, AppliesInv, Matches
<1> QED
  BY <1>1, KeepPreserves, Zenon DEF ViewInv, ViewTypeOK, ShownInv, OpenView, Matches

LEMMA FinishQueryPreserves ==
    ASSUME ViewInv, OpenView, inbox # <<>>, inbox' = Tail(inbox),
           UNCHANGED <<disk, queries, inspection, preview, applies>>,
           inbox[1].kind = "inspected", view' = FinishQuery(view, inbox[1])
    PROVE  ViewInv'
<1> DEFINE m == inbox[1]
<1> USE DEF ViewInv, ViewTypeOK
<1>1. CASE view.query # m.query \/ view.target # m.target
  BY <1>1, SkipPreserves DEF FinishQuery, Shrinks
<1>2. CASE view.query = m.query /\ view.target = m.target
  <2>1. /\ m \in Events /\ 1 \in 1..Len(inbox)
        /\ inbox' \in Seq(Events) /\ Len(inbox') = Len(inbox) - 1
        /\ \A i \in 1..Len(inbox') : i + 1 \in 1..Len(inbox) /\ inbox'[i] = inbox[i + 1]
    OBVIOUS
  <2>2. m \in Inspected
    BY <2>1 DEF Events, PreviewedEvents, Applied
  <2>3. Awaited(m) /\ ~ Settled
    BY <1>2, <2>1 DEF ShownInv, QueriesInv, Awaited
  <2>4. view.state = "loading" /\ view.draft = {} /\ preview = {}
    BY <2>3 DEF ShownInv, Settled
  <2>5. /\ view' \in Views /\ view'.target = view.target /\ view'.query = view.query
        /\ view'.snapshot = m.rev /\ view'.draft = {} /\ view'.shown = view.shown
    BY <1>2, <2>2, <2>4, Zenon DEF FinishQuery, Views, Inspected
  <2>6. ViewTypeOK'
    BY <2>1, <2>5
  <2>7. AppliesInv'
    BY DEF AppliesInv, Matches
  <2>8. ShownInv'
    BY <1>2, <2>1, <2>4, <2>5 DEF ShownInv, QueriesInv
  <2>9. \A i \in 1..Len(inbox') : ~ Awaited(inbox[i])' /\ inbox'[i].kind # "previewed"
    <3> TAKE i \in 1..Len(inbox')
    <3>1. i + 1 \in 1..Len(inbox) /\ inbox'[i] = inbox[i + 1] /\ i + 1 # 1 /\ 1 < i + 1
      BY <2>1
    <3>2. ~ Awaited(inbox[i + 1])
      BY <2>1, <2>3, <3>1 DEF QueriesInv
    <3>3. inbox[i + 1].kind # "previewed"
      BY <2>1, <2>3, <3>1 DEF OrderInv
    <3> QED
      BY <3>1, <3>2, <3>3 DEF Awaited
  <2>10. QueriesInv'
    <3>1. \A i \in 1..Len(inbox') : inbox'[i].kind = "inspected" =>
             inbox'[i].query <= queries /\ inbox'[i].rev <= disk[inbox'[i].target].rev
      <4> TAKE i \in 1..Len(inbox')
      <4>1. i + 1 \in 1..Len(inbox) /\ inbox'[i] = inbox[i + 1]
        BY <2>1, Zenon
      <4>2. QueriesInv
        OBVIOUS
      <4> QED
        BY ONLY <4>1, <4>2, Zenon DEF QueriesInv
    <3>2. \A r \in inspection : r.query <= queries /\ r.query # queries
      BY <2>1, <2>3, Zenon DEF QueriesInv
    <3> QED
      BY <2>9, <3>1, <3>2, Zenon DEF QueriesInv
  <2>11. OrderInv' /\ PreviewsInv'
    BY <2>9 DEF OrderInv, PreviewsInv
  <2> QED
    BY <2>6, <2>7, <2>8, <2>10, <2>11
<1> QED
  BY <1>1, <1>2

LEMMA FinishPreviewPreserves ==
    ASSUME ViewInv, OpenView, inbox # <<>>, inbox' = Tail(inbox),
           UNCHANGED <<disk, queries, inspection, preview, applies>>,
           inbox[1].kind = "previewed", view' = FinishPreview(view, inbox[1])
    PROVE  ViewInv'
<1> DEFINE m == inbox[1]
<1> USE DEF ViewInv, ViewTypeOK
<1>1. CASE m.generation # view.generation \/ m.target # view.target \/ view.draft = {}
  BY <1>1, SkipPreserves DEF FinishPreview, Shrinks
<1>2. CASE m.generation = view.generation /\ m.target = view.target /\ view.draft # {}
  <2>1. m \in Events /\ 1 \in 1..Len(inbox)
    OBVIOUS
  <2>2. m \in PreviewedEvents
    BY <2>1 DEF Events, Inspected, Applied
  <2>3. m.result = "ready" => Matches(view.target, view.snapshot, view.draft, m.after)
    BY <1>2, <2>1 DEF ShownInv, PreviewsInv, Settled
  <2> DEFINE w == [view EXCEPT !.shown = m.result]
  <2>4. w \in Views
    <3>1. m.result \in Previewed /\ view \in Views
      BY <2>2 DEF PreviewedEvents
    <3> HIDE DEF m
    <3> QED
      BY <3>1, Zenon DEF Views
  <2> DEFINE s == IF m.result = "ready" THEN m.after ELSE {}
  <2>5. view' = [w EXCEPT !.after = s] /\ s \in SUBSET Items
    BY <1>2, <2>2 DEF FinishPreview, PreviewedEvents
  <2>6. view' \in Views
    <3> HIDE DEF w, s
    <3> QED
      BY <2>4, <2>5, Zenon DEF Views
  <2>7. /\ view'.target = view.target /\ view'.query = view.query
        /\ view'.state = view.state /\ view'.snapshot = view.snapshot
        /\ view'.generation = view.generation /\ view'.draft = view.draft
        /\ view'.shown = m.result
        /\ view'.after = IF m.result = "ready" THEN m.after ELSE {}
    BY <2>5 DEF Views
  <2>8. AppliesInv'
    BY DEF AppliesInv, Matches
  <2> QED
    BY <1>2, <2>3, <2>6, <2>7, <2>8, KeepPreserves, ViewsAreOpen, Zenon DEF OpenView, Shrinks
<1> QED
  BY <1>1, <1>2

\* Setting one of the flags of a view.
LEMMA FlagPreserves ==
    ASSUME ViewInv, OpenView, view' \in Views, Shrinks,
           UNCHANGED <<disk, queries, inspection, preview, applies>>,
           view'.target = view.target, view'.query = view.query, view'.state = view.state,
           view'.snapshot = view.snapshot, view'.generation = view.generation,
           \/ /\ view'.draft = view.draft /\ view'.shown = view.shown
              /\ view'.after = view.after
           \/ view'.draft = {} /\ view'.shown = "clean"
    PROVE  ViewInv'
<1>1. AppliesInv' /\ applies' \subseteq Applies
  BY Zenon DEF ViewInv, ViewTypeOK, AppliesInv, Matches
<1> QED
  BY <1>1, KeepPreserves, ViewsAreOpen, Zenon DEF ViewInv, ShownInv, OpenView

LEMMA FinishApplyPreserves ==
    ASSUME ViewInv, OpenView, inbox # <<>>, inbox' = Tail(inbox), UNCHANGED <<disk, applies>>,
           inbox[1].kind = "applied", FinishApply(inbox[1])
    PROVE  ViewInv'
<1> DEFINE m == inbox[1]
           v == [view EXCEPT !.saving = FALSE]
           c1 == [v EXCEPT !.draft = {}]
           c2 == [c1 EXCEPT !.shown = "clean"]
           c3 == [c2 EXCEPT !.after = {}]
<1>1. view \in Views /\ Shrinks
  BY DEF ViewInv, ViewTypeOK, Shrinks
<1>2. v \in Views
  BY <1>1, Zenon DEF Views
<1>3. c1 \in Views
  BY <1>2, Zenon DEF Views
<1>4. c2 \in Views
  BY <1>3, Zenon DEF Views
<1>5. c3 \in Views /\ c3 = [v EXCEPT !.draft = {}, !.shown = "clean", !.after = {}]
  BY <1>4, Zenon DEF Views
<1>6. CASE UNCHANGED <<view, queries, inspection, preview>>
  BY <1>1, <1>6, SkipPreserves
<1>7. CASE view' = [c3 EXCEPT !.restart = TRUE] /\ UNCHANGED <<queries, inspection, preview>>
  <2>1. view' \in Views
    BY <1>5, <1>7, Zenon DEF Views
  <2>2. /\ view'.target = view.target /\ view'.query = view.query /\ view'.state = view.state
        /\ view'.snapshot = view.snapshot /\ view'.generation = view.generation
        /\ view'.draft = {} /\ view'.shown = "clean"
    BY <1>1, <1>7 DEF Views
  <2> QED
    BY <1>1, <1>7, <2>1, <2>2, FlagPreserves
<1>8. CASE Refresh(c3)
  BY <1>1, <1>5, <1>8, RefreshPreserves
<1>9. CASE /\ view' = [v EXCEPT !.stale = m.result = "unknown"]
           /\ UNCHANGED <<queries, inspection, preview>>
  <2>1. view' \in Views
    BY <1>2, <1>9, Zenon DEF Views
  <2>2. /\ view'.target = view.target /\ view'.query = view.query /\ view'.state = view.state
        /\ view'.snapshot = view.snapshot /\ view'.generation = view.generation
        /\ view'.draft = view.draft /\ view'.shown = view.shown /\ view'.after = view.after
    BY <1>1, <1>9 DEF Views
  <2> QED
    BY <1>1, <1>9, <2>1, <2>2, FlagPreserves
<1> QED
  BY <1>5, <1>6, <1>7, <1>8, <1>9 DEF FinishApply

LEMMA DeliverEventPreserves ==
    ASSUME ViewInv, DeliverEvent
    PROVE  ViewInv'
<1>1. /\ Head(inbox) = inbox[1] /\ inbox[1] \in Events
      /\ inbox # <<>> /\ inbox' = Tail(inbox) /\ UNCHANGED <<disk, applies>>
  BY DEF DeliverEvent, ViewInv, ViewTypeOK
<1>2. inbox[1].kind \in {"inspected", "previewed", "applied"}
  BY <1>1 DEF Events, Inspected, PreviewedEvents, Applied
<1>3. CASE ~ OpenView
  BY <1>1, <1>3, SkipPreserves, Zenon DEF DeliverEvent, Shrinks
<1>4. CASE OpenView
  BY Zenon, <1>1, <1>2, <1>4, FinishQueryPreserves, FinishPreviewPreserves, FinishApplyPreserves
     DEF DeliverEvent
<1> QED
  BY <1>3, <1>4

LEMMA AnswerPreserves ==
    ASSUME ViewInv, NEW yes \in BOOLEAN,
           RequestClose \/ RequestViewRefresh \/ AnswerDiscard(yes) \/ AnswerRestart(yes)
    PROVE  ViewInv'
<1>1. view \in Views /\ OpenView /\ UNCHANGED <<disk, applies, inbox>>
  BY DEF ViewInv, ViewTypeOK, RequestClose, RequestViewRefresh, AnswerDiscard, AnswerRestart,
         Unconfirmed
<1>2. CASE Close
  BY <1>1, <1>2, ClosePreserves
<1>3. CASE Refresh(view)
  BY <1>1, <1>3, RefreshPreserves DEF Shrinks
<1>4. ASSUME NEW c \in {"none", "close", "refresh"}, view' = [view EXCEPT !.discard = c],
             UNCHANGED <<queries, inspection, preview>>
      PROVE  ViewInv'
  <2>1. view' \in Views
    BY <1>1, <1>4 DEF Views
  <2>2. /\ view'.target = view.target /\ view'.query = view.query /\ view'.state = view.state
        /\ view'.snapshot = view.snapshot /\ view'.generation = view.generation
        /\ view'.draft = view.draft /\ view'.shown = view.shown /\ view'.after = view.after
    BY <1>1, <1>4 DEF Views
  <2> QED
    BY <1>1, <1>4, <2>1, <2>2, FlagPreserves DEF Shrinks
<1> QED
  BY <1>2, <1>3, <1>4 DEF RequestClose, RequestViewRefresh, AnswerDiscard, AnswerRestart

LEMMA ToggleItemPreserves ==
    ASSUME ViewInv, NEW x \in Items, ToggleItem(x)
    PROVE  ViewInv'
<1> DEFINE draft == Toggled(view.draft, {x})
           a == [view EXCEPT !.draft = draft]
           b == [a EXCEPT !.generation = view.generation + 1]
           c == [b EXCEPT !.after = {}]
<1>1. view \in Views /\ OpenView /\ view.state = "ready"
      /\ UNCHANGED <<disk, queries, inspection, applies, inbox>>
  BY DEF ViewInv, ViewTypeOK, ToggleItem, Unconfirmed
<1>2. draft \in SUBSET Items /\ view.generation \in Nat
  BY <1>1 DEF Toggled, Views
<1>3. a \in Views
  BY <1>1, <1>2 DEF Views
<1>4. b \in Views
  <2> HIDE DEF a, draft
  <2> QED
    BY <1>2, <1>3 DEF Views
<1>5. c \in Views
  <2> HIDE DEF b
  <2> QED
    BY <1>4 DEF Views
<1>6. PICK s \in {"clean", "failed", "loading"} :
         /\ view' = [c EXCEPT !.shown = s]
         /\ \A r \in preview' :
               /\ r = [generation |-> view.generation + 1, target |-> view.target,
                       base |-> view.snapshot, draft |-> draft]
  BY <1>1 DEF ToggleItem, Views
<1>7. view' \in Views
  BY <1>5, <1>6, Zenon DEF Views, Previewed
<1>8. /\ view'.target = view.target /\ view'.query = view.query /\ view'.state = view.state
      /\ view'.snapshot = view.snapshot /\ view'.generation = view.generation + 1
      /\ view'.draft = draft /\ view'.shown = s
  BY <1>1, <1>6 DEF Views
<1>9. OpenView' /\ Settled /\ Settled'
  BY <1>1, <1>7, <1>8, ViewsAreOpen DEF OpenView, Settled
<1>10. ViewTypeOK'
  <2>1. [generation |-> view.generation + 1, target |-> view.target,
         base |-> view.snapshot, draft |-> draft] \in Previews
    BY <1>1, <1>2, SMTT(30) DEF Previews, Views
  <2>2. preview' \subseteq Previews
    BY <1>6, <2>1
  <2> QED
    BY <1>1, <1>7, <2>2 DEF ViewInv, ViewTypeOK
<1>11. AppliesInv'
  BY <1>1 DEF ViewInv, AppliesInv, Matches
<1>12. ShownInv'
  <2>1. view'.query = queries' /\ view'.snapshot <= disk'[view'.target].rev
    BY <1>1, <1>8 DEF ViewInv, ShownInv
  <2>2. \A r \in preview' :
           /\ r.target = view'.target /\ r.generation = view'.generation
           /\ r.base = view'.snapshot /\ r.draft = view'.draft
    BY <1>6, <1>8
  <2>3. view'.shown # "ready" /\ view'.state # "loading"
    BY <1>1, <1>8
  <2> QED
    BY <1>9, <2>1, <2>2, <2>3, Zenon DEF ShownInv
<1>13. QueriesInv' /\ OrderInv'
  BY <1>1, <1>9, Zenon DEF ViewInv, QueriesInv, OrderInv, Awaited
<1>14. PreviewsInv'
  <2> HIDE DEF draft, a, b, c
  <2>1. ASSUME NEW i \in 1..Len(inbox), inbox[i].kind = "previewed"
        PROVE  inbox[i].generation <= view.generation + 1 /\ inbox[i].generation # view.generation + 1
    <3>1. inbox[i] \in Events
      BY DEF ViewInv, ViewTypeOK
    <3>2. inbox[i].generation \in Nat
      BY <2>1, <3>1 DEF Events, Inspected, PreviewedEvents, Applied
    <3>3. inbox[i].generation <= view.generation
      BY <1>9, <2>1 DEF ViewInv, PreviewsInv
    <3> QED
      BY <1>2, <3>2, <3>3
  <2>2. inbox' = inbox /\ view'.generation = view.generation + 1
    BY <1>1, <1>8
  <2> QED
    BY <2>1, <2>2 DEF PreviewsInv
<1> QED
  BY <1>10, <1>11, <1>12, <1>13, <1>14 DEF ViewInv

\* Files only get newer revisions.
Advances ==
    /\ disk' \in [Configurable -> [content : SUBSET Items, rev : Nat]]
    /\ \A t \in Configurable : disk'[t] = disk[t] \/ disk[t].rev < disk'[t].rev

LEMMA RevisionsGrow ==
    ASSUME ViewTypeOK, Advances
    PROVE  \A t \in Configurable :
              disk[t].rev \in Nat /\ disk'[t].rev \in Nat /\ disk[t].rev <= disk'[t].rev
<1> TAKE t \in Configurable
<1>1. disk[t] \in [content : SUBSET Items, rev : Nat]
      /\ disk'[t] \in [content : SUBSET Items, rev : Nat]
  BY DEF Advances, ViewTypeOK
<1>2. disk'[t] = disk[t] \/ disk[t].rev < disk'[t].rev
  BY DEF Advances
<1>3. disk[t].rev \in Nat /\ disk'[t].rev \in Nat
  BY <1>1
<1> QED
  <2>1. CASE disk'[t] = disk[t]
    <3>1. disk[t].rev <= disk[t].rev
      BY ONLY <1>3, Reflexive
    <3> QED
      BY <1>3, <2>1, <3>1, Zenon
  <2>2. CASE disk[t].rev < disk'[t].rev
    BY <1>3, <2>2, Weaker, Zenon
  <2> QED
    BY <1>2, <2>1, <2>2

\* A document that was right for a revision stays right for it: a write makes
\* a revision that was never reviewed.
LEMMA MatchesLasts ==
    ASSUME ViewTypeOK, Advances, NEW t \in Configurable, NEW b \in Nat, b <= disk[t].rev,
           NEW e, NEW after, Matches(t, b, e, after)
    PROVE  b <= disk'[t].rev /\ (disk'[t].rev = b => after = Toggled(disk'[t].content, e))
<1>1. disk'[t] = disk[t] \/ disk[t].rev < disk'[t].rev
  BY DEF Advances
<1>2. CASE disk'[t] = disk[t]
  BY <1>2 DEF Matches
<1>3. CASE disk[t].rev < disk'[t].rev
  <2>1. disk[t].rev \in Nat /\ disk'[t].rev \in Nat
    BY RevisionsGrow, Zenon
  <2>2. b <= disk'[t].rev /\ b # disk'[t].rev
    BY ONLY b \in Nat, b <= disk[t].rev, <1>3, <2>1, StrictChain
  <2> QED
    BY <2>2
<1> QED
  BY <1>1, <1>2, <1>3

\* What may join the inbox behind the events that are there.
Welcome(m) ==
    /\ m.kind = "inspected" =>
          /\ m.query <= queries /\ m.rev <= disk[m.target].rev
          /\ Awaited(m) => /\ ~ Settled /\ inspection' = {}
                           /\ \A i \in 1..Len(inbox) : ~ Awaited(inbox[i])
    /\ m.kind = "previewed" =>
          /\ Settled /\ m.generation <= view.generation
          /\ /\ m.generation = view.generation /\ m.target = view.target
             /\ m.result = "ready" /\ view.draft # {}
             => Matches(view.target, view.snapshot, view.draft, m.after)

\* A task goes on, and may write a file and send its result.
LEMMA TaskPreserves ==
    ASSUME ViewInv, Advances, UNCHANGED <<view, queries>>,
           inspection' \subseteq inspection, preview' \subseteq preview,
           applies' \subseteq Applies, AppliesInv',
           inbox' \in Seq(Events), Len(inbox) <= Len(inbox'),
           \A i \in 1..Len(inbox) : inbox'[i] = inbox[i],
           \A i \in 1..Len(inbox') :
              i \in 1..Len(inbox) \/ (i = Len(inbox) + 1 /\ Welcome(inbox'[i]))
    PROVE  ViewInv'
<1> USE DEF ViewInv, ViewTypeOK
<1>1. (OpenView' <=> OpenView) /\ (Settled' <=> Settled)
  BY DEF OpenView, Settled
<1>2. \A t \in Configurable :
         disk[t].rev \in Nat /\ disk'[t].rev \in Nat /\ disk[t].rev <= disk'[t].rev
  BY RevisionsGrow, Zenon
<1>3. ASSUME NEW t \in Configurable, NEW b \in Nat, b <= disk[t].rev, NEW e, NEW after,
             Matches(t, b, e, after)
      PROVE  b <= disk'[t].rev /\ (disk'[t].rev = b => after = Toggled(disk'[t].content, e))
  BY <1>3, MatchesLasts, Zenon
<1>4. \A i \in 1..Len(inbox') : inbox'[i] \in Events
  BY SMTT(30)
<1>5. ViewTypeOK'
  BY <1>1, Zenon DEF Advances
<1>6. ShownInv'
  <2>1. ASSUME OpenView
        PROVE  /\ view.query = queries /\ view.snapshot <= disk'[view.target].rev
               /\ view.state = "loading" => view.draft = {}
               /\ view.shown = "ready" =>
                     /\ view.draft # {}
                     /\ disk'[view.target].rev = view.snapshot =>
                          view.after = Toggled(disk'[view.target].content, view.draft)
    <3>1. view.target \in Configurable /\ view.snapshot \in Nat
      BY <2>1, Zenon DEF Views
    <3>2. /\ view.query = queries /\ view.snapshot <= disk[view.target].rev
          /\ view.state = "loading" => view.draft = {}
          /\ view.shown = "ready" =>
                view.draft # {} /\ Matches(view.target, view.snapshot, view.draft, view.after)
      BY <2>1, Zenon DEF ShownInv
    <3> HIDE DEF ViewInv, ViewTypeOK
    <3>3. view.snapshot <= disk'[view.target].rev
      <4>1. /\ disk[view.target].rev \in Nat /\ disk'[view.target].rev \in Nat
            /\ disk[view.target].rev <= disk'[view.target].rev
        BY <1>2, <3>1, Zenon
      <4> QED
        BY ONLY <3>1, <3>2, <4>1, Chain, Zenon
    <3>4. ASSUME view.shown = "ready", disk'[view.target].rev = view.snapshot
          PROVE  view.after = Toggled(disk'[view.target].content, view.draft)
      BY <1>3, <3>1, <3>2, <3>4, Zenon
    <3> QED
      BY <3>2, <3>3, <3>4, Zenon
  <2> QED
    BY <1>1, <2>1 DEF ShownInv, Matches
<1>7. QueriesInv'
  <2>1. \A i \in 1..Len(inbox') : inbox'[i].kind = "inspected" =>
           inbox'[i].query <= queries' /\ inbox'[i].rev <= disk'[inbox'[i].target].rev
    <3> SUFFICES ASSUME NEW i \in 1..Len(inbox'), inbox'[i].kind = "inspected"
                 PROVE  inbox'[i].query <= queries' /\ inbox'[i].rev <= disk'[inbox'[i].target].rev
      BY Zenon
    <3>1. inbox'[i] \in Inspected
      BY <1>4, Zenon DEF Events, PreviewedEvents, Applied
    <3>2. inbox'[i].target \in Configurable /\ inbox'[i].rev \in Nat
      BY <3>1 DEF Inspected
    <3>3. inbox'[i].query <= queries /\ inbox'[i].rev <= disk[inbox'[i].target].rev
      BY Zenon DEF QueriesInv, Welcome
    <3>4. /\ disk[inbox'[i].target].rev \in Nat /\ disk'[inbox'[i].target].rev \in Nat
          /\ disk[inbox'[i].target].rev <= disk'[inbox'[i].target].rev
      BY <1>2, <3>2, Zenon
    <3> HIDE DEF ViewInv, ViewTypeOK
    <3>5. inbox'[i].rev <= disk'[inbox'[i].target].rev
      BY ONLY <3>2, <3>3, <3>4, Chain, Zenon
    <3> QED
      BY <3>3, <3>5
  <2>2. \A i \in 1..Len(inbox) : Awaited(inbox[i])' <=> Awaited(inbox[i])
    BY Zenon DEF Awaited
  <2>3. \A i \in 1..Len(inbox') : i \notin 1..Len(inbox) /\ Awaited(inbox[i])' =>
           /\ i = Len(inbox) + 1 /\ ~ Settled /\ inspection' = {}
           /\ \A j \in 1..Len(inbox) : ~ Awaited(inbox[j])'
    BY <2>2, Zenon DEF Awaited, Welcome
  <2>4. \A r \in inspection' : r.query <= queries'
    BY Zenon DEF QueriesInv
  <2>5. \A r \in inspection' : r.query = queries' =>
           ~ Settled' /\ \A i \in 1..Len(inbox') : ~ Awaited(inbox[i])'
    BY <1>1, <2>2, <2>3, Zenon DEF QueriesInv
  <2>6. \A i \in 1..Len(inbox') : Awaited(inbox[i])' => ~ Settled'
    BY <1>1, <2>2, <2>3, Zenon DEF QueriesInv
  <2>7. \A i, j \in 1..Len(inbox') : Awaited(inbox[i])' /\ Awaited(inbox[j])' => i = j
    BY <2>2, <2>3, Zenon DEF QueriesInv
  <2> QED
    BY <2>1, <2>4, <2>5, <2>6, <2>7, Zenon DEF QueriesInv
<1>8. OrderInv'
  <2> SUFFICES ASSUME NEW i \in 1..Len(inbox'), NEW j \in 1..Len(inbox'), OpenView', i < j,
                      Awaited(inbox[i])'
               PROVE  inbox'[j].kind # "previewed"
    BY Zenon DEF OrderInv
  <2>1. i \in 1..Len(inbox) /\ Awaited(inbox[i])
    <3>1. /\ i \in 1..Len(inbox) \/ i = Len(inbox) + 1
          /\ j \in 1..Len(inbox) \/ j = Len(inbox) + 1
          /\ i < j
      BY Zenon
    <3>2. Len(inbox) \in Nat
      <4>1. inbox \in Seq(Events)
        BY Zenon
      <4> QED
        BY ONLY <4>1
    <3>3. i \in 1..Len(inbox)
      BY ONLY <3>1, <3>2
    <3> QED
      BY <3>3, Zenon DEF Awaited
  <2>2. ~ Settled
    BY <2>1, Zenon DEF QueriesInv
  <2> QED
    BY <1>1, <2>1, <2>2, Zenon DEF OrderInv, Welcome
<1>9. PreviewsInv'
  <2> SUFFICES ASSUME NEW i \in 1..Len(inbox'), Settled', inbox'[i].kind = "previewed"
               PROVE  /\ inbox'[i].generation <= view'.generation
                      /\ /\ inbox'[i].generation = view'.generation
                         /\ inbox'[i].target = view'.target
                         /\ inbox'[i].result = "ready" /\ view'.draft # {}
                         => Matches(view.target, view.snapshot, view.draft, inbox[i].after)'
    BY DEF PreviewsInv
  <2>1. /\ Settled /\ OpenView /\ view.target \in Configurable /\ view.snapshot \in Nat
        /\ view.snapshot <= disk[view.target].rev
    BY <1>1, Zenon DEF Settled, Views, ShownInv
  <2>2. /\ inbox'[i].generation <= view.generation
        /\ /\ inbox'[i].generation = view.generation
           /\ inbox'[i].target = view.target
           /\ inbox'[i].result = "ready" /\ view.draft # {}
           => Matches(view.target, view.snapshot, view.draft, inbox'[i].after)
    BY <2>1 DEF PreviewsInv, Welcome
  <2>3. Matches(view.target, view.snapshot, view.draft, inbox'[i].after) =>
           Matches(view.target, view.snapshot, view.draft, inbox[i].after)'
    <3>1. Matches(view.target, view.snapshot, view.draft, inbox'[i].after) =>
             (disk'[view.target].rev = view.snapshot =>
                inbox'[i].after = Toggled(disk'[view.target].content, view.draft))
      <4> DEFINE after == inbox'[i].after
      <4> SUFFICES ASSUME Matches(view.target, view.snapshot, view.draft, after)
                   PROVE  disk'[view.target].rev = view.snapshot =>
                            after = Toggled(disk'[view.target].content, view.draft)
        BY Zenon
      <4> HIDE DEF after, ViewInv, ViewTypeOK
      <4> QED
        BY <1>3, <2>1, Zenon
    <3> QED
      BY <3>1 DEF Matches
  <2> QED
    BY <2>2, <2>3
<1> QED
  BY <1>5, <1>6, <1>7, <1>8, <1>9

LEMMA SavePreserves ==
    ASSUME ViewInv, Save
    PROVE  ViewInv'
<1> DEFINE n == [generation |-> view.generation, target |-> view.target,
                 base |-> view.snapshot, draft |-> view.draft, reviewed |-> view.after,
                 stage |-> "queued", new |-> {}, heard |-> TRUE]
<1>1. /\ view \in Views /\ OpenView /\ view.shown = "ready"
      /\ view' = [view EXCEPT !.saving = TRUE]
      /\ applies' = applies \cup {n}
      /\ UNCHANGED <<disk, queries, inspection, preview, inbox>>
  BY DEF ViewInv, ViewTypeOK, Save, Unconfirmed
<1>2. view' \in Views
  BY <1>1, Zenon DEF Views
<1>3. /\ view'.target = view.target /\ view'.query = view.query /\ view'.state = view.state
      /\ view'.snapshot = view.snapshot /\ view'.generation = view.generation
      /\ view'.draft = view.draft /\ view'.shown = view.shown /\ view'.after = view.after
  BY <1>1 DEF Views
<1>4. n \in Applies
  BY <1>1 DEF Applies, Views
<1>5. n.base <= disk[n.target].rev /\ Matches(n.target, n.base, n.draft, n.reviewed)
  BY <1>1 DEF ViewInv, ShownInv
<1>6. AppliesInv'
  BY <1>1, <1>5 DEF ViewInv, AppliesInv, Matches
<1>7. applies' \subseteq Applies
  BY <1>1, <1>4, Zenon DEF ViewInv, ViewTypeOK
<1> QED
  BY Zenon, <1>1, <1>2, <1>3, <1>6, <1>7, KeepPreserves, ViewsAreOpen
     DEF ViewInv, ShownInv, OpenView, Shrinks

LEMMA DiskStays ==
    ASSUME ViewInv, UNCHANGED disk
    PROVE  Advances
BY DEF ViewInv, ViewTypeOK, Advances

LEMMA InspectedRecord ==
    ASSUME NEW q \in Nat, NEW t \in Configurable, NEW ok \in {"ready", "incomplete", "failed"},
           NEW v \in Nat
    PROVE  [kind |-> "inspected", query |-> q, target |-> t, result |-> ok, rev |-> v] \in Inspected
BY DEF Inspected

LEMMA InspectionReturnsPreserves ==
    ASSUME ViewInv, NEW r \in inspection, InspectionReturns(r)
    PROVE  ViewInv'
<1>1. PICK ok \in {"ready", "incomplete", "failed"} :
         Send([kind |-> "inspected", query |-> r.query, target |-> r.target, result |-> ok,
               rev |-> IF ok = "ready" THEN disk[r.target].rev ELSE NoRevision])
  BY DEF InspectionReturns
<1> DEFINE m == [kind |-> "inspected", query |-> r.query, target |-> r.target, result |-> ok,
                 rev |-> IF ok = "ready" THEN disk[r.target].rev ELSE NoRevision]
<1>2. r.query \in Nat /\ r.target \in Configurable
  BY DEF ViewInv, ViewTypeOK, Inspections
<1>3. disk[r.target].rev \in Nat
  BY <1>2 DEF ViewInv, ViewTypeOK
<1>4. m \in Inspected /\ m.kind = "inspected" /\ m.query = r.query /\ m.rev <= disk[m.target].rev
  <2>1. PICK v \in Nat : v = IF ok = "ready" THEN disk[r.target].rev ELSE NoRevision
    BY <1>3 DEF NoRevision
  <2>2. v <= disk[r.target].rev
    BY <1>3, <2>1 DEF NoRevision
  <2>3. /\ m.kind = "inspected" /\ m.query = r.query /\ m.target = r.target /\ m.rev = v
        /\ m = [kind |-> "inspected", query |-> r.query, target |-> r.target, result |-> ok, rev |-> v]
    BY <2>1, Zenon
  <2> HIDE DEF m
  <2>4. m \in Inspected
    BY <1>2, <2>3, InspectedRecord
  <2> QED
    BY <2>2, <2>3, <2>4
<1>5. m \in Events
  BY <1>4 DEF Events
<1> HIDE DEF m
<1>6. Welcome(m)
  BY <1>4, Zenon DEF Welcome, InspectionReturns, ViewInv, QueriesInv, Awaited
<1>7. AppliesInv'
  BY Zenon DEF ViewInv, AppliesInv, Matches, InspectionReturns
<1>8. /\ inbox' \in Seq(Events) /\ Len(inbox') = Len(inbox) + 1
      /\ \A i \in 1..Len(inbox) : inbox'[i] = inbox[i]
      /\ inbox'[Len(inbox) + 1] = m
  BY <1>1, <1>5, SendFacts, Zenon DEF ViewInv, ViewTypeOK, m
<1>9. /\ Len(inbox) <= Len(inbox')
      /\ \A i \in 1..Len(inbox') :
            i \in 1..Len(inbox) \/ (i = Len(inbox) + 1 /\ Welcome(inbox'[i]))
  <2>1. Len(inbox) \in Nat
    BY DEF ViewInv, ViewTypeOK
  <2> QED
    BY <1>6, <1>8, <2>1, OneMore, Zenon
<1> QED
  BY <1>7, <1>8, <1>9, DiskStays, TaskPreserves, Zenon DEF InspectionReturns, ViewInv, ViewTypeOK

LEMMA PreviewReturnsPreserves ==
    ASSUME ViewInv, NEW r \in preview, PreviewReturns(r)
    PROVE  ViewInv'
<1>1. PICK result \in {PreparePatch(r.target, r.base, r.draft), "failed"} :
         Send([kind |-> "previewed", generation |-> r.generation, target |-> r.target,
               result |-> result, after |-> Toggled(disk[r.target].content, r.draft)])
  BY Zenon DEF PreviewReturns
<1> DEFINE m == [kind |-> "previewed", generation |-> r.generation, target |-> r.target,
                 result |-> result, after |-> Toggled(disk[r.target].content, r.draft)]
<1>2. /\ r.generation \in Nat /\ r.target \in Configurable /\ r.draft \subseteq Items
      /\ disk[r.target].content \subseteq Items
  BY DEF ViewInv, ViewTypeOK, Previews
<1>3. result \in Previewed
  BY <1>1 DEF PreparePatch, Previewed
<1>4. Toggled(disk[r.target].content, r.draft) \subseteq Items
  BY <1>2 DEF Toggled
<1>5. /\ m \in PreviewedEvents /\ m.kind = "previewed" /\ m.generation = r.generation
      /\ m.target = r.target /\ m.after = Toggled(disk[r.target].content, r.draft)
  BY <1>2, <1>3, <1>4, Zenon DEF PreviewedEvents
<1>6. m \in Events
  BY <1>5 DEF Events
<1> HIDE DEF m
<1>7. Welcome(m)
  <2>1. /\ Settled /\ r.target = view.target /\ r.generation = view.generation
        /\ view.draft # {} => r.draft = view.draft
    BY Zenon DEF ViewInv, ShownInv
  <2>2. m.generation <= view.generation
    BY <1>2, <1>5, <2>1, Reflexive, Zenon
  <2> QED
    BY <1>5, <2>1, <2>2, Zenon DEF Welcome, Matches
<1>8. AppliesInv'
  BY Zenon DEF ViewInv, AppliesInv, Matches, PreviewReturns
<1>9. /\ inbox' \in Seq(Events) /\ Len(inbox') = Len(inbox) + 1
      /\ \A i \in 1..Len(inbox) : inbox'[i] = inbox[i]
      /\ inbox'[Len(inbox) + 1] = m
  BY <1>1, <1>6, SendFacts DEF ViewInv, ViewTypeOK, m
<1>10. /\ Len(inbox) <= Len(inbox')
       /\ \A i \in 1..Len(inbox') :
             i \in 1..Len(inbox) \/ (i = Len(inbox) + 1 /\ Welcome(inbox'[i]))
  <2>1. Len(inbox) \in Nat
    BY DEF ViewInv, ViewTypeOK
  <2> QED
    BY <1>7, <1>9, <2>1, OneMore, Zenon
<1> QED
  BY <1>8, <1>9, <1>10, DiskStays, TaskPreserves, Zenon DEF PreviewReturns, ViewInv, ViewTypeOK

Answers == {"refused", "applied", "failed", "unknown"}

\* An execution goes on, and may write the file and answer.
LEMMA ExecutionPreserves ==
    ASSUME ViewInv, Advances, UNCHANGED <<view, queries, inspection, preview>>,
           NEW e \in applies, NEW result \in Answers, Reply(e, result) \/ UNCHANGED inbox,
           applies' \subseteq Applies, AppliesInv'
    PROVE  ViewInv'
<1> DEFINE m == [kind |-> "applied", generation |-> e.generation, target |-> e.target,
                 result |-> result]
<1>1. m \in Applied /\ m.kind = "applied"
  BY DEF ViewInv, ViewTypeOK, Applies, Applied, Answers
<1>2. m \in Events /\ Welcome(m)
  BY <1>1, Zenon DEF Events, Welcome
<1> HIDE DEF m
<1>3. CASE UNCHANGED inbox
  <2>1. inbox' \in Seq(Events) /\ Len(inbox) \in Nat
    BY <1>3 DEF ViewInv, ViewTypeOK
  <2>2. Len(inbox) <= Len(inbox')
    BY <1>3, <2>1, Reflexive, Zenon
  <2> QED
    BY <1>3, <2>1, <2>2, TaskPreserves, Zenon
<1>4. CASE Send(m)
  <2>1. /\ inbox' \in Seq(Events) /\ Len(inbox') = Len(inbox) + 1
        /\ \A i \in 1..Len(inbox) : inbox'[i] = inbox[i]
        /\ inbox'[Len(inbox) + 1] = m
    BY <1>2, <1>4, SendFacts DEF ViewInv, ViewTypeOK
  <2>2. /\ Len(inbox) <= Len(inbox')
        /\ \A i \in 1..Len(inbox') :
              i \in 1..Len(inbox) \/ (i = Len(inbox) + 1 /\ Welcome(inbox'[i]))
    <3>1. Len(inbox) \in Nat
      BY DEF ViewInv, ViewTypeOK
    <3> QED
      BY <1>2, <2>1, <3>1, OneMore, Zenon
  <2> QED
    BY <2>1, <2>2, TaskPreserves
<1> QED
  BY <1>3, <1>4 DEF Reply, m

\* Executions that are left when one ends are as good as they were.
LEMMA AppliesLast ==
    ASSUME ViewInv, Advances, applies' \subseteq applies
    PROVE  applies' \subseteq Applies /\ AppliesInv'
<1>1. ASSUME NEW e \in applies'
      PROVE  /\ e.base <= disk'[e.target].rev
             /\ Matches(e.target, e.base, e.draft, e.reviewed)'
             /\ e.stage = "renaming" => e.new = e.reviewed
  <2>1. /\ e.target \in Configurable /\ e.base \in Nat
        /\ e.base <= disk[e.target].rev /\ Matches(e.target, e.base, e.draft, e.reviewed)
        /\ e.stage = "renaming" => e.new = e.reviewed
    BY <1>1 DEF ViewInv, ViewTypeOK, AppliesInv, Applies
  <2>2. /\ e.base <= disk'[e.target].rev
        /\ disk'[e.target].rev = e.base =>
             e.reviewed = Toggled(disk'[e.target].content, e.draft)
    BY <2>1, MatchesLasts, Zenon DEF ViewInv
  <2> QED
    BY <2>1, <2>2 DEF Matches
<1> QED
  BY <1>1 DEF ViewInv, ViewTypeOK, AppliesInv

\* One execution is replaced by its next stage.
LEMMA AppliesMove ==
    ASSUME ViewInv, UNCHANGED disk, NEW e \in applies, NEW f \in Applies,
           applies' = (applies \ {e}) \cup {f},
           f.target = e.target, f.base = e.base, f.draft = e.draft, f.reviewed = e.reviewed,
           f.stage = "renaming" => f.new = f.reviewed,
           \/ f.stage # "queued" => e.stage # "queued"
           \/ \A o \in applies : o.target = e.target => o.stage = "queued"
    PROVE  applies' \subseteq Applies /\ AppliesInv'
<1>1. applies' \subseteq Applies
  BY DEF ViewInv, ViewTypeOK
<1>2. ASSUME NEW o \in applies'
      PROVE  /\ o.base <= disk[o.target].rev
             /\ Matches(o.target, o.base, o.draft, o.reviewed)
             /\ o.stage = "renaming" => o.new = o.reviewed
  <2>1. CASE o = f
    <3>1. e.base <= disk[e.target].rev /\ Matches(e.target, e.base, e.draft, e.reviewed)
      BY Zenon DEF ViewInv, AppliesInv
    <3> QED
      BY <2>1, <3>1, Zenon
  <2>2. CASE o \in applies
    BY <2>2, Zenon DEF ViewInv, AppliesInv
  <2> QED
    BY <2>1, <2>2
<1>3. ASSUME NEW o \in applies, o # e, o.stage # "queued", f.stage # "queued"
      PROVE  o.target # e.target
  BY <1>3, Zenon DEF ViewInv, AppliesInv
<1>4. ASSUME NEW o \in applies', NEW p \in applies',
             o.stage # "queued", p.stage # "queued", o.target = p.target
      PROVE  o = p
  <2>1. CASE o = f
    BY <1>3, <1>4, <2>1
  <2>2. CASE p = f
    BY <1>3, <1>4, <2>2
  <2>3. CASE o # f /\ p # f
    BY <1>4, <2>3, Zenon DEF ViewInv, AppliesInv
  <2> QED
    BY <2>1, <2>2, <2>3
<1> QED
  BY <1>1, <1>2, <1>4, Zenon DEF AppliesInv, Matches

LEMMA PreparePatchReady ==
    ASSUME NEW t, NEW base, NEW draft, PreparePatch(t, base, draft) = "ready"
    PROVE  disk[t].rev = base
BY DEF PreparePatch

LEMMA ApplyPreserves ==
    ASSUME ViewInv, NEW e \in applies,
           \/ ApplyBusy(e) \/ ApplyLocks(e) \/ ApplyRechecks(e)
           \/ ApplyRenames(e) \/ ApplyFails(e) \/ ApplyLost(e)
    PROVE  ViewInv'
<1>1. e \in Applies /\ UNCHANGED <<view, queries, inspection, preview>>
  BY DEF ViewInv, ViewTypeOK, ApplyBusy, ApplyLocks, ApplyRechecks, ApplyRenames, ApplyFails,
         ApplyLost
<1>2. ASSUME UNCHANGED disk, applies' = applies \ {e}, NEW result \in Answers, Reply(e, result)
      PROVE  ViewInv'
  BY <1>1, <1>2, DiskStays, AppliesLast, ExecutionPreserves
<1>3. CASE ApplyBusy(e) \/ ApplyFails(e)
  BY <1>2, <1>3 DEF ApplyBusy, ApplyFails, Answers
<1>4. CASE ApplyLocks(e)
  <2>1. CASE PreparePatch(e.target, e.base, e.draft) = "ready"
    <3> DEFINE f == [e EXCEPT !.stage = "locked"]
    <3>1. f \in Applies
      BY <1>1 DEF Applies
    <3>2. /\ f.target = e.target /\ f.base = e.base /\ f.draft = e.draft
          /\ f.reviewed = e.reviewed /\ f.stage = "locked"
      BY <1>1 DEF Applies
    <3>3. /\ applies' = (applies \ {e}) \cup {f} /\ UNCHANGED <<disk, inbox>>
          /\ \A o \in applies : o.target = e.target => o.stage = "queued"
      BY <1>4, <2>1 DEF ApplyLocks
    <3> HIDE DEF f
    <3>4. applies' \subseteq Applies /\ AppliesInv'
      BY <3>1, <3>2, <3>3, AppliesMove, Zenon
    <3> QED
      BY <1>1, <3>3, <3>4, DiskStays, ExecutionPreserves DEF Answers
  <2>2. CASE PreparePatch(e.target, e.base, e.draft) # "ready"
    BY <1>2, <1>4, <2>2 DEF ApplyLocks, Answers
  <2> QED
    BY <2>1, <2>2
<1>5. CASE ApplyRechecks(e)
  <2>1. CASE PreparePatch(e.target, e.base, e.draft) = "ready"
    <3> DEFINE g == [e EXCEPT !.stage = "renaming"]
               f == [g EXCEPT !.new = Toggled(disk[e.target].content, e.draft)]
    <3>1. e.target \in Configurable /\ e.draft \subseteq Items /\ disk[e.target].content \subseteq Items
      BY <1>1 DEF Applies, ViewInv, ViewTypeOK
    <3>2. Toggled(disk[e.target].content, e.draft) \subseteq Items
      BY <3>1 DEF Toggled
    <3>3. g \in Applies
      BY <1>1 DEF Applies
    <3>4. f \in Applies
      <4> HIDE DEF g
      <4> QED
        BY <3>2, <3>3 DEF Applies
    <3>5. /\ f.target = e.target /\ f.base = e.base /\ f.draft = e.draft
          /\ f.reviewed = e.reviewed /\ f.stage = "renaming"
          /\ f.new = Toggled(disk[e.target].content, e.draft)
      BY <1>1 DEF Applies
    <3>6. f.new = f.reviewed
      BY <2>1, <3>5, PreparePatchReady DEF ViewInv, AppliesInv, Matches
    <3>7. applies' = (applies \ {e}) \cup {f} /\ e.stage = "locked" /\ UNCHANGED <<disk, inbox>>
      BY <1>5, <2>1 DEF ApplyRechecks
    <3> HIDE DEF f
    <3>8. applies' \subseteq Applies /\ AppliesInv'
      BY <3>4, <3>5, <3>6, <3>7, AppliesMove, Zenon
    <3> QED
      BY <1>1, <3>7, <3>8, DiskStays, ExecutionPreserves DEF Answers
  <2>2. CASE PreparePatch(e.target, e.base, e.draft) # "ready"
    BY <1>2, <1>5, <2>2 DEF ApplyRechecks, Answers
  <2> QED
    BY <2>1, <2>2
<1>6. CASE ApplyRenames(e)
  <2>1. e.target \in Configurable /\ e.new \subseteq Items
    BY <1>1 DEF Applies
  <2> DEFINE n == [content |-> e.new, rev |-> disk[e.target].rev + 1]
  <2>2. disk[e.target].rev \in Nat
    BY <2>1 DEF ViewInv, ViewTypeOK
  <2>3. n \in [content : SUBSET Items, rev : Nat] /\ disk[e.target].rev < n.rev
    <3>1. PICK k \in Nat : k = disk[e.target].rev + 1 /\ disk[e.target].rev < k
      BY ONLY <2>2
    <3>2. n = [content |-> e.new, rev |-> k]
      BY <3>1
    <3> HIDE DEF n
    <3> QED
      BY <2>1, <3>1, <3>2
  <2>4. disk' = [disk EXCEPT ![e.target] = n]
    BY <1>6 DEF ApplyRenames
  <2>5. Advances
    <3> HIDE DEF n
    <3> QED
      BY <2>1, <2>3, <2>4, Zenon DEF Advances, ViewInv, ViewTypeOK
  <2> QED
    BY <1>1, <1>6, <2>5, AppliesLast, ExecutionPreserves DEF ApplyRenames, Answers
<1>7. CASE ApplyLost(e)
  <2> DEFINE f == [e EXCEPT !.heard = FALSE]
  <2>1. f \in Applies
    BY <1>1, Zenon DEF Applies
  <2>2. /\ f.target = e.target /\ f.base = e.base /\ f.draft = e.draft
        /\ f.reviewed = e.reviewed /\ f.stage = e.stage /\ f.new = e.new
    BY <1>1 DEF Applies
  <2>3. f.stage = "renaming" => f.new = f.reviewed
    BY <2>2 DEF ViewInv, AppliesInv
  <2>4. applies' = (applies \ {e}) \cup {f} /\ UNCHANGED disk /\ Reply(e, "unknown")
    BY <1>7 DEF ApplyLost
  <2> HIDE DEF f
  <2>5. applies' \subseteq Applies /\ AppliesInv'
    BY <2>1, <2>2, <2>3, <2>4, AppliesMove
  <2> QED
    BY <1>1, <2>4, <2>5, DiskStays, ExecutionPreserves DEF Answers
<1> QED
  BY <1>3, <1>4, <1>5, <1>6, <1>7

LEMMA FileChangesPreserves ==
    ASSUME ViewInv, NEW t \in Configurable, FileChanges(t)
    PROVE  ViewInv'
<1>1. PICK i \in Items :
         disk' = [disk EXCEPT ![t] = [content |-> Toggled(disk[t].content, {i}),
                                      rev |-> disk[t].rev + 1]]
  BY Zenon DEF FileChanges, ViewInv, ViewTypeOK
<1>2. disk[t].content \subseteq Items /\ disk[t].rev \in Nat
  BY DEF ViewInv, ViewTypeOK
<1>3. Toggled(disk[t].content, {i}) \subseteq Items
  BY <1>2 DEF Toggled
<1> DEFINE n == [content |-> Toggled(disk[t].content, {i}), rev |-> disk[t].rev + 1]
<1>4. n \in [content : SUBSET Items, rev : Nat] /\ disk[t].rev < n.rev
  <2>1. PICK k \in Nat : k = disk[t].rev + 1 /\ disk[t].rev < k
    BY ONLY <1>2
  <2>2. n = [content |-> Toggled(disk[t].content, {i}), rev |-> k]
    BY <2>1
  <2> HIDE DEF n
  <2> QED
    BY <1>3, <2>1, <2>2, Zenon
<1>5. disk' = [disk EXCEPT ![t] = n] /\ UNCHANGED <<view, queries, inspection, preview, applies, inbox>>
  BY <1>1, Zenon DEF FileChanges
<1> HIDE DEF n
<1>6. Advances
  BY <1>4, <1>5 DEF Advances, ViewInv, ViewTypeOK
<1>7. applies' \subseteq Applies /\ AppliesInv'
  BY <1>5, <1>6, AppliesLast
<1>8. inbox' \in Seq(Events) /\ Len(inbox) \in Nat
  BY <1>5 DEF ViewInv, ViewTypeOK
<1>9. Len(inbox) <= Len(inbox')
  BY <1>5, <1>8, Reflexive, Zenon
<1> QED
  BY <1>5, <1>6, <1>7, <1>8, <1>9, TaskPreserves, Zenon

LEMMA ViewInitially == ViewInit => ViewInv
<1> SUFFICES ASSUME ViewInit PROVE ViewInv
  OBVIOUS
<1>1. ViewTypeOK
  <2>1. disk \in [Configurable -> [content : SUBSET Items, rev : Nat]]
    BY DEF ViewInit
  <2>2. inbox \in Seq(Events) /\ queries \in Nat
    BY DEF ViewInit
  <2> QED
    BY <2>1, <2>2, Zenon DEF ViewInit, ViewTypeOK, OpenView
<1>2. AppliesInv /\ ShownInv
  BY Zenon DEF ViewInit, AppliesInv, ShownInv, OpenView
<1>3. inbox = <<>> /\ inspection = {}
  BY DEF ViewInit
<1>4. QueriesInv /\ OrderInv /\ PreviewsInv
  <2>1. 1..Len(inbox) = {}
    BY <1>3
  <2> QED
    BY <1>3, <2>1, Zenon DEF QueriesInv, OrderInv, PreviewsInv
<1> QED
  BY <1>1, <1>2, <1>4 DEF ViewInv

\* ViewInv holds of every history of views opened, edited, closed and saved,
\* of the tasks they start and of writes by other programs, with any number
\* of targets and items and an event channel of any capacity.
THEOREM ViewInvariant == ViewSpec => []ViewInv
<1>1. ViewInv /\ [ViewNext]_configurationVars => ViewInv'
  <2> SUFFICES ASSUME ViewInv, [ViewNext]_configurationVars PROVE ViewInv'
    OBVIOUS
  <2>1. ASSUME NEW t \in Configurable, OpenConfiguration(t) PROVE ViewInv'
    BY <2>1, NewViewType, RefreshPreserves DEF OpenConfiguration, Shrinks
  <2>2. CASE UNCHANGED configurationVars
    BY <2>2, SkipPreserves DEF configurationVars, Shrinks
  <2> QED
    BY Zenon, <2>1, <2>2, FileChangesPreserves, ToggleItemPreserves, AnswerPreserves, SavePreserves,
       InspectionReturnsPreserves, PreviewReturnsPreserves, ApplyPreserves,
       DeliverEventPreserves DEF ViewNext
<1> QED
  BY <1>1, ViewInitially, PTL DEF ViewSpec

\* What an apply installs is the document its user reviewed, and one revision
\* is never replaced twice (finish_preview, the Ctrl-S guard, the preparation
\* repeated under the locks).
THEOREM SavesAreReviewed == ViewSpec => []SavedIsReviewed
<1>1. ViewInv => SavedIsReviewed
  BY DEF ViewInv, AppliesInv, SavedIsReviewed
<1> QED
  BY <1>1, ViewInvariant, PTL

===============================================================================
