----------------------------- MODULE LockedWriter -----------------------------
(***************************************************************************)
(* One settings file, its sidecar lock file, and the Lasper processes that *)
(* write, remove and clean them up: the .nspawn store and editor, which    *)
(* also take the machine's settings lock, and the service override store,  *)
(* which relies on the sidecar lock alone.                                 *)
(*                                                                         *)
(* A lock is held on an inode, not on a path.  The path of the sidecar     *)
(* names an inode or nothing; a process keeps the inode it opened.  Editors*)
(* outside Lasper take no lock and are left out.                           *)
(***************************************************************************)
EXTENDS Naturals, FiniteSets

CONSTANTS
    Processes,      \* Lasper processes and daemons on one host
    Kinds           \* which files: a subset of {"nspawn", "override"}
ASSUME ProcessesAssumption == IsFiniteSet(Processes) /\ Kinds \subseteq {"nspawn", "override"}

\* NspawnConfigOperation and the editor's Apply; SystemdUnitOperation.
Operations(k) == IF k = "nspawn" THEN {"write", "update", "edit", "remove", "cleanup"}
                 ELSE {"write", "clone", "remove", "cleanup"}
AllOperations == {"write", "clone", "update", "edit", "remove", "cleanup"}

Absent == {}                    \* the content of a file that is not there
Foreign == {"foreign"}
Created == {"lasper"}
NoInode == 0
Inodes == 1..(Cardinality(Processes) + 1)

VARIABLES
    kind,       \* which of the two files this is
    file,       \* its content, a set of features
    sidecar,    \* the inode the lock path names
    settings,   \* the process holding the machine's settings lock, or {}
    op, at,     \* each process: its operation and its next step
    inode,      \* the sidecar inode it has open
    holds,      \* whether it has that inode locked
    seen,       \* the content it probed or inspected before locking
    found       \* the content it read under the lock
lockVars == <<kind, file, sidecar, settings, op, at, inode, holds, seen, found>>

Steps == {"idle", "settings", "probe", "inspect", "stat", "unlink", "unlinkLock", "open",
          "lock", "check", "restat", "read", "persist"}
Contents == SUBSET {"foreign", "lasper", "gpu", "display"}

LockTypeOK ==
    /\ kind \in Kinds
    /\ file \in Contents
    /\ sidecar \in Inodes \cup {NoInode}
    /\ settings \subseteq Processes
    /\ op \in [Processes -> AllOperations]
    /\ at \in [Processes -> Steps]
    /\ inode \in [Processes -> Inodes \cup {NoInode}]
    /\ holds \in [Processes -> BOOLEAN]
    /\ seen \in [Processes -> Contents] /\ found \in [Processes -> Contents]

LockInit ==
    /\ kind \in Kinds
    /\ file \in {Absent, Foreign, Created}
    /\ sidecar = NoInode
    /\ settings = {}
    /\ op = [p \in Processes |-> "write"]
    /\ at = [p \in Processes |-> "idle"]
    /\ inode = [p \in Processes |-> NoInode]
    /\ holds = [p \in Processes |-> FALSE]
    /\ seen = [p \in Processes |-> Absent]
    /\ found = [p \in Processes |-> Absent]

\* What an operation does once it may start.
Entry(o) ==
    CASE o \in {"write", "update"} /\ kind = "nspawn" -> "open"
      [] o \in {"write", "clone"} /\ kind = "override" -> "probe"
      [] o = "edit" -> "inspect"
      [] o = "remove" -> "unlink"
      [] o = "cleanup" -> IF kind = "nspawn" THEN "stat" ELSE "probe"

GoTo(p, step) == at' = [at EXCEPT ![p] = step]

\* Returning or failing drops the file handles and with them every lock.
Leave(p) ==
    /\ at' = [at EXCEPT ![p] = "idle"]
    /\ inode' = [inode EXCEPT ![p] = NoInode]
    /\ holds' = [holds EXCEPT ![p] = FALSE]
    /\ seen' = [seen EXCEPT ![p] = Absent]
    /\ found' = [found EXCEPT ![p] = Absent]
    /\ settings' = settings \ {p}
    /\ op' = [op EXCEPT ![p] = "write"]

\* settings_machine: every .nspawn mutation but the sidecar cleanup.
NeedsSettings_NotRemove(o) == kind = "nspawn" /\ o \notin {"cleanup", "remove"}
NeedsSettings(o) == kind = "nspawn" /\ o # "cleanup"

Begin(p, o) ==
    /\ at[p] = "idle"
    /\ o \in Operations(kind)
    /\ op' = [op EXCEPT ![p] = o]
    /\ GoTo(p, IF NeedsSettings(o) THEN "settings" ELSE Entry(o))
    /\ UNCHANGED <<kind, file, sidecar, settings, inode, holds, seen, found>>

\* settings_lock::acquire: the lock file is never removed, so its path and
\* its inode are one thing.
TakeSettings(p) ==
    /\ at[p] = "settings"
    /\ settings = {}
    /\ settings' = {p}
    /\ GoTo(p, Entry(op[p]))
    /\ UNCHANGED <<kind, file, sidecar, op, inode, holds, seen, found>>

\* wait_for_lock_retry: either lock is given up after its deadline.
TimesOut(p) ==
    /\ \/ at[p] = "settings" /\ settings # {}
       \/ at[p] = "lock" /\ \E q \in Processes : holds[q] /\ inode[q] = inode[p]
       \/ at[p] = "check" /\ sidecar # inode[p]
    /\ Leave(p)
    /\ UNCHANGED <<kind, file, sidecar>>

-----------------------------------------------------------------------------
(* What happens before the sidecar lock is taken.                          *)

\* probe_owned_override_at: a foreign override is left alone, a proven one
\* is replaced by a write and removed by the cleanup of owned overrides, and
\* for an absent one the cleanup only looks at the sidecar.
Probe(p) ==
    /\ at[p] = "probe"
    /\ UNCHANGED <<kind, file, sidecar>>
    /\ \/ file = Foreign /\ Leave(p)
       \/ /\ file # Foreign
          /\ seen' = [seen EXCEPT ![p] = file]
          /\ GoTo(p, IF op[p] = "cleanup" /\ file # Absent THEN "unlink" ELSE "open")
          /\ UNCHANGED <<settings, op, inode, holds, found>>

\* The first inspection of an edit: it is prepared against this revision.
Inspect(p) ==
    /\ at[p] = "inspect"
    /\ UNCHANGED <<kind, file, sidecar>>
    /\ \/ file = Absent /\ Leave(p)
       \/ /\ file # Absent
          /\ seen' = [seen EXCEPT ![p] = file]
          /\ GoTo(p, "open")
          /\ UNCHANGED <<settings, op, inode, holds, found>>

\* cleanup_sidecar_locks_at skips a file that is there.
Stat(p) ==
    /\ at[p] = "stat"
    /\ UNCHANGED <<kind, file, sidecar>>
    /\ \/ file # Absent /\ Leave(p)
       \/ file = Absent /\ GoTo(p, "open") /\ UNCHANGED <<settings, op, inode, holds, seen, found>>

\* remove_config_at, remove_service_override_at and the removal of a proven
\* override: the file, then the sidecar by its path, without taking its lock.
Unlink(p) ==
    /\ at[p] = "unlink"
    /\ file' = Absent
    /\ GoTo(p, "unlinkLock")
    /\ UNCHANGED <<kind, sidecar, settings, op, inode, holds, seen, found>>
UnlinkLock(p) ==
    /\ at[p] = "unlinkLock"
    /\ sidecar' = NoInode
    /\ Leave(p)
    /\ UNCHANGED <<kind, file>>

-----------------------------------------------------------------------------
(* acquire_stable_lock: open, lock the inode, check the path still names it.*)

Creates(o) == o \in {"write", "clone", "update", "edit"}
FreshInode == CHOOSE i \in Inodes : i # sidecar /\ \A q \in Processes : inode[q] # i

Open(p) ==
    /\ at[p] = "open"
    /\ UNCHANGED <<kind, file>>
    /\ \/ /\ sidecar # NoInode \/ Creates(op[p])
          /\ sidecar' = IF sidecar = NoInode THEN FreshInode ELSE sidecar
          /\ inode' = [inode EXCEPT ![p] = sidecar']
          /\ GoTo(p, "lock")
          /\ UNCHANGED <<settings, op, holds, seen, found>>
       \/ /\ sidecar = NoInode /\ ~Creates(op[p])
          /\ Leave(p)
          /\ UNCHANGED sidecar

TryLock(p) ==
    /\ at[p] = "lock"
    /\ \A q \in Processes : ~(holds[q] /\ inode[q] = inode[p])
    /\ holds' = [holds EXCEPT ![p] = TRUE]
    /\ GoTo(p, "check")
    /\ UNCHANGED <<kind, file, sidecar, settings, op, inode, seen, found>>

InodeIsCurrent(p) == sidecar = inode[p]

CheckInode(p) ==
    /\ at[p] = "check"
    /\ UNCHANGED <<kind, file, sidecar, settings, op, seen, found>>
    /\ IF InodeIsCurrent(p)
       THEN GoTo(p, IF Creates(op[p]) THEN "read" ELSE "restat") /\ UNCHANGED <<inode, holds>>
       ELSE /\ inode' = [inode EXCEPT ![p] = NoInode]
            /\ holds' = [holds EXCEPT ![p] = FALSE]
            /\ GoTo(p, "open")

\* remove_lock_if_target_absent, under the lock; the removal goes by path
\* and fails when the path is gone.
Restat(p) ==
    /\ at[p] = "restat"
    /\ UNCHANGED <<kind, file, sidecar>>
    /\ \/ file # Absent /\ Leave(p)
       \/ file = Absent /\ GoTo(p, "unlinkLock") /\ UNCHANGED <<settings, op, inode, holds, seen, found>>

-----------------------------------------------------------------------------
(* apply_locked_inner: read, generate, replace by rename.                  *)

\* What the generator makes of the content found: the new content, or the
\* same when it keeps the file or refuses.
Cloned == {"lasper", "gpu"}
NewContent(o) == IF o = "clone" THEN Cloned ELSE Created
Generated(p, existing) ==
    CASE op[p] \in {"write", "clone"} ->     \* apply_new_content_at, apply_new_override_at
            IF existing = Absent \/ (kind = "override" /\ seen[p] # Absent /\ existing # Foreign)
            THEN NewContent(op[p]) ELSE existing
      [] op[p] = "update" ->                 \* update_gpu_at
            IF existing = Absent THEN existing ELSE existing \cup {"gpu"}
      [] op[p] = "edit" ->                   \* apply_with_sources
            CASE existing # seen[p] -> existing
              [] existing = seen[p] /\ "display" \in existing -> existing \ {"display"}
              [] OTHER -> existing \cup {"display"}

ReadExisting(p) ==
    /\ at[p] = "read"
    /\ UNCHANGED <<kind, file, sidecar>>
    /\ \/ Generated(p, file) = file /\ Leave(p)
       \/ /\ Generated(p, file) # file
          /\ found' = [found EXCEPT ![p] = file]
          /\ GoTo(p, "persist")
          /\ UNCHANGED <<settings, op, inode, holds, seen>>

\* persist_atomic: the rename installs what was generated, or fails.
Persist(p) ==
    /\ at[p] = "persist"
    /\ file' \in {Generated(p, found[p]), file}
    /\ Leave(p)
    /\ UNCHANGED <<kind, sidecar>>

\* A killed process loses its locks and leaves the paths as they are.
Dies(p) ==
    /\ at[p] # "idle"
    /\ Leave(p)
    /\ UNCHANGED <<kind, file, sidecar>>

Step(p) ==
    \/ TakeSettings(p) \/ TimesOut(p) \/ Probe(p) \/ Inspect(p) \/ Stat(p) \/ Unlink(p)
    \/ UnlinkLock(p) \/ Open(p) \/ TryLock(p) \/ CheckInode(p) \/ Restat(p)
    \/ ReadExisting(p) \/ Persist(p) \/ Dies(p)

LockNext ==
    \E p \in Processes : (\E o \in AllOperations : Begin(p, o)) \/ Step(p)
LockSpec == LockInit /\ [][LockNext]_lockVars

-----------------------------------------------------------------------------
\* No Lasper writer of a .nspawn file replaces content it has not read:
\* between the read under the locks and the rename the file stays what the
\* generator was given (apply_locked_inner), although removals and cleanups
\* unlink the sidecar and others create it again.
NoLostUpdate ==
    \A p \in Processes : kind = "nspawn" /\ at[p] = "persist" => file = found[p]

\* "a writer queued on an unlinked inode retries on the replacement instead
\* of entering a split critical section": at most one process is between
\* the check of its inode and the release of its lock.
OneLockHolder ==
    \A p, q \in Processes :
        at[p] \in {"read", "persist"} /\ at[q] \in {"read", "persist"} => p = q
=============================================================================
