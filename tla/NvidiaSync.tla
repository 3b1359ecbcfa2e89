----------------------------- MODULE NvidiaSync -----------------------------
(***************************************************************************)
(* ensure_gpu_passthrough, which runs before a machine with NVIDIA         *)
(* passthrough is started: it compares what the host offers now with the   *)
(* state file of the last pass, and brings four places in line, one after  *)
(* the other: the mount points left in the root file system, the managed   *)
(* block of the .nspawn file, the state file, and the DeviceAllow drop-in. *)
(* Any step can fail or be the last one before a crash, the driver of the  *)
(* host can change, and the administrator edits the .nspawn file at will.  *)
(***************************************************************************)
EXTENDS Integers, FiniteSets

CONSTANTS
    Destinations,       \* paths in the container
    Versions,           \* what the host may offer; 0 is a failing discovery
    Scan(_),            \* the binds that a version is assembled into
    AdminBinds,         \* binds the administrator may write by hand
    MaxEdits            \* bound: edits by the administrator
\* A discovery without a bind is an error.
ASSUME ScanAssumption == 0 \notin Versions /\ \A v \in Versions : Scan(v) # {}

VARIABLES
    host,               \* the version on the host, or 0
    nspawn,             \* [enabled, marks, block, loose]; marks = "removed": no machine
    state,              \* the state file: [kind, binds]
    allowed,            \* the devices of the DeviceAllow drop-in
    files,              \* what is at each destination in the root file system
    pass,               \* the pass that is running: [pc, seen, old, scan, result]
    up,                 \* the machine runs
    edits,
    touched,            \* an edit came after the pass had read or written the file
    passedOver          \* destinations whose clean-up did not work
nvidiaVars == <<host, nspawn, state, allowed, files, pass, up, edits, touched, passedOver>>

\* A bind is <<destination, source, read-write>>.
Dests(binds) == {b[1] : b \in binds}
Devices(binds) == {b[2] : b \in {b \in binds : b[3]}}

NoStateFile == [kind |-> "absent", binds |-> {}]
Owned(binds) == [kind |-> "owned", binds |-> binds]
NoPass == [pc |-> "idle", seen |-> [enabled |-> FALSE, marks |-> "none", block |-> {}, loose |-> {}],
           old |-> NoStateFile, scan |-> {}, result |-> "none"]
Deployed(v) == [enabled |-> TRUE, marks |-> "whole", block |-> Scan(v), loose |-> {}]

\* A machine as Lasper deployed it, or with the state file of an older release
\* (the present fields without the ownership marker, or the legacy fields that
\* migrate_from_legacy turns into binds), or of somebody else.
NvidiaInit ==
    /\ \E v \in Versions :
        /\ host = v /\ nspawn = Deployed(v) /\ allowed = Devices(Scan(v))
        /\ state \in {Owned(Scan(v)), [kind |-> "foreign", binds |-> {}]}
             \cup [kind : {"unmarked", "legacy"}, binds : {Scan(v)}]
    /\ files \in [Destinations -> {"absent", "content"}]
    /\ pass = NoPass /\ up = FALSE /\ edits = 0 /\ touched = FALSE /\ passedOver = {}

-----------------------------------------------------------------------------
(* The pieces of a pass.                                                   *)

\* same_payload looks at every field but the ownership marker: the legacy
\* fields of an old file are among them, so that one never compares equal.
SamePayload(s, scan) == s.kind \in {"owned", "unmarked"} /\ s.binds = scan
\* marker_binds_match_state: one complete block with exactly these binds.
MarkerBindsMatch(file, scan) == file.marks = "whole" /\ file.block = scan
\* calculate_death_list and calculate_removed_binds.
DeathList(old, scan) == Dests(old.binds) \ Dests(scan)
RemovedBinds(old, scan) == old.binds \ scan

\* apply_gpu_passthrough_to_content: purge_nvidia_block refuses half a block;
\* complete duplicates go, and any other bind at a managed path is a conflict.
Duplicates(old, scan) == scan \cup RemovedBinds(old, scan)
Refuses(file, old, scan) ==
    \/ file.marks = "broken"
    \/ \E b \in file.loose \ Duplicates(old, scan) : b[1] \in Dests(scan)
Applied(file, old, scan) ==
    [file EXCEPT !.marks = IF scan = {} THEN "none" ELSE "whole", !.block = scan,
                 !.loose = @ \ Duplicates(old, scan)]

PassAt(pc) == pass.pc = pc
PassGoes(pc) == pass' = [pass EXCEPT !.pc = pc]
PassEnds(r) == pass' = [pass EXCEPT !.pc = "idle", !.result = r]
Fails == PassEnds("error")
World == <<host, edits, up>>

\* The order in which the four places are brought in line.
After_StateFirst(step) ==
    [check |-> "persist", persist |-> "cleanup", cleanup |-> "update", update |-> "allow"][step]
After(step) ==
    [check |-> "cleanup", cleanup |-> "update", update |-> "persist", persist |-> "allow"][step]

-----------------------------------------------------------------------------
\* Read the .nspawn file and the state file; a foreign one is an error.  A
\* process that may not read the state file skips the pass.
Begin ==
    /\ PassAt("idle") /\ ~up /\ nspawn.marks # "removed"
    /\ touched' = FALSE
    /\ \/ pass' = [NoPass EXCEPT
                     !.seen = nspawn, !.old = state,
                     !.pc = IF nspawn.enabled /\ state.kind # "foreign" THEN "discover" ELSE "idle",
                     !.result = CASE ~nspawn.enabled -> "not configured"
                                  [] nspawn.enabled /\ state.kind = "foreign" -> "error"
                                  [] OTHER -> "none"]
       \/ nspawn.enabled /\ pass' = [NoPass EXCEPT !.result = "skipped"]
    /\ UNCHANGED <<nspawn, state, allowed, files, passedOver, World>>

FastPath(old, seen, scan) == SamePayload(old, scan) /\ MarkerBindsMatch(seen, scan)
Discover ==
    /\ PassAt("discover")
    /\ IF host = 0 THEN Fails
       ELSE LET scan == Scan(host) IN
            pass' = [pass EXCEPT
                       !.scan = scan,
                       !.result = IF ~FastPath(pass.old, pass.seen, scan)
                                     /\ Refuses(pass.seen, pass.old, scan)
                                  THEN "error" ELSE @,
                       !.pc = CASE FastPath(pass.old, pass.seen, scan) -> "allow"
                                [] OTHER -> IF Refuses(pass.seen, pass.old, scan)
                                            THEN "idle" ELSE After("check")]
    /\ UNCHANGED <<nspawn, state, allowed, files, touched, passedOver, World>>

\* rootfs.cleanup_nvidia removes the empty files of the death list.  A batch
\* that fails is a warning; a raw image has no directory to look into.
Stale == {d \in DeathList(pass.old, pass.scan) : files[d] \in {"mountpoint", "unmanaged"}}
Cleanup ==
    /\ PassAt("cleanup")
    /\ \E gone \in SUBSET Stale :
        /\ files' = [d \in Destinations |-> IF d \in gone THEN "absent" ELSE files[d]]
        /\ \/ PassGoes(After("cleanup")) /\ passedOver' = passedOver \cup (Stale \ gone)
           \/ gone # Stale /\ Fails /\ UNCHANGED passedOver
    /\ UNCHANGED <<nspawn, state, allowed, touched, World>>

\* nspawn.update_gpu repeats the check on the file it has locked.
Update ==
    /\ PassAt("update")
    /\ \/ /\ ~Refuses(nspawn, pass.old, pass.scan)
          /\ nspawn' = Applied(nspawn, pass.old, pass.scan)
          /\ touched' = FALSE /\ PassGoes(After("update"))
       \/ Fails /\ UNCHANGED <<nspawn, touched>>
    /\ UNCHANGED <<state, allowed, files, passedOver, World>>

\* state_store.write.
Persist ==
    /\ PassAt("persist")
    /\ \/ state' = Owned(pass.scan) /\ PassGoes(After("persist"))
       \/ Fails /\ UNCHANGED state
    /\ UNCHANGED <<nspawn, allowed, files, touched, passedOver, World>>

\* inject_persistent_device_allow: the last step of both paths.
Allow ==
    /\ PassAt("allow")
    /\ \/ allowed' = Devices(pass.scan) /\ PassEnds("synchronized")
       \/ Fails /\ UNCHANGED allowed
    /\ UNCHANGED <<nspawn, state, files, touched, passedOver, World>>

Crash ==
    /\ ~PassAt("idle") /\ pass' = NoPass
    /\ UNCHANGED <<nspawn, state, allowed, files, touched, passedOver, World>>

-----------------------------------------------------------------------------
(* What happens around it.                                                 *)

\* systemd-nspawn creates what a bind needs to be mounted on.  With the
\* passthrough turned off, or the pass skipped, nobody keeps account of that.
Start ==
    /\ PassAt("idle") /\ ~up /\ nspawn.marks # "removed"
    /\ pass.result \in {"synchronized", "not configured", "skipped"}
    /\ up' = TRUE /\ pass' = NoPass
    /\ files' = [d \in Destinations |->
                   IF d \in Dests(nspawn.block) /\ files[d] = "absent"
                   THEN IF pass.result = "synchronized" THEN "mountpoint" ELSE "unmanaged"
                   ELSE files[d]]
    /\ UNCHANGED <<host, nspawn, state, allowed, edits, touched, passedOver>>
Stop ==
    /\ up /\ up' = FALSE
    /\ UNCHANGED <<host, nspawn, state, allowed, files, pass, edits, touched, passedOver>>

HostChanges ==
    /\ host' \in Versions \cup {0} /\ host' # host
    /\ UNCHANGED <<nspawn, state, allowed, files, pass, up, edits, touched, passedOver>>

\* The administrator adds or drops a bind of their own, takes one out of the
\* managed block, removes a marker, or turns the passthrough on and off.
Edited(file) ==
    {[file EXCEPT !.loose = @ \cup {b}] : b \in AdminBinds}
        \cup {[file EXCEPT !.loose = @ \ {b}] : b \in AdminBinds}
        \cup {[file EXCEPT !.block = @ \ {b}] : b \in file.block}
        \cup {[file EXCEPT !.marks = IF @ = "whole" THEN "broken" ELSE @],
              [file EXCEPT !.marks = "none", !.block = {}], [file EXCEPT !.enabled = ~@]}
AdminEdits ==
    /\ nspawn.marks # "removed" /\ edits < MaxEdits /\ edits' = edits + 1 /\ touched' = TRUE
    /\ nspawn' \in Edited(nspawn) \ {nspawn}
    /\ UNCHANGED <<host, state, allowed, files, pass, up, passedOver>>

\* remove_owned_state and write_initial_state, when the machine is removed and
\* deployed again: a file of unknown owner is neither removed nor replaced.
ProbeOwned(s) ==
    CASE s.kind = "absent" -> "not present" [] s.kind = "owned" -> "proven" [] OTHER -> "ambiguous"
RemoveMachine ==
    /\ PassAt("idle") /\ ~up /\ nspawn.marks # "removed"
    /\ state' = IF ProbeOwned(state) = "proven" THEN NoStateFile ELSE state
    /\ nspawn' = [enabled |-> FALSE, marks |-> "removed", block |-> {}, loose |-> {}]
    /\ allowed' = {} /\ files' = [d \in Destinations |-> "absent"] /\ pass' = NoPass
    /\ passedOver' = {} /\ UNCHANGED <<host, up, edits, touched>>
DeployMachine ==
    /\ PassAt("idle") /\ ~up /\ host # 0 /\ nspawn.marks = "removed"
    /\ ProbeOwned(state) # "ambiguous"
    /\ state' = Owned(Scan(host)) /\ nspawn' = Deployed(host)
    /\ allowed' = Devices(Scan(host)) /\ pass' = NoPass
    /\ UNCHANGED <<host, files, up, edits, touched, passedOver>>

NvidiaNext ==
    \/ Begin \/ Discover \/ Cleanup \/ Update \/ Persist \/ Allow \/ Crash
    \/ Start \/ Stop \/ HostChanges \/ AdminEdits \/ RemoveMachine \/ DeployMachine
NvidiaSpec == NvidiaInit /\ [][NvidiaNext]_nvidiaVars

-----------------------------------------------------------------------------
(* A pass that says "synchronized" leaves a state file that names exactly  *)
(* the binds it scanned, and is marked as Lasper's own unless the pass     *)
(* found that very file without the marker and had nothing to change; the  *)
(* DeviceAllow rules are as scanned, and the .nspawn file too unless       *)
(* somebody has edited it since the pass read or wrote it.  Whatever was   *)
(* interrupted before, a mount point that Lasper's binds created is named  *)
(* by the state file, so that a later pass will remove it: only those      *)
(* whose clean-up did not work are forgotten.                              *)
SyncIsComplete ==
    /\ pass.result = "synchronized" =>
         /\ SamePayload(state, pass.scan) /\ (state.kind = "owned" \/ state = pass.old)
         /\ allowed = Devices(pass.scan)
         /\ touched \/ MarkerBindsMatch(nspawn, pass.scan)
    /\ \A d \in Destinations :
         files[d] = "mountpoint" /\ state.kind # "foreign" =>
             d \in Dests(state.binds) \cup passedOver
=============================================================================
