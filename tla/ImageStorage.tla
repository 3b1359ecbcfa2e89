---------------------------- MODULE ImageStorage -----------------------------
(***************************************************************************)
(* The disk images of machines: creating a raw image, importing one,       *)
(* mounting an image with systemd-dissect or through a loop device, and    *)
(* unmounting it.  Every step is a command of its own with a deadline: it  *)
(* succeeds, fails without effect, or is cut off with the effect done or   *)
(* not.  The operation keeps the names of the steps it cannot account for: *)
(* an effect that is not known, or one that could not be taken back.       *)
(* Callers hold the lease of the machine, so operations follow each other  *)
(* and find what the one before left behind.                               *)
(***************************************************************************)
EXTENDS Integers, Sequences, SequencesExt, FiniteSets

CONSTANTS
    MaxPartitions,      \* bound on the partitions of an image
    MaxLoops            \* bound on the loop devices attached

VARIABLES
    image,      \* the file: "absent", "foreign", "partial" or "complete"
    table,      \* the partition table: the label and the type of each partition
    loops,      \* the loop devices attached to the file
    orphans,    \* loop devices attached to a file that was removed
    mounted,    \* what is mounted: a partition, 0 for the whole image
    mountDir,   \* whether the mount point exists
    task        \* the operation that runs: its arguments, position and result
imageVars == <<image, table, loops, orphans, mounted, mountDir, task>>

Nothing == -2           \* mounted
Dissected == -1         \* mounted the way systemd-nspawn would
NoTable == [label |-> "none", parts |-> <<>>]
Tables ==
    {NoTable} \cup
    [label : {"gpt", "dos"}, parts : UNION {[1 .. n -> {"root", "other"}] : n \in 0 .. MaxPartitions}]

NoTask == [kind |-> "none", source |-> "managed", selected |-> 0, device |-> 0,
         pc |-> "idle", result |-> "none", failed |-> {},
         found |-> [image |-> "absent", loops |-> 0, mounted |-> Nothing, table |-> NoTable]]

ImageInit ==
    /\ image \in {"absent", "foreign"} /\ table \in Tables
    /\ (image = "absent" => table = NoTable)
    /\ loops = 0 /\ orphans = 0 /\ mounted = Nothing /\ mountDir = FALSE
    /\ task = NoTask

-----------------------------------------------------------------------------
At(kind, pc) == task.kind = kind /\ task.pc = pc
TaskGoto(pc) == task' = [task EXCEPT !.pc = pc]
TaskAnswer(r) == task' = [task EXCEPT !.pc = "idle", !.result = r]
\* The same, after a step that cannot be accounted for.
AnswerLosing(step) ==
    task' = [task EXCEPT !.pc = "idle", !.result = "error", !.failed = @ \cup {step}]
GotoLosing(pc, step) == task' = [task EXCEPT !.pc = pc, !.failed = @ \cup {step}]

BeginTask(kind, source, selected) ==
    /\ task.pc = "idle"
    /\ task' = [NoTask EXCEPT !.kind = kind, !.source = source, !.selected = selected, !.pc = "start",
                         !.found = [image |-> image, loops |-> loops + orphans,
                                    mounted |-> mounted, table |-> table]]
    /\ UNCHANGED <<image, table, loops, orphans, mounted, mountDir>>

\* resolve_root_partition: <<>> is an error, 0 the whole image.
Roots(t) == {i \in DOMAIN t.parts : t.parts[i] = "root"}
Resolve(t, selected) ==
    CASE t = NoTable -> IF selected = 0 THEN <<0>> ELSE <<>>
      [] t # NoTable /\ (t.parts = <<>> \/ selected > Len(t.parts)) -> <<>>
      [] t # NoTable /\ Len(t.parts) = 1 -> <<1>>
      [] selected = 0 /\ Len(t.parts) > 1 ->
           IF Cardinality(Roots(t)) = 1 THEN SetToSeq(Roots(t)) ELSE <<>>
      [] OTHER -> IF t.label = "gpt" /\ Roots(t) \in {{}, {selected}} THEN <<selected>> ELSE <<>>
MarksSelected(t, selected) == Len(t.parts) > 1 /\ Roots(t) = {}

-----------------------------------------------------------------------------
(* create_raw_image and import_raw_image.                                  *)

\* reserve_raw_image: exclusive creation, so that a foreign file is refused.  A
\* file that was created and cannot be synced is left where it is.
Reserve ==
    /\ task.kind \in {"create", "partition", "import"} /\ task.pc = "start"
    /\ \/ image = "absent" /\ image' = "partial" /\ TaskGoto("fill")
       \/ image = "absent" /\ image' = "partial" /\ AnswerLosing("reserve")
       \/ TaskAnswer("error") /\ UNCHANGED image
    /\ UNCHANGED <<table, loops, orphans, mounted, mountDir>>

\* set_len and mkfs of the whole file, or the copy of the source.
Fill ==
    /\ task.kind \in {"create", "import"} /\ task.pc = "fill"
    /\ \/ /\ image' = "complete" /\ TaskGoto(IF task.kind = "import" THEN "validate" ELSE "ok")
          /\ table' \in IF task.kind = "import" THEN Tables ELSE {NoTable}
       \/ TaskGoto("remove") /\ UNCHANGED <<image, table>>
    /\ UNCHANGED <<loops, orphans, mounted, mountDir>>
ValidateImport ==
    /\ At("import", "validate") /\ (TaskGoto("ok") \/ TaskGoto("remove"))
    /\ UNCHANGED <<image, table, loops, orphans, mounted, mountDir>>

\* format_partitioned_image: sfdisk, losetup, udevadm and mkfs, losetup -d.
WriteTable ==
    /\ At("partition", "fill")
    /\ \/ table' = [label |-> "gpt", parts |-> <<"root">>] /\ TaskGoto("attach")
       \/ TaskGoto("remove") /\ UNCHANGED table
    /\ UNCHANGED <<image, loops, orphans, mounted, mountDir>>

\* attach_loop, for a new image and for the fallback of a mount.  When losetup
\* is cut off, or what it printed is not a loop device, nobody knows the device.
AfterFailure == IF task.kind = "mount" THEN "rmdir" ELSE "remove"
AttachLoop ==
    /\ task.kind \in {"partition", "mount"} /\ task.pc = "attach" /\ loops + orphans < MaxLoops
    /\ \/ TaskGoto("settle") /\ loops' = loops + 1
       \/ TaskGoto(AfterFailure) /\ UNCHANGED loops
       \/ GotoLosing(AfterFailure, "attach") /\ loops' \in {loops, loops + 1}
    /\ UNCHANGED <<image, table, orphans, mounted, mountDir>>
Settle ==
    /\ task.kind \in {"partition", "mount"} /\ task.pc = "settle"
    /\ \/ TaskGoto(IF task.kind = "mount" THEN "device" ELSE "format")
       \/ TaskGoto("detach")
    /\ UNCHANGED <<image, table, loops, orphans, mounted, mountDir>>
FormatPartition ==
    /\ At("partition", "format")
    /\ \/ image' = "complete" /\ TaskGoto("detach")
       \/ UNCHANGED image /\ TaskGoto("detach")
    /\ UNCHANGED <<table, loops, orphans, mounted, mountDir>>

\* detach_loop: result.and(detach_result); a mount ignores how it ended.  A
\* device that is still in use stays attached.
AfterDetach(worked) ==
    CASE task.kind = "mount" -> "rmdir"
      [] task.kind = "partition" /\ worked /\ image = "complete" -> "ok"
      [] OTHER -> "remove"
DetachLoop ==
    /\ task.kind \in {"partition", "mount"} /\ task.pc = "detach"
    /\ LET left == IF mounted = Nothing THEN loops - 1 ELSE loops IN
       \/ loops' = left /\ TaskGoto(AfterDetach(TRUE))
       \/ loops' \in {loops, left} /\ GotoLosing(AfterDetach(FALSE), "detach")
    /\ UNCHANGED <<image, table, orphans, mounted, mountDir>>

\* remove_reserved_image, remove_failed_raw_import: a failure is only logged.
\* A loop device keeps the removed file alive, out of reach of its path.
RemoveImage ==
    /\ task.pc = "remove"
    /\ \/ /\ image' = "absent" /\ table' = NoTable /\ TaskAnswer("error")
          /\ orphans' = orphans + loops /\ loops' = 0
       \/ AnswerLosing("remove") /\ UNCHANGED <<image, table, loops, orphans>>
    /\ UNCHANGED <<mounted, mountDir>>
ImageCreated ==
    /\ task.pc = "ok" /\ TaskAnswer("ok")
    /\ UNCHANGED <<image, table, loops, orphans, mounted, mountDir>>

-----------------------------------------------------------------------------
(* mount_image.                                                            *)

\* validate_mount_source, then prepare_selected_root_partition if asked to.
StartMount ==
    /\ At("mount", "start")
    /\ IF image \notin {"foreign", "complete"} \/ (task.selected # 0 /\ task.source = "block")
       THEN TaskAnswer("error")
       ELSE TaskGoto(IF task.selected # 0 THEN "select" ELSE "mkdir")
    /\ UNCHANGED <<image, table, loops, orphans, mounted, mountDir>>
SelectRoot ==
    /\ At("mount", "select")
    /\ \/ TaskAnswer("error")
       \/ /\ Resolve(table, task.selected) # <<>>
          /\ TaskGoto(IF MarksSelected(table, task.selected) THEN "mark" ELSE "mkdir")
    /\ UNCHANGED <<image, table, loops, orphans, mounted, mountDir>>
MarkRoot ==
    /\ At("mount", "mark")
    /\ \/ table' = [table EXCEPT !.parts[task.selected] = "root"] /\ TaskGoto("mkdir")
       \/ TaskAnswer("error") /\ UNCHANGED table
       \/ TaskAnswer("error") /\ table' = [table EXCEPT !.parts[task.selected] = "root"]
    /\ UNCHANGED <<image, loops, orphans, mounted, mountDir>>

\* prepare_mount_point refuses a directory with something in it, which the root
\* of whatever is mounted there is taken to be.  The directory is made before
\* its mode is set.
MakeMountPoint ==
    /\ At("mount", "mkdir")
    /\ \/ mounted = Nothing /\ mountDir' = TRUE /\ (TaskGoto("dissect") \/ TaskAnswer("error"))
       \/ TaskAnswer("error") /\ UNCHANGED mountDir
    /\ UNCHANGED <<image, table, loops, orphans, mounted>>

\* systemd-dissect --mount looks for the root as systemd-nspawn will.
Discoverable(t) == t = NoTable \/ Len(t.parts) = 1 \/ (t.label = "gpt" /\ Roots(t) # {})
Dissect ==
    /\ At("mount", "dissect")
    /\ \/ Discoverable(table) /\ mounted' = Dissected /\ TaskAnswer("ok") /\ UNCHANGED mountDir
       \/ TaskGoto("inspect") /\ UNCHANGED <<mounted, mountDir>>
       \/ AnswerLosing("dissect") /\ UNCHANGED mounted /\ mountDir' \in BOOLEAN
       \/ AnswerLosing("dissect") /\ Discoverable(table) /\ mounted' = Dissected /\ UNCHANGED mountDir
    /\ UNCHANGED <<image, table, loops, orphans>>

AllowsFallback(t) == Len(t.parts) <= 1
InspectTable ==
    /\ At("mount", "inspect")
    /\ \/ TaskAnswer("error")
       \/ ~AllowsFallback(table) /\ TaskGoto("rmdir") /\ Resolve(table, task.selected) # <<>>
       \/ AllowsFallback(table) /\ TaskGoto("fallback")
    /\ UNCHANGED <<image, table, loops, orphans, mounted, mountDir>>
Fallback ==
    /\ At("mount", "fallback")
    /\ LET device == Resolve(table, IF task.source = "block" THEN 0 ELSE task.selected) IN
       \/ TaskGoto("rmdir")
       \/ /\ device # <<>>
          /\ task' = [task EXCEPT !.device = device[1],
                                  !.pc = IF task.source = "block" THEN "device" ELSE "attach"]
    /\ UNCHANGED <<image, table, loops, orphans, mounted, mountDir>>

\* mount_device; a failed mount of a managed image gives the loop back.
AfterMountFailure_KeepsLoop == "rmdir"
AfterMountFailure == IF task.source = "block" THEN "rmdir" ELSE "detach"
MountDevice ==
    /\ At("mount", "device")
    /\ \/ mounted' = task.device /\ TaskAnswer("ok")
       \/ UNCHANGED mounted /\ TaskGoto(AfterMountFailure)
       \/ mounted' \in {mounted, task.device} /\ GotoLosing(AfterMountFailure, "mount")
    /\ UNCHANGED <<image, table, loops, orphans, mountDir>>
RemoveAfterMount ==
    /\ At("mount", "rmdir") /\ TaskAnswer("error")
    /\ mountDir' \in {mounted # Nothing, TRUE}
    /\ UNCHANGED <<image, table, loops, orphans, mounted>>

-----------------------------------------------------------------------------
(* unmount_image.                                                          *)

\* systemd-dissect --umount, then umount; only the mount table is believed, and
\* one that cannot be read ends the operation.
Unmount(tool, next) ==
    /\ At("unmount", tool)
    /\ mounted' \in {mounted, Nothing}
    /\ TaskGoto(next) \/ TaskAnswer("error")
    /\ UNCHANGED <<image, table, loops, orphans, mountDir>>
UnmountFirst == Unmount("start", "umount")
UnmountAgain == Unmount("umount", "finish")

\* finish_successful_unmount: the loop devices of a managed image are listed
\* and detached.  When losetup says that it cannot list them, the unmount goes
\* on as if there were none; when it cannot be run or read, it has failed.
ListLoops ==
    /\ At("unmount", "finish")
    /\ \/ mounted # Nothing /\ TaskAnswer("error")
       \/ mounted = Nothing /\ TaskGoto(IF task.source = "managed" /\ loops > 0 THEN "loops" ELSE "rmdir")
       \/ /\ mounted = Nothing /\ task.source = "managed"
          /\ GotoLosing("rmdir", "list") \/ TaskAnswer("error")
    /\ UNCHANGED <<image, table, loops, orphans, mounted, mountDir>>
DetachListed ==
    /\ At("unmount", "loops")
    /\ \/ loops' = loops - 1 /\ TaskGoto(IF loops = 1 THEN "rmdir" ELSE "loops")
       \/ loops' \in {loops, loops - 1} /\ TaskAnswer("error")
    /\ UNCHANGED <<image, table, orphans, mounted, mountDir>>
RemoveMountPoint ==
    /\ At("unmount", "rmdir")
    /\ \/ mountDir' = FALSE /\ TaskAnswer("ok")
       \/ UNCHANGED mountDir /\ TaskAnswer("error")
    /\ UNCHANGED <<image, table, loops, orphans, mounted>>

-----------------------------------------------------------------------------
ImageNext ==
    \/ \E kind \in {"create", "partition", "import"} : BeginTask(kind, "managed", 0)
    \/ \E source \in {"managed", "block"}, selected \in 0 .. MaxPartitions :
          BeginTask("mount", source, selected)
    \/ \E source \in {"managed", "block"} : BeginTask("unmount", source, 0)
    \/ Reserve \/ Fill \/ ValidateImport \/ WriteTable \/ AttachLoop \/ Settle \/ FormatPartition
    \/ DetachLoop \/ RemoveImage \/ ImageCreated
    \/ StartMount \/ SelectRoot \/ MarkRoot \/ MakeMountPoint \/ Dissect \/ InspectTable
    \/ Fallback \/ MountDevice \/ RemoveAfterMount
    \/ UnmountFirst \/ UnmountAgain \/ ListLoops \/ DetachListed \/ RemoveMountPoint
ImageSpec == ImageInit /\ [][ImageNext]_imageVars

(* What an answer promises to the rollback that acts on it, failing        *)
(* cleanups included.  An operation that failed:                           *)
(*  - left at most one more loop device attached than it found, and only   *)
(*    when losetup did not say which one it had attached, could not detach *)
(*    it, or its mount may have come about after all: one failing cleanup  *)
(*    does not lead to a second device;                                    *)
(*  - left a file of its own only where there was none and its removal (or *)
(*    the sync after its creation) failed; a file it found is still there; *)
(*  - changed what is mounted only when the mount itself was cut off;      *)
(*  - did not change which partition the same request will take the next   *)
(*    time, although it may have marked one and keeps the mark.            *)
(* An unmount that failed with the image still mounted detached nothing.   *)
(* An operation that succeeded left no device behind (creation), something *)
(* mounted (mount), or neither a mount nor a mount point nor, unless they  *)
(* could not be listed, a loop device of the image (unmount).  And an      *)
(* image with several partitions is only ever mounted where systemd-nspawn *)
(* will look for its root; the loop device is for a bare filesystem or an  *)
(* only partition.                                                         *)
Lost(steps) == task.failed \cap steps # {}
AnswersHold ==
    /\ task.pc = "idle" /\ task.result = "error" /\ task.kind # "unmount" =>
        /\ loops + orphans - task.found.loops \in
              IF Lost({"attach", "detach", "mount"}) THEN 0 .. 1 ELSE {0}
        /\ \/ image = task.found.image
           \/ task.found.image = "absent" /\ Lost({"reserve", "remove"})
        /\ mounted = task.found.mounted \/ Lost({"dissect", "mount"})
        /\ task.kind = "mount" =>
              Resolve(table, task.selected) = Resolve(task.found.table, task.selected)
    /\ task.pc = "idle" /\ task.kind = "unmount" =>
        /\ task.result = "error" /\ mounted # Nothing => loops + orphans = task.found.loops
        /\ task.result = "ok" =>
              /\ mounted = Nothing /\ ~mountDir
              /\ task.source = "managed" => loops = 0 \/ Lost({"list"})
    /\ task.pc = "idle" /\ task.result = "ok" =>
        /\ task.kind = "mount" => mounted # Nothing /\ mountDir
        /\ task.kind \in {"create", "partition", "import"} =>
              image = "complete" /\ loops + orphans = task.found.loops
    /\ mounted # Nothing => Discoverable(table)
=============================================================================
