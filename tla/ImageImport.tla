----------------------------- MODULE ImageImport -----------------------------
(***************************************************************************)
(* From the source of a custom image to the rootfs or the raw image of a   *)
(* machine: ImageDeployer acquires the source, unpacks its compression and *)
(* imports it.  A tar archive is first walked header by header to see that *)
(* what it extracts to fits a budget; the walk carries the size hints of   *)
(* PAX records along and is compared with what the records mean.           *)
(*                                                                         *)
(* A record is a header: a file "f", a sparse file "s" with a real size of *)
(* its own and extension headers behind it, PAX metadata for the next file *)
(* "x" or for all files "g", a long name "L", or a block of zeros "0".     *)
(* Sizes are counted in blocks; a number above Word does not fit.          *)
(***************************************************************************)
EXTENDS Integers, Sequences, SequencesExt, FiniteSetsExt

CONSTANTS
    Limit,              \* MAX_EXPANDED_BYTES, MAX_IMAGE_BYTES
    MaxEntries,         \* MAX_ENTRIES, also of the sparse headers of one file
    Word,               \* the largest number
    FileRecords,        \* the headers of files that occur
    HintRecords,        \* the size hints that occur
    MaxHeaders          \* bound on the archive

ASSUME LimitsAssumption == {Limit, MaxEntries, Word} \subseteq Nat /\ Limit <= Word

VARIABLES
    import,             \* ImageDeployer.deploy: what it is given and where it is
    archive,            \* the records of the archive, as far as they were read
    walk,               \* the local variables of validate_with_limit
    stopping,           \* the cancellation of the deployment
    outcome             \* what became of the target
importVars == <<import, archive, walk, stopping, outcome>>

Absent == -1
NoHints == [stream |-> Absent, logical |-> Absent]
Header(type) == [type |-> type, size |-> 0, real |-> 0, more |-> 0, hints |-> NoHints]
Records ==
    FileRecords \cup {Header("L"), Header("0")}
    \cup {[Header(t) EXCEPT !.hints = h] : t \in {"x", "g"}, h \in HintRecords}
IsFile(r) == r.type \in {"f", "s"}

-----------------------------------------------------------------------------
(* validate_with_limit.                                                    *)

Overlay(base, overrides) ==
    [f \in {"stream", "logical"} |-> IF overrides[f] # Absent THEN overrides[f] ELSE base[f]]

WalkStart == [verdict |-> "reading", zeros |-> 0, entries |-> 0, offset |-> 0, payload |-> 0,
              global |-> NoHints, local |-> NoHints]

Rejected(w) == [w EXCEPT !.verdict = "rejected"]
Advance(w, by) == IF w.offset + by > Word THEN Rejected(w) ELSE [w EXCEPT !.offset = @ + by]

AddFile(w, r) ==
    LET hints == Overlay(w.global, w.local)
        stream == IF hints.stream # Absent THEN hints.stream ELSE r.size
        total == w.payload + Max({stream, hints.logical, r.real})
    IN  IF r.more > MaxEntries \/ total > Word \/ total > Limit THEN Rejected(w)
        ELSE Advance([w EXCEPT !.payload = total, !.local = NoHints], r.more + stream)

ReadRecord(w, r) ==
    LET v == [w EXCEPT !.zeros = 0, !.entries = @ + 1] IN
    CASE r.type = "0" -> [w EXCEPT !.zeros = @ + 1,
                                   !.verdict = IF w.zeros = 1 THEN "accepted" ELSE @]
      [] r.type # "0" /\ v.entries > MaxEntries -> Rejected(v)
      [] r.type = "x" -> [v EXCEPT !.local = Overlay(@, r.hints)]
      [] r.type = "g" -> [v EXCEPT !.global = Overlay(@, r.hints)]
      [] r.type = "L" -> v
      [] OTHER -> AddFile(v, r)

\* The header itself moves the offset by one block.
WalkStep_ReplacesHints(w, r) ==
    LET v == Advance(w, 1) IN
    CASE v.verdict = "rejected" -> v
      [] r.type = "x" /\ v.entries < MaxEntries ->
           [v EXCEPT !.local = r.hints, !.zeros = 0, !.entries = @ + 1]
      [] OTHER -> ReadRecord(v, r)
WalkStep(w, r) ==
    LET v == Advance(w, 1) IN IF v.verdict = "rejected" THEN v ELSE ReadRecord(v, r)

-----------------------------------------------------------------------------
(* ImageDeployer.deploy, acquire and import_tar.                           *)

\* An opened source counts as local; the user confirms only a remote one.
Requests ==
    {r \in [source : {"local", "remote"}, format : {"tar", "raw"}, allowUnsafe : BOOLEAN] :
        r.allowUnsafe => r.source = "remote" /\ r.format = "tar"}
ImportInit ==
    /\ import \in {r @@ [pc |-> "start", warned |-> FALSE] : r \in Requests}
    /\ archive = <<>> /\ walk = WalkStart /\ stopping = FALSE /\ outcome = "untouched"

ImportGoes(pc) == import' = [import EXCEPT !.pc = pc]
ImportEnds(result) == ImportGoes("end") /\ outcome' = result
OnlyImport == UNCHANGED <<archive, walk, stopping>>

\* check_deployment_cancellation, then open the source or download it; a
\* download stops at a cancellation, and at the limit.
Acquire ==
    /\ import.pc = "start" /\ OnlyImport
    /\ IF stopping THEN ImportEnds("cancelled")
       ELSE \/ ImportGoes(IF import.source = "remote" THEN "download" ELSE "unpack") /\ UNCHANGED outcome
            \/ ImportEnds("failed")
DownloadEnds ==
    /\ import.pc = "download" /\ OnlyImport
    /\ \/ ~stopping /\ ImportGoes("unpack") /\ UNCHANGED outcome
       \/ ImportEnds("failed")
       \/ stopping /\ ImportEnds("cancelled")

\* normalize_compression: the source is refused above the limit, passed on as
\* it is, or unpacked, which ends early at a cancellation and is refused
\* above the limit again.
Unpack(size, compressed, unpacked) ==
    /\ import.pc = "unpack" /\ OnlyImport
    /\ CASE size > Limit \/ (compressed /\ unpacked > Limit) -> ImportEnds("failed")
         [] ~compressed /\ size <= Limit -> ImportGoes("import") /\ UNCHANGED outcome
         [] OTHER -> \/ ImportGoes("import") /\ UNCHANGED outcome
                     \/ ImportEnds("failed")
                     \/ stopping /\ ImportEnds("cancelled")

\* The second check; then validate_import_source and validate_tar_target.
StartImport(usable) ==
    /\ import.pc = "import" /\ OnlyImport
    /\ CASE stopping -> ImportEnds("cancelled")
         [] ~stopping /\ ~usable -> ImportEnds("failed")
         [] OTHER -> ImportGoes(import.format) /\ UNCHANGED outcome

\* One turn of the loop of validate_with_limit.
ReadHeader(r) ==
    /\ import.pc = "tar" /\ walk.verdict = "reading" /\ Len(archive) < MaxHeaders
    /\ archive' = Append(archive, r) /\ walk' = WalkStep(walk, r)
    /\ UNCHANGED <<import, stopping, outcome>>

\* The archive ends before its end blocks, or the walk refused it.
TarRefused ==
    /\ import.pc = "tar" /\ walk.verdict # "accepted" /\ ImportEnds("failed") /\ OnlyImport

\* inspect_tar_runtime and tar_runtime_policy.
TarPolicy(risk) ==
    /\ import.pc = "tar" /\ walk.verdict = "accepted" /\ OnlyImport
    /\ IF risk /\ import.source = "remote" /\ ~import.allowUnsafe THEN ImportEnds("failed")
       ELSE import' = [import EXCEPT !.pc = "extract", !.warned = risk] /\ UNCHANGED outcome

\* The preparation lost the select against the cancellation.
PreparationStops == import.pc = "tar" /\ stopping /\ ImportEnds("cancelled") /\ OnlyImport

\* The third check, then tar itself.
Extract ==
    /\ import.pc = "extract" /\ OnlyImport
    /\ IF stopping THEN ImportEnds("cancelled")
       ELSE ImportGoes("extracting") /\ outcome' = "partial"
ExtractEnds ==
    /\ import.pc = "extracting" /\ OnlyImport
    /\ \/ ImportGoes("check") /\ outcome' = "complete"
       \/ ImportGoes("end") /\ UNCHANGED outcome

\* import_raw_system_image: copied, then validated, or removed again.
ImportRaw ==
    /\ import.pc = "raw" /\ OnlyImport
    /\ \/ ImportGoes("check") /\ outcome' = "complete"
       \/ ImportEnds("failed")
       \/ ImportEnds("partial")

\* The last check; the target stays for the rollback to remove.
FinishImport == import.pc = "check" /\ ImportGoes("end") /\ UNCHANGED outcome /\ OnlyImport

RequestStop ==
    /\ ~stopping /\ import.pc # "end" /\ stopping' = TRUE
    /\ UNCHANGED <<import, archive, walk, outcome>>

ImportNext ==
    \/ Acquire \/ DownloadEnds
    \/ \E size, unpacked \in {Limit, Limit + 1}, compressed \in BOOLEAN :
          Unpack(size, compressed, unpacked)
    \/ \E usable \in BOOLEAN : StartImport(usable)
    \/ \E r \in Records : ReadHeader(r)
    \/ TarRefused \/ (\E risk \in BOOLEAN : TarPolicy(risk)) \/ PreparationStops
    \/ Extract \/ ExtractEnds \/ ImportRaw \/ FinishImport \/ RequestStop
ImportSpec == ImportInit /\ [][ImportNext]_importVars

-----------------------------------------------------------------------------
(* What the records mean, without a walk: the hint for the file at i is    *)
(* the last one of its own, those since the file before it, else the last  *)
(* global one before it.                                                   *)
Own(i, f) ==
    {j \in 1 .. i - 1 : /\ archive[j].type = "x" /\ archive[j].hints[f] # Absent
                        /\ \A k \in j .. i - 1 : ~IsFile(archive[k])}
ForAll(i, f) == {j \in 1 .. i - 1 : archive[j].type = "g" /\ archive[j].hints[f] # Absent}
HintFor(i, f) ==
    CASE Own(i, f) # {} -> archive[Max(Own(i, f))].hints[f]
      [] Own(i, f) = {} /\ ForAll(i, f) # {} -> archive[Max(ForAll(i, f))].hints[f]
      [] OTHER -> Absent
Occupies(i) ==
    LET stream == HintFor(i, "stream")
    IN  Max({IF stream # Absent THEN stream ELSE archive[i].size,
             archive[i].real, HintFor(i, "logical")})
Files == {i \in DOMAIN archive : IsFile(archive[i])}

(* Nothing is written below the rootfs but an archive that ends, whose     *)
(* files, counted the way their records mean it, fit the budget: no order  *)
(* of local hints, global hints, sparse sizes and long names makes the     *)
(* walk count less.  A remote one is only extracted by a tar without known *)
(* risk or after confirmation, and the warning is kept for the user.       *)
ExtractedFits ==
    /\ walk.verdict # "rejected" => walk.payload = MapThenSumSet(Occupies, Files)
    /\ import.format = "tar" /\ outcome \in {"partial", "complete"} =>
        /\ MapThenSumSet(Occupies, Files) <= Limit
        /\ Len(archive) > 1 /\ \A i \in {Len(archive) - 1, Len(archive)} : archive[i].type = "0"
        /\ import.warned => import.source # "remote" \/ import.allowUnsafe
=============================================================================
