----------------------------- MODULE DisplayBinds -----------------------------
(***************************************************************************)
(* The display part of a .nspawn settings document: how the editor reads   *)
(* X11 and Wayland bind declarations out of it, and how it turns a draft   *)
(* of changes into source mutations, into the text it saves and into the   *)
(* diff it shows for review.                                               *)
(*                                                                         *)
(* A document is a sequence of physical lines, and an offset counts lines  *)
(* instead of bytes: line n spans offsets n-1 to n.  Comment and blank     *)
(* lines, CR/LF, indentation and path escaping are left out.  A line that  *)
(* ends in a backslash has cont = TRUE and swallows the next one; what it  *)
(* swallows is taken to hold bind options only.                            *)
(***************************************************************************)
EXTENDS Integers, Sequences, SequencesExt, FiniteSetsExt

CONSTANTS
    Directory,      \* /tmp/.X11-unix
    Sockets,        \* X<number> endpoints below it
    WaylandSources, \* paths whose file name is a Wayland display
    Targets,        \* guest paths that are not an X11 path
    Documents,      \* the documents the editor is opened on
    MaxChanges      \* changes in one edit

ASSUME ChangesAssumption == MaxChanges \in Nat

X11Sources == {Directory} \cup Sockets

Section(name) == [kind |-> "section", name |-> name, cont |-> FALSE]
PrivateUsers(value) == [kind |-> "users", name |-> value, cont |-> FALSE]
NvidiaBegin == [kind |-> "nvidia", cont |-> FALSE]
OtherLine == [kind |-> "other", cont |-> FALSE]
Bind(src, dst, idmap) ==
    [kind |-> "bind", src |-> src, dst |-> dst, idmap |-> idmap, cont |-> FALSE]
Continued(line) == [line EXCEPT !.cont = TRUE]

-----------------------------------------------------------------------------
(* Reading a document.                                                     *)

\* logical_lines: the lines that begin a logical line.
LogicalLines(doc) == {n \in DOMAIN doc : n = 1 \/ ~doc[n - 1].cont}

\* The innermost of the given lines that opens a section at or above n.
UnderSection(doc, among, names, n) ==
    LET headers == {h \in among : h <= n /\ doc[h].kind = "section"}
    IN headers # {} /\ doc[Max(headers)].name \in names

\* The projection compares the header with "[Files]" exactly; the other two
\* readers ignore case.
FilesExactly == {"Files"}
FilesAnyCase == {"Files", "files"}

\* read_logical_line: the recognised declarations of each page.
Declarations(doc, sources) ==
    {n \in LogicalLines(doc) :
        /\ doc[n].kind = "bind"
        /\ doc[n].src \in sources
        /\ UnderSection(doc, LogicalLines(doc), FilesExactly, n)}
X11Declarations(doc) == Declarations(doc, X11Sources)
WaylandDeclarations(doc) == Declarations(doc, WaylandSources)

\* bind_destinations: every bind of the file, of this page or not.
BindDestinations(doc) ==
    {n \in LogicalLines(doc) :
        /\ doc[n].kind = "bind"
        /\ UnderSection(doc, LogicalLines(doc), FilesAnyCase, n)}

\* display_bind_recommendation: the last valid PrivateUsers= of [Exec] says
\* whether a new bind is idmapped, or that Lasper does not offer one.
Recommendation(doc) ==
    LET policies == {n \in LogicalLines(doc) :
                        /\ doc[n].kind = "users"
                        /\ doc[n].name # "invalid"
                        /\ UnderSection(doc, LogicalLines(doc), {"Exec"}, n)}
    IN IF policies = {} THEN "idmap"
       ELSE CASE doc[Max(policies)].name = "no" -> "plain"
              [] doc[Max(policies)].name = "pick" -> "idmap"
              [] doc[Max(policies)].name = "managed" -> "unsupported"

-----------------------------------------------------------------------------
(* Planning an edit: a set of changes, at most one addition per source.    *)

Addition(page, src, dst) == [op |-> "add", page |-> page, src |-> src, dst |-> dst]
Updating(page, n, src, dst) ==
    [op |-> "update", page |-> page, line |-> n, src |-> src, dst |-> dst]
Removal(page, n) == [op |-> "remove", page |-> page, line |-> n]

Additions(edit) == {c \in edit : c.op = "add"}
Requested(edit) == {c \in edit : c.op # "add"}
RequestedAt(edit, n) == {c \in Requested(edit) : c.line = n}

\* planned_x11_sources: <<line, source>> after the requested changes.
PlannedSources(doc, edit) ==
    {<<n, doc[n].src>> : n \in {d \in X11Declarations(doc) :
                                  \A c \in RequestedAt(edit, d) : c.page # "x11"}}
    \cup {<<c.line, c.src>> : c \in {u \in Requested(edit) :
                                  /\ u.op = "update" /\ u.page = "x11"
                                  /\ u.line \in X11Declarations(doc)}}

\* occupied_targets: <<line, guest target>> after the requested changes.
OccupiedTargets(doc, edit) ==
    {<<n, doc[n].dst>> : n \in {d \in BindDestinations(doc) : RequestedAt(edit, d) = {}}}
    \cup {<<c.line, c.dst>> : c \in {u \in Requested(edit) :
                                  u.op = "update" /\ u.line \in BindDestinations(doc)}}

Overlap(a, b) == a = Directory \/ b = Directory \/ a = b

\* reject_x11_source_overlap for an update of line n; additions pass 0.
SourceOverlaps(n, src, planned) ==
    \E p \in planned : (p[1] # n \/ n = 0) /\ Overlap(src, p[2])
TargetOccupied(n, dst, occupied) == \E o \in occupied : o[1] # n /\ o[2] = dst

\* The checks of one requested line: calculate_{x11,wayland}_replacement.
ChangeAllowed(doc, edit, c) ==
    /\ c.line \in DOMAIN doc
    /\ ~doc[c.line].cont
    /\ IF c.page = "x11" THEN c.line \in X11Declarations(doc)
                         ELSE c.line \in WaylandDeclarations(doc)
    /\ c.op = "update" =>
        /\ c.page = "x11" => c.src \in X11Sources
        /\ c.page = "x11" => ~SourceOverlaps(c.line, c.src, PlannedSources(doc, edit))
        /\ c.page = "wayland" => c.src \in WaylandSources
        /\ ~TargetOccupied(c.line, c.dst, OccupiedTargets(doc, edit))

AdditionAllowed(doc, edit, a) ==
    LET others == Additions(edit) \ {a}
    IN  /\ Recommendation(doc) # "unsupported"
        /\ IF a.page = "x11"
           THEN /\ a.src \in X11Sources
                /\ ~SourceOverlaps(0, a.src, PlannedSources(doc, edit))
                /\ \A o \in others : o.page = "x11" => ~Overlap(a.src, o.src)
           ELSE a.src \in WaylandSources
        /\ ~TargetOccupied(0, a.dst, OccupiedTargets(doc, edit))
        /\ \A o \in others : o.dst # a.dst

PlanAllowed(doc, edit) ==
    /\ \A c \in Requested(edit) : Cardinality(RequestedAt(edit, c.line)) = 1
    /\ \A c \in Requested(edit) : ChangeAllowed(doc, edit, c)
    /\ \A a \in Additions(edit) : AdditionAllowed(doc, edit, a)

\* What an update leaves in the line: the options are kept.
Replacement(doc, c) ==
    IF c.op = "remove" THEN <<>>
    ELSE <<[doc[c.line] EXCEPT !.src = c.src, !.dst = c.dst]>>

\* insertion_mutation: additions go to the end of the last [Files] section,
\* but before the managed NVIDIA block of the first section that has one.
FilesHeaders(doc) ==
    {n \in DOMAIN doc : doc[n].kind = "section" /\ doc[n].name \in FilesAnyCase}
InsertionOffset_PastHeader(doc) ==
    LET after == {n \in DOMAIN doc : doc[n].kind = "section"
                                        /\ n > Max(FilesHeaders(doc))}
    IN  IF FilesHeaders(doc) # {} /\ after # {} THEN Min(after) ELSE Len(doc)
InsertionOffset(doc) ==
    LET blocks == {n \in DOMAIN doc : doc[n].kind = "nvidia"
                                        /\ UnderSection(doc, DOMAIN doc, FilesAnyCase, n)}
        after == {n \in DOMAIN doc : doc[n].kind = "section"
                                        /\ n > Max(FilesHeaders(doc))}
    IN  CASE blocks # {} -> Min(blocks) - 1
          [] blocks = {} /\ FilesHeaders(doc) # {} /\ after # {} -> Min(after) - 1
          [] OTHER -> Len(doc)
NewDirectives(doc, edit) ==
    LET ordered == SetToSortSeq(Additions(edit), LAMBDA a, b : a.page = "x11" /\ b.page # "x11")
    IN  [i \in DOMAIN ordered |->
            Bind(ordered[i].src, ordered[i].dst, Recommendation(doc) = "idmap")]
Insertion(doc, edit) ==
    [line |-> InsertionOffset(doc) + 1, start |-> InsertionOffset(doc),
     end |-> InsertionOffset(doc), old |-> 0,
     new |-> (IF FilesHeaders(doc) = {} THEN <<Section("Files")>> ELSE <<>>)
                \o NewDirectives(doc, edit)]

\* A requested line becomes a mutation unless it is left as it was.
LineMutations(doc, edit) ==
    {[line |-> c.line, start |-> c.line - 1, end |-> c.line, old |-> 1,
      new |-> Replacement(doc, c)] :
        c \in {r \in Requested(edit) : Replacement(doc, r) # <<doc[r.line]>>}}

\* plan_display_mutations: requested lines in ascending order, then the one
\* insertion.
Mutations(doc, edit) ==
    SetToSortSeq(LineMutations(doc, edit), LAMBDA a, b : a.line < b.line)
    \o IF Additions(edit) = {} THEN <<>> ELSE <<Insertion(doc, edit)>>

-----------------------------------------------------------------------------
(* Carrying out and showing the mutations.                                 *)

ReplaceRange(m, content) ==
    SubSeq(content, 1, m.start) \o m.new \o SubSeq(content, m.end + 1, Len(content))

\* apply_mutations: from the last of the list to the first, on offsets of
\* the original content.
ApplyMutations(doc, mutations) == FoldRight(ReplaceRange, mutations, doc)

\* render_diff: the hunks, each two lines of context around its mutations.
Context == 2
HunkOf(doc, m) ==
    [first |-> Max({m.line - Context, 1}),
     last |-> Min({m.line + Context - (IF m.old = 0 THEN 1 ELSE 0), Len(doc)})]
JoinHunk(doc, hunks, m) ==
    LET h == HunkOf(doc, m)
        previous == Last(hunks)
    IN  IF hunks # <<>> /\ h.first <= previous.last + 1
        THEN Append(Front(hunks), [previous EXCEPT !.last = Max({previous.last, h.last})])
        ELSE Append(hunks, h)
Hunks(doc, mutations) == FoldLeft(LAMBDA hs, m : JoinHunk(doc, hs, m), <<>>, mutations)
ShownIn(h, m) == m.line \in h.first..(h.last + (IF m.old = 0 THEN 1 ELSE 0))
InDiff(doc, mutations, m) ==
    doc = <<>> \/ \E h \in Range(Hunks(doc, mutations)) : ShownIn(h, m)

\* prepare_patch, once the revision is known to be the one edited.
Preparation(doc, edit) ==
    CASE ~PlanAllowed(doc, edit) -> [state |-> "blocked"]
      [] PlanAllowed(doc, edit) /\ Mutations(doc, edit) = <<>> -> [state |-> "unchanged"]
      [] OTHER -> [state |-> "ready",
                   after |-> ApplyMutations(doc, Mutations(doc, edit))]

-----------------------------------------------------------------------------
(* A client that assembles an edit of a document, change by change.        *)

VARIABLES document, edit
displayVars == <<document, edit>>

\* What an edit of doc may hold: ConfigurationEdit names any line and source.
Changes(doc) ==
    {Removal(p, n) : p \in {"x11", "wayland"}, n \in DOMAIN doc}
    \cup {Updating("x11", n, s, t) : n \in DOMAIN doc, s \in X11Sources, t \in Targets}
    \cup {Updating("wayland", n, s, t) : n \in DOMAIN doc, s \in WaylandSources, t \in Targets}
    \cup {Addition("x11", s, s) : s \in X11Sources}
    \cup {Addition("wayland", s, t) : s \in WaylandSources, t \in Targets}

DisplayInit == document \in Documents /\ edit = {}

Request(c) ==
    /\ Cardinality(edit) < MaxChanges
    /\ c \notin edit
    /\ c.op = "add" => \A a \in Additions(edit) : a.src # c.src
    /\ edit' = edit \cup {c}
    /\ UNCHANGED document

DisplayNext == \E c \in Changes(document) : Request(c)
DisplaySpec == DisplayInit /\ [][DisplayNext]_displayVars

-----------------------------------------------------------------------------
(* What a saved edit means, defined without offsets or ranges.             *)

\* The declarations a document makes: <<source, target, idmapped>>.
Declared(doc, lines) == {<<doc[n].src, doc[n].dst, doc[n].idmap>> : n \in lines}
DisplayLines(doc) == X11Declarations(doc) \cup WaylandDeclarations(doc)

Wanted(doc, e) ==
    Declared(doc, {n \in DisplayLines(doc) : RequestedAt(e, n) = {}})
    \cup {<<c.src, c.dst, doc[c.line].idmap>> : c \in {u \in Requested(e) : u.op = "update"}}
    \cup {<<a.src, a.dst, Recommendation(doc) = "idmap">> : a \in Additions(e)}

\* What the reviewed diff describes: line by line, the new directives at
\* their place and each named line replaced or dropped.
Reviewed(doc, e) ==
    LET inserted(n) == IF Additions(e) # {} /\ InsertionOffset(doc) = n
                       THEN Insertion(doc, e).new ELSE <<>>
        kept(n) == IF RequestedAt(e, n) = {} THEN <<doc[n]>>
                   ELSE Replacement(doc, CHOOSE c \in RequestedAt(e, n) : TRUE)
    IN  inserted(0) \o FlattenSeq([n \in DOMAIN doc |-> kept(n) \o inserted(n)])

\* Documents on which the planner's offsets ascend and every reader agrees
\* on what [Files] is: no declaration below an NVIDIA block in [Files], no
\* other spelling of the header, and no section that ends in a continuation.
Ascending(doc) ==
    \A n \in DisplayLines(doc), b \in DOMAIN doc :
        doc[b].kind = "nvidia" /\ UnderSection(doc, DOMAIN doc, FilesAnyCase, b) => n < b
OneSpelling(doc) ==
    \A n \in DOMAIN doc : doc[n].kind = "section" => doc[n].name # "files"
SectionsClosed(doc) ==
    InsertionOffset(doc) = 0 \/ ~doc[InsertionOffset(doc)].cont

\* "a new or updated declaration cannot add another overlap": two binds of a
\* saved document that share a guest target, or X11 sources that overlap,
\* stood in the document before (reject_x11_source_overlap,
\* reject_occupied_target).
Collide(a, b) ==
    \/ a.dst = b.dst
    \/ a.src \in X11Sources /\ b.src \in X11Sources /\ Overlap(a.src, b.src)
AddsNoCollision(before, after) ==
    LET old == {before[n] : n \in BindDestinations(before)}
    IN  \A m, n \in BindDestinations(after) :
            m < n /\ Collide(after[m], after[n]) => after[m] \in old /\ after[n] \in old

\* A saved edit does what was asked and nothing else (apply_mutations after
\* plan_display_mutations): the display declarations of the new document are
\* the ones wanted, the text is the one the diff describes, every mutation is
\* in the diff, and no two binds collide that did not before.
EditIsExact ==
    LET result == Preparation(document, edit)
        mutations == Mutations(document, edit)
    IN  result.state = "ready" /\ Ascending(document) /\ OneSpelling(document)
            /\ SectionsClosed(document) =>
        /\ Declared(result.after, DisplayLines(result.after)) = Wanted(document, edit)
        /\ result.after = Reviewed(document, edit)
        /\ \A m \in Range(mutations) : InDiff(document, mutations, m)
        /\ AddsNoCollision(document, result.after)

\* "Preview and apply share the same policy checks and byte-preserving patch
\* calculation": what is saved is what the diff describes, wherever the
\* declarations stand.
SavedAsReviewed ==
    LET result == Preparation(document, edit)
    IN  result.state = "ready" => result.after = Reviewed(document, edit)
=============================================================================
