-------------------------- MODULE WriteAheadProofs ---------------------------
(* Proofs about WriteAhead for any set of resources and any pattern of       *)
(* failed manifest writes, and that DeploymentEngine implements it for any   *)
(* plans.                                                                    *)
EXTENDS WriteAhead, EngineProofs, TLAPS

\* What is on the host is named by a manifest m.
NamedBy(m) == onHost \subseteq m.intended \cup Tracked(m.ledger)

\* The session's copy and the file agree, or the file is one write ahead of it.
SessionKnowsFile ==
    \/ session = Absent /\ onHost = {} /\ ~ armed
    \/ session # Absent /\ durable = Absent /\ ~ armed
    \/ session # Absent /\ durable = session
    \/ /\ session # Absent /\ durable # Absent /\ ~ armed
       /\ durable.rev = session.rev + 1

\* Recoverable is not inductive: a later write replaces the manifest by what is
\* in memory, so memory has to name everything as well, and an armed session
\* has to be the one that is on disk.
WriteAheadInv ==
    /\ TypeOK
    /\ SessionKnowsFile
    /\ session # Absent => NamedBy(session)
    /\ durable # Absent => NamedBy(durable)
    /\ session # Absent => onHost \subseteq session.intended \cup Tracked(ledger)
    /\ durable = Absent => succeeded \/ onHost = {}

\* A manifest built for the next write has the type of a manifest.
LEMMA NextManifestType ==
    ASSUME TypeOK, session # Absent, NEW intended \in SUBSET Resources
    PROVE  /\ NextManifest(intended) \in Manifest
           /\ NextManifest(intended) # Absent
           /\ NextManifest(intended).rev = session.rev + 1
           /\ NextManifest(intended).intended = intended
           /\ NextManifest(intended).ledger = ledger
BY AbsentIsNoManifest DEF NextManifest, Manifest, TypeOK

LEMMA PreparedType ==
    Prepared \in Manifest /\ Prepared # Absent
BY AbsentIsNoManifest DEF Prepared, Manifest, Entry

\* prepare preserves the invariant.
LEMMA CreatePreserves ==
    ASSUME WriteAheadInv, Create PROVE WriteAheadInv'
BY PreparedType
   DEF WriteAheadInv, Create, TypeOK, SessionKnowsFile, NamedBy, Tracked, Manifest

\* A manifest write preserves the invariant, whichever way it ends.
LEMMA WritePreserves ==
    ASSUME WriteAheadInv, NEW intended \in SUBSET Resources, Write(intended)
    PROVE  WriteAheadInv'
<1> DEFINE next == NextManifest(intended)
<1>1. /\ next \in Manifest /\ next # Absent
      /\ next.rev = session.rev + 1
      /\ next.intended = intended /\ next.ledger = ledger
  BY NextManifestType DEF WriteAheadInv, Write
<1>2. PICK ok \in BOOLEAN :
        /\ armed' = Armed(ok, intended)
        /\ \/ ok /\ Current /\ durable' = next /\ session' = next
           \/ ~ ok /\ UNCHANGED <<durable, session>>
           \/ ~ ok /\ Current /\ durable' = next /\ UNCHANGED session
  BY DEF Write
<1>3. /\ session # Absent /\ onHost \subseteq Tracked(ledger)
      /\ ledger' \in [Resources -> Entry] /\ onHost \subseteq Tracked(ledger')
      /\ UNCHANGED <<onHost, succeeded>>
  BY DEF Write
<1>4. onHost \subseteq next.intended \cup Tracked(next.ledger)
  BY <1>1, <1>3
<1> HIDE DEF next
<1>5. CASE ok /\ Current /\ durable' = next /\ session' = next
  BY <1>1, <1>2, <1>3, <1>4, <1>5
     DEF WriteAheadInv, TypeOK, SessionKnowsFile, NamedBy, Tracked, Armed, Current
<1>6. CASE ~ ok /\ UNCHANGED <<durable, session>>
  BY <1>2, <1>3, <1>6
     DEF WriteAheadInv, TypeOK, SessionKnowsFile, NamedBy, Tracked, Armed
<1>7. CASE ~ ok /\ Current /\ durable' = next /\ UNCHANGED session
  BY <1>1, <1>2, <1>3, <1>4, <1>7
     DEF WriteAheadInv, TypeOK, SessionKnowsFile, NamedBy, Tracked, Armed, Current
<1> QED BY <1>2, <1>5, <1>6, <1>7

\* A host change preserves the invariant: the session is armed, so the file is
\* the session's manifest and announces everything the change may add.
LEMMA ChangePreserves ==
    ASSUME WriteAheadInv, Change PROVE WriteAheadInv'
<1>1. session # Absent /\ durable = session
  BY DEF WriteAheadInv, SessionKnowsFile, Change
<1>2. /\ onHost' \subseteq onHost \cup session.intended
      /\ armed' \in {armed, FALSE}
      /\ UNCHANGED <<session, durable, succeeded>>
  BY Zenon DEF Change
<1>3. onHost' \subseteq session.intended \cup Tracked(session.ledger)
  BY <1>1, <1>2 DEF WriteAheadInv, NamedBy
<1>4. onHost' \subseteq session.intended \cup Tracked(ledger')
  BY <1>2 DEF WriteAheadInv, Change, SessionKnowsFile
<1>5. TypeOK'
  BY <1>1, <1>2, Zenon DEF WriteAheadInv, TypeOK, Change, Manifest
<1> QED BY <1>1, <1>2, <1>3, <1>4, <1>5
        DEF WriteAheadInv, SessionKnowsFile, NamedBy, Tracked

\* Bookkeeping, completion and the end of a session preserve the invariant.
LEMMA RecordPreserves ==
    ASSUME WriteAheadInv, Record PROVE WriteAheadInv'
<1>1. /\ armed' \in {armed, FALSE}
      /\ UNCHANGED <<onHost, session, durable, succeeded>>
  BY Zenon DEF Record
<1>2. TypeOK'
  BY <1>1, Zenon DEF WriteAheadInv, Record, TypeOK
<1>3. SessionKnowsFile'
  BY <1>1, Zenon DEF WriteAheadInv, SessionKnowsFile
<1>4. session # Absent => onHost \subseteq session.intended \cup Tracked(ledger')
  BY DEF WriteAheadInv, Record
<1> QED BY <1>1, <1>2, <1>3, <1>4 DEF WriteAheadInv, NamedBy, Tracked

LEMMA CompletePreserves ==
    ASSUME WriteAheadInv, Complete PROVE WriteAheadInv'
BY Zenon DEF WriteAheadInv, Complete, TypeOK, SessionKnowsFile, NamedBy, Tracked

LEMMA FinishPreserves ==
    ASSUME WriteAheadInv, Finish PROVE WriteAheadInv'
BY Zenon DEF WriteAheadInv, Finish, Current, TypeOK, SessionKnowsFile, NamedBy, Tracked

\* The invariant holds in every reachable state.
THEOREM WriteAheadInvariant == Spec => []WriteAheadInv
<1>1. Init => WriteAheadInv
  BY AbsentIsNoManifest, Zenon
     DEF Init, WriteAheadInv, TypeOK, SessionKnowsFile, NamedBy, Tracked, Entry
<1>2. WriteAheadInv /\ [Next]_vars => WriteAheadInv'
  <2>1. CASE UNCHANGED vars
    BY <2>1 DEF vars, WriteAheadInv, TypeOK, SessionKnowsFile, NamedBy, Tracked
  <2> QED BY <2>1, IntentsAreSets, CreatePreserves, WritePreserves, ChangePreserves,
             RecordPreserves, CompletePreserves, FinishPreserves DEF Next
<1> QED BY <1>1, <1>2, PTL DEF Spec

\* Type correctness.
THEOREM TypeCorrect == Spec => []TypeOK
<1>1. WriteAheadInv => TypeOK
  BY DEF WriteAheadInv
<1> QED BY <1>1, WriteAheadInvariant, PTL

\* After a crash at any point, whatever writes failed before it, the manifest
\* on disk names everything the deployment has left on the host.
THEOREM CrashRecoverable == Spec => []Recoverable
<1>1. WriteAheadInv => Recoverable
  BY DEF WriteAheadInv, Recoverable, NamedBy
<1> QED BY <1>1, WriteAheadInvariant, PTL

\* The host changes only under a manifest that the session wrote and knows.
THEOREM NoBlindChange == Spec => ChangeUnderKnownManifest
<1>1. WriteAheadInv /\ [Next]_vars =>
        [onHost' # onHost => durable = session /\ durable # Absent]_vars
  BY Zenon DEF WriteAheadInv, SessionKnowsFile, Next, vars, Create, Write, Change,
         Record, Complete, Finish
<1> QED BY <1>1, WriteAheadInvariant, PTL DEF Spec, ChangeUnderKnownManifest

-----------------------------------------------------------------------------
(* The engine implements the write-ahead specification.                      *)

\* The state the specification sees.
OnHost == {r \in DeployedResources : host[r] = "ours" /\ Named(r)}
View == LedgerView(report.ledger)
IsArmed == run.pc \in {"effect", "finishSource", "committing", "unmount",
                       "unmountCommitting", "remove", "removed"}
HasSucceeded == run.result = "ok" /\ run.pc \in {"finishing", "done"}
Announcements == {{r} : r \in DeployedResources}
                   \cup {{"ExternalImage", "NspawnConfig"},
                         {"ExternalImage", "NspawnConfig", "SystemdOverride"}}

LEMMA ViewType ==
    ASSUME NEW l \in [DeployedResources -> Dispositions]
    PROVE  /\ LedgerView(l) \in [DeployedResources -> WA!Entry]
           /\ WA!Tracked(LedgerView(l)) =
                {r \in DeployedResources : l[r] \in Owned \cup {"OutcomeUnknown"}}
<1>1. \A r \in DeployedResources :
        /\ LedgerView(l)[r] \in {"none", "notOurs", "tracked"}
        /\ LedgerView(l)[r] = "tracked" <=> l[r] \in Owned \cup {"OutcomeUnknown"}
  BY DEF LedgerView, Dispositions, Owned
<1> QED
  BY <1>1 DEF WA!Tracked, WA!Entry, LedgerView

LEMMA ManifestViewType ==
    ASSUME NEW m \in CrashManifests
    PROVE  /\ ManifestView(m) \in WA!Manifest /\ ManifestView(m) # NoManifest /\ m # NoManifest
           /\ ManifestView(m).rev = m.rev /\ ManifestView(m).intended = m.intended
<1>1. m # NoManifest
  BY NoManifestIsNone
<1>2. m.rev \in Nat /\ m.intended \in SUBSET DeployedResources
      /\ LedgerView(m.ledger) \in [DeployedResources -> WA!Entry]
  BY DEF CrashManifests, LedgerView, WA!Entry
<1>3. ManifestView(m) = [rev |-> m.rev, intended |-> m.intended, ledger |-> LedgerView(m.ledger)]
  BY <1>1 DEF ManifestView
<1>4. ManifestView(m) \in WA!Manifest
  BY <1>2, <1>3 DEF WA!Manifest
<1> QED
  BY <1>1, <1>3, <1>4, NoManifestIsNone

\* Outside the moment a stage has just failed, what is on the host is tracked.
LEMMA OnHostIsTracked ==
    ASSUME EngineInv, run.pc # "stopped"
    PROVE  OnHost \subseteq WA!Tracked(View)
<1>1. WA!Tracked(View) = {r \in DeployedResources : Tracks(r)}
  BY ViewType DEF EngineInv, EngineTypeOK, Reports, View, Tracks
<1> QED
  BY <1>1 DEF EngineInv, Accounted, OnHost, Named

\* The same after a step, which also keeps the ledger typed.
LEMMA OnHostIsTrackedNext ==
    ASSUME EngineInv'
    PROVE  /\ View' \in [DeployedResources -> WA!Entry]
           /\ WA!Tracked(View') = {r \in DeployedResources : Tracks(r)'}
           /\ run'.pc # "stopped" => OnHost' \subseteq WA!Tracked(View')
<1>1. report'.ledger \in [DeployedResources -> Dispositions]
  BY DEF EngineInv, EngineTypeOK, Reports
<1>2. View' = LedgerView(report'.ledger)
  BY DEF View, LedgerView
<1>3. /\ View' \in [DeployedResources -> WA!Entry]
      /\ WA!Tracked(View') = {r \in DeployedResources : Tracks(r)'}
  BY <1>1, <1>2, ViewType DEF Tracks
<1>4. run'.pc # "stopped" => OnHost' \subseteq WA!Tracked(View')
  BY <1>3 DEF EngineInv, Accounted, OnHost, Named
<1> QED
  BY <1>3, <1>4

\* A step that leaves the host, the session and the manifest alone.
LEMMA Bookkeeping ==
    ASSUME EngineInv, EngineInv', UNCHANGED <<plan, current, manifestFile>>, OnHost' = OnHost,
           IsArmed' => IsArmed, HasSucceeded' = HasSucceeded,
           run'.pc # "stopped" \/ report'.ledger = report.ledger
    PROVE  WA!Record
<1>1. View' \in [DeployedResources -> WA!Entry]
  BY OnHostIsTrackedNext, Zenon
<1>2. OnHost \cap WA!Tracked(View) \subseteq WA!Tracked(View')
  <2>1. CASE run'.pc # "stopped"
    BY <2>1, OnHostIsTrackedNext, Zenon
  <2>2. CASE report'.ledger = report.ledger
    <3>1. View' = View
      BY <2>2 DEF View, LedgerView
    <3> QED
      BY <3>1, Zenon
  <2> QED
    BY <2>1, <2>2
<1>3. ManifestView(current)' = ManifestView(current) /\ ManifestView(manifestFile)' = ManifestView(manifestFile)
  BY DEF ManifestView, LedgerView
<1>4. IsArmed \in BOOLEAN /\ IsArmed' \in BOOLEAN
  BY SMTT(30) DEF IsArmed
<1>5. IsArmed' \in {IsArmed, FALSE}
  BY <1>4, Zenon
<1> QED
  BY <1>1, <1>2, <1>3, <1>5, Zenon DEF WA!Record, OnHost, View, IsArmed, HasSucceeded, WA!Tracked

\* A manifest write of the engine.
LEMMA PersistIsWrite ==
    ASSUME EngineInv, EngineInv', NEW ok \in BOOLEAN, NEW state \in States,
           NEW intended \in Announcements \cup {{}}, Persist(ok, state, intended),
           UNCHANGED <<plan, host>>, run.pc \notin {"new", "stopped", "done"},
           IsArmed' <=> (ok /\ intended # {}), ~ HasSucceeded, ~ HasSucceeded',
           run'.pc # "stopped" \/ report' = report
    PROVE  WA!Next
<1>1. current # NoManifest /\ current \in CrashManifests
  BY Zenon DEF EngineInv, EngineTypeOK, Placed
<1>2. /\ ManifestView(current) # NoManifest /\ ManifestView(current).rev = current.rev
  BY <1>1, ManifestViewType
<1>3. ASSUME SessionIsDurable
      PROVE  WA!Current
  <2>1. manifestFile \in CrashManifests /\ manifestFile.rev = current.rev
    BY <1>3 DEF SessionIsDurable, EngineInv, EngineTypeOK
  <2>2. ManifestView(manifestFile) # NoManifest /\ ManifestView(manifestFile).rev = manifestFile.rev
    BY <2>1, ManifestViewType, Zenon
  <2> QED
    BY <1>2, <2>1, <2>2 DEF WA!Current
<1> DEFINE next == ManifestOf(current.rev + 1, state, intended)
<1>4. next # NoManifest => ManifestView(next) = WA!NextManifest(intended)
  BY <1>2, Zenon DEF ManifestView, ManifestOf, WA!NextManifest
<1>5. /\ ok => SessionIsDurable /\ manifestFile' = next /\ current' = next
      /\ ~ ok => \/ UNCHANGED <<manifestFile, current>>
                 \/ SessionIsDurable /\ manifestFile' = next /\ UNCHANGED current
  BY DEF Persist
<1>6. next # NoManifest
  <2>1. intended \subseteq DeployedResources
    BY DEF Announcements, DeployedResources, Removable
  <2>2. next \in CrashManifests
    BY <1>1, <2>1, SMTT(30) DEF ManifestOf, CrashManifests, States, EngineInv, EngineTypeOK, Reports
  <2> QED
    BY <2>2, NoManifestIsNone
<1> HIDE DEF next
<1>7. /\ ok => /\ WA!Current /\ ManifestView(manifestFile)' = WA!NextManifest(intended)
               /\ ManifestView(current)' = WA!NextManifest(intended)
      /\ ~ ok => /\ ManifestView(current)' = ManifestView(current)
                 /\ \/ ManifestView(manifestFile)' = ManifestView(manifestFile)
                    \/ WA!Current /\ ManifestView(manifestFile)' = WA!NextManifest(intended)
  BY <1>3, <1>4, <1>5, <1>6 DEF ManifestView, LedgerView
<1>8. OnHost' = OnHost /\ OnHost \subseteq WA!Tracked(View)
  BY OnHostIsTracked DEF OnHost, Named
<1>9. View' \in [DeployedResources -> WA!Entry] /\ OnHost \subseteq WA!Tracked(View')
  <2>1. CASE run'.pc # "stopped"
    BY <1>8, <2>1, OnHostIsTrackedNext
  <2>2. CASE report' = report
    <3>1. View' = View
      BY <2>2 DEF View, LedgerView
    <3> QED
      BY <1>8, <3>1, OnHostIsTrackedNext
  <2> QED
    BY <2>1, <2>2
<1>10. IsArmed' = WA!Armed(ok, intended) /\ HasSucceeded' = HasSucceeded
  BY DEF IsArmed, HasSucceeded, WA!Armed
<1>11. WA!Write(intended)
  BY <1>2, <1>7, <1>8, <1>9, <1>10, Zenon
     DEF WA!Write, OnHost, View, IsArmed, HasSucceeded, WA!Tracked
<1> QED
  BY <1>11 DEF WA!Next, Announcements

\* A change of the host under a manifest that announces it.
LEMMA HostStepIsChange ==
    ASSUME EngineInv, EngineInv', UNCHANGED <<plan, current, manifestFile>>,
           IsArmed, ~ HasSucceeded, ~ HasSucceeded',
           \A r \in OnHost' : r \in OnHost \cup current.intended,
           run'.pc # "stopped" \/ \A r \in DeployedResources : Tracks(r) => Tracks(r)'
    PROVE  WA!Next
<1>1. current # NoManifest /\ current \in CrashManifests
  BY Zenon DEF EngineInv, EngineTypeOK, Placed, IsArmed
<1>2. ManifestView(current).intended = current.intended
  BY <1>1, ManifestViewType
<1>3. ManifestView(current)' = ManifestView(current) /\ ManifestView(manifestFile)' = ManifestView(manifestFile)
  BY DEF ManifestView, LedgerView
<1>4. OnHost' \in SUBSET (OnHost \cup ManifestView(current).intended)
  BY <1>2
<1>5. View' \in [DeployedResources -> WA!Entry]
  BY OnHostIsTrackedNext
<1>6. (OnHost \cap OnHost') \cap WA!Tracked(View) \subseteq WA!Tracked(View')
  <2>1. CASE run'.pc # "stopped"
    BY <2>1, OnHostIsTrackedNext
  <2>2. CASE \A r \in DeployedResources : Tracks(r) => Tracks(r)'
    <3>1. WA!Tracked(View) = {r \in DeployedResources : Tracks(r)}
      BY ViewType, Zenon DEF EngineInv, EngineTypeOK, Reports, View, Tracks
    <3> QED
      BY <2>2, <3>1, OnHostIsTrackedNext
  <2> QED
    BY <2>1, <2>2
<1>7. IsArmed' \in {IsArmed, FALSE} /\ HasSucceeded' = HasSucceeded
  <2>1. IsArmed \in BOOLEAN /\ IsArmed' \in BOOLEAN
    BY SMTT(30) DEF IsArmed
  <2>2. IsArmed' \in {IsArmed, FALSE}
    BY <2>1, Zenon
  <2> QED
    BY <2>2, Zenon DEF HasSucceeded
<1>8. WA!Change
  BY <1>3, <1>4, <1>5, <1>6, <1>7, Zenon
     DEF WA!Change, OnHost, View, IsArmed, HasSucceeded, WA!Tracked
<1> QED
  BY <1>8 DEF WA!Next

LEMMA PrepareIsCreate ==
    ASSUME EngineInv, Prepare
    PROVE  WA!Next
<1>1. /\ run.pc = "new" /\ run.result = "none" /\ current = NoManifest /\ manifestFile = NoManifest
      /\ \A r \in DeployedResources : report.ledger[r] = "None" /\ host[r] # "ours"
      /\ UNCHANGED <<plan, report, host>> /\ run \in Positions
  BY Zenon DEF Prepare, EngineInv, EngineTypeOK, Placed, Fresh
<1>2. PreparedManifest \in CrashManifests
  BY Zenon DEF PreparedManifest, ManifestOf, CrashManifests, EngineInv, EngineTypeOK, Reports
<1>3. ManifestView(PreparedManifest) = WA!Prepared
  <2>1. PreparedManifest # NoManifest
    BY <1>2, NoManifestIsNone
  <2>2. LedgerView(report.ledger) = [r \in DeployedResources |-> "none"]
    BY <1>1 DEF LedgerView
  <2> QED
    BY <2>1, <2>2, Zenon DEF ManifestView, PreparedManifest, ManifestOf, WA!Prepared
<1>4. ManifestView(NoManifest) = NoManifest
  BY DEF ManifestView
<1>5. PICK p \in {"preflight", "done"} :
        /\ run' = Goto(p)
        /\ \/ manifestFile' = PreparedManifest /\ current' = PreparedManifest
           \/ manifestFile' \in {NoManifest, PreparedManifest} /\ UNCHANGED current
  BY DEF Prepare
<1>6. run'.pc = p /\ run'.result = "none"
  BY <1>1, <1>5, GotoType DEF Pcs
<1>7. \/ /\ ManifestView(manifestFile)' = WA!Prepared
         /\ ManifestView(current)' = WA!Prepared
      \/ /\ ManifestView(manifestFile)' \in {NoManifest, WA!Prepared}
         /\ ManifestView(current)' = ManifestView(current)
  BY <1>1, <1>3, <1>4, <1>5 DEF ManifestView, LedgerView
<1>8. OnHost = {} /\ OnHost' = {} /\ View' = View
  BY <1>1 DEF OnHost, Named, View, LedgerView
<1>9. IsArmed' = IsArmed /\ HasSucceeded' = HasSucceeded
  BY <1>1, <1>6 DEF IsArmed, HasSucceeded
<1>10. WA!Create
  BY <1>1, <1>4, <1>7, <1>8, <1>9, Zenon DEF WA!Create, OnHost, View, IsArmed, HasSucceeded
<1> QED
  BY <1>10 DEF WA!Next

\* The manifest writes of the engine.
LEMMA WritesAreWrites ==
    ASSUME EngineInv, EngineInv',
           \/ PersistApplying \/ PersistCommitted \/ Preserve \/ PersistUnmounting
           \/ PersistUnmounted \/ PersistRollback \/ PersistRemoved \/ PersistPending
    PROVE  WA!Next
<1> USE DEF EngineInv
<1>1. run \in Positions /\ {"Applying", "Committed", "CleanupPending"} \subseteq States
  BY DEF EngineTypeOK, States
<1>2. CASE PersistApplying
  <2>1. PICK ok \in BOOLEAN :
          /\ Persist(ok, "Applying", Intended)
          /\ run' = IF ok THEN [Goto("effect") EXCEPT !.mountAttempted = @ \/ Stage = "mount"]
                    ELSE Stopped("failed")
    BY <1>2 DEF PersistApplying
  <2>2. run.pc = "applying" /\ UNCHANGED <<plan, report, host>> /\ run.stage # 0 /\ Runs(Stage)
    BY <1>2 DEF PersistApplying, Placed, ForwardPcs
  <2>3. Intended \in Announcements /\ Intended # {}
    <3>1. CASE Stage = "source"
      BY <3>1, SourceTyped
         DEF EngineTypeOK, Intended, SourceResources, Announcements, DeployedResources, Removable
    <3>2. CASE Stage # "source"
      BY <2>2, <3>2, TargetOfStage DEF EngineTypeOK, Announcements
    <3> QED
      BY <3>1, <3>2
  <2>4. run'.pc = IF ok THEN "effect" ELSE "stopped"
    BY <1>1, <2>1 DEF Goto, Stopped, Positions
  <2>5. (IsArmed' <=> ok) /\ ~ HasSucceeded /\ ~ HasSucceeded'
    BY <2>2, <2>4 DEF IsArmed, HasSucceeded
  <2> QED
    BY <1>1, <2>1, <2>2, <2>3, <2>4, <2>5, PersistIsWrite
<1>3. CASE PersistCommitted
  <2>1. PICK ok \in BOOLEAN :
          /\ Persist(ok, "Committed", {})
          /\ run' = IF ok THEN Goto("checkpoint") ELSE Stopped("failed")
    BY <1>3 DEF PersistCommitted
  <2>2. run.pc = "committing" /\ UNCHANGED <<plan, report, host>>
    BY <1>3 DEF PersistCommitted
  <2>3. run'.pc = IF ok THEN "checkpoint" ELSE "stopped"
    BY <1>1, <2>1 DEF Goto, Stopped, Positions
  <2>4. ~ IsArmed' /\ ~ HasSucceeded /\ ~ HasSucceeded'
    BY <2>2, <2>3 DEF IsArmed, HasSucceeded
  <2> QED
    BY <1>1, <2>1, <2>2, <2>4, PersistIsWrite
<1>4. CASE Preserve \/ PersistPending
  <2>1. PICK ok \in BOOLEAN : Persist(ok, "CleanupPending", {})
    BY <1>4 DEF Preserve, PersistPending
  <2>2. run.pc \in {"preserve", "pending"} /\ run' = Goto("done") /\ UNCHANGED <<plan, report, host>>
    BY <1>4 DEF Preserve, PersistPending
  <2>3. run'.pc = "done" /\ run'.result = run.result /\ run.result # "ok"
    BY <1>1, <2>2, GotoType DEF Placed, Pcs
  <2>4. ~ IsArmed' /\ ~ HasSucceeded /\ ~ HasSucceeded'
    BY <2>2, <2>3 DEF IsArmed, HasSucceeded
  <2> QED
    BY <1>1, <2>1, <2>2, <2>4, PersistIsWrite
<1>5. CASE PersistUnmounting
  <2>1. PICK ok \in BOOLEAN :
          /\ Persist(ok, "Applying", {run.mount})
          /\ run' = IF ok THEN Goto("unmount")
                    ELSE AfterMount([run EXCEPT !.errors = TRUE, !.durableFailed = TRUE])
    BY <1>5 DEF PersistUnmounting
  <2>2. run.pc = "unmountApplying" /\ UNCHANGED <<plan, host>> /\ run.mount \in Mounts
    BY <1>1, <1>5 DEF PersistUnmounting, Positions
  <2>3. /\ ok => run'.pc = "unmount"
        /\ ~ ok => run'.pc \in {"unmountApplying", "decide"}
    BY <1>1, <2>1, <2>2, GotoType, MoveTypes DEF MovesOn, Pcs, Mounts
  <2>4. (IsArmed' <=> ok) /\ ~ HasSucceeded /\ ~ HasSucceeded' /\ run'.pc # "stopped"
    BY <2>2, <2>3 DEF IsArmed, HasSucceeded
  <2>5. {run.mount} \in Announcements /\ {run.mount} # {}
    BY <2>2 DEF Announcements, DeployedResources
  <2> QED
    BY <1>1, <2>1, <2>2, <2>4, <2>5, PersistIsWrite
<1>6. CASE PersistUnmounted
  <2>1. PICK ok \in BOOLEAN :
          /\ Persist(ok, "Committed", {})
          /\ run' = IF ok THEN AfterMount(run)
                    ELSE AfterMount([run EXCEPT !.errors = TRUE, !.durableFailed = TRUE])
    BY <1>6 DEF PersistUnmounted
  <2>2. run.pc = "unmountCommitting" /\ UNCHANGED <<plan, host>> /\ run.mount \in Mounts
    BY <1>1, <1>6 DEF PersistUnmounted, Positions
  <2>3. run'.pc \in {"unmountApplying", "decide"}
    BY <1>1, <2>1, <2>2, MoveTypes DEF MovesOn, Mounts
  <2>4. ~ IsArmed' /\ ~ HasSucceeded /\ ~ HasSucceeded' /\ run'.pc # "stopped"
    BY <2>2, <2>3 DEF IsArmed, HasSucceeded
  <2> QED
    BY <1>1, <2>1, <2>2, <2>4, PersistIsWrite
<1>7. CASE PersistRollback
  <2>1. PICK v \in run.queue : \E ok \in BOOLEAN :
          /\ Persist(ok, "Applying", {v})
          /\ run' = IF ok THEN [Goto("remove") EXCEPT !.victim = v, !.queue = @ \ {v}]
                    ELSE RollbackBreaks
    BY <1>7, Zenon DEF PersistRollback
  <2>2. PICK ok \in BOOLEAN :
          /\ Persist(ok, "Applying", {v})
          /\ run' = IF ok THEN [Goto("remove") EXCEPT !.victim = v, !.queue = @ \ {v}]
                    ELSE RollbackBreaks
    BY <2>1
  <2>3. run.pc = "rollback" /\ UNCHANGED <<plan, host>>
    BY <1>7, Zenon DEF PersistRollback
  <2>4. run'.pc = IF ok THEN "remove" ELSE "rollback"
    BY <1>1, <2>2 DEF Goto, RollbackBreaks, Positions
  <2>5. (IsArmed' <=> ok) /\ ~ HasSucceeded /\ ~ HasSucceeded' /\ run'.pc # "stopped"
    BY <2>3, <2>4 DEF IsArmed, HasSucceeded
  <2>6. {v} \in Announcements /\ {v} # {}
    BY <1>1 DEF Announcements, DeployedResources, Positions
  <2> QED
    BY <1>1, <2>2, <2>3, <2>5, <2>6, PersistIsWrite
<1>8. CASE PersistRemoved
  <2>1. PICK ok \in BOOLEAN :
          /\ Persist(ok, "Committed", {})
          /\ run' = IF ok THEN Goto("rollback") ELSE RollbackBreaks
    BY <1>8 DEF PersistRemoved
  <2>2. run.pc = "removed" /\ UNCHANGED <<plan, host>>
    BY <1>8 DEF PersistRemoved
  <2>3. run'.pc = "rollback"
    BY <1>1, <2>1 DEF Goto, RollbackBreaks, Positions
  <2>4. ~ IsArmed' /\ ~ HasSucceeded /\ ~ HasSucceeded' /\ run'.pc # "stopped"
    BY <2>2, <2>3 DEF IsArmed, HasSucceeded
  <2> QED
    BY <1>1, <2>1, <2>2, <2>4, PersistIsWrite
<1> QED
  BY <1>2, <1>3, <1>4, <1>5, <1>6, <1>7, <1>8

\* What a stage does on the host.
LEMMA EffectIsChange ==
    ASSUME EngineInv, EngineInv', run.pc \in {"effect", "finishSource"}, EffectKeeps,
           run'.pc \in {"committing", "finishSource", "stopped"},
           \A r \in DeployedResources : host'[r] = "ours" => host[r] = "ours" \/ r \in Intended,
           run'.pc # "stopped" \/ \A r \in DeployedResources : Tracks(r) => Tracks(r)'
    PROVE  WA!Next
<1>1. UNCHANGED <<plan, current, manifestFile>> /\ current.intended = Intended
  BY Zenon DEF EffectKeeps, EngineInv, Placed
<1>2. IsArmed /\ ~ HasSucceeded /\ ~ HasSucceeded'
  BY DEF IsArmed, HasSucceeded
<1>3. \A r \in OnHost' : r \in OnHost \cup current.intended
  BY <1>1 DEF OnHost, Named
<1> QED
  BY <1>1, <1>2, <1>3, HostStepIsChange

LEMMA SidecarIsChange ==
    ASSUME EngineInv, EngineInv', run.pc \in {"effect", "finishSource"}, EffectKeeps,
           run'.pc \in {"committing", "stopped"},
           NEW r \in {"NvidiaState", "NspawnConfig", "SystemdOverride"}, StageOf(r) = run.stage,
           r \in Intended, NEW status \in Statuses(r),
           host' = WrittenBy(r, status), report' = RecordApply(report, r, status)
    PROVE  WA!Next
<1>1. r \in DeployedResources /\ r # "ExternalImage"
  BY DEF DeployedResources, Removable
<1>2. report.ledger[r] = "None" /\ report \in Reports
  BY <1>1, NotYet, Zenon DEF EngineInv, EngineTypeOK
<1>3. status \in {"Created", "ReplacedOwned", "Unchanged", "ConflictUnknownOwner"}
  BY DEF Statuses
<1>4. PICK d \in {"Created", "Adopted", "PreExisting"} :
        report'.ledger = [report.ledger EXCEPT ![r] = d]
  BY <1>1, <1>2, <1>3, ApplyType
<1>5. \A x \in DeployedResources : Tracks(x) => Tracks(x)'
  BY <1>1, <1>2, <1>4, Zenon DEF Tracks, Reports, Owned
<1>6. \A x \in DeployedResources : host'[x] = "ours" => host[x] = "ours" \/ x \in Intended
  BY <1>1, Zenon DEF WrittenBy, EngineInv, EngineTypeOK
<1> QED
  BY <1>5, <1>6, EffectIsChange

LEMMA EffectsAreChanges ==
    ASSUME EngineInv, EngineInv',
           \/ CreateStorage \/ MountStorage \/ FillRootfs \/ ObtainImage \/ RejectClonedConfig
           \/ FinishClone \/ PromoteOci \/ MountRaw \/ MutateRootfs \/ WriteSidecar \/ StageFails
    PROVE  WA!Next
<1> USE DEF EngineInv
<1>1. /\ run.pc \in {"effect", "finishSource"} /\ EffectKeeps
  BY DEF CreateStorage, MountStorage, FillRootfs, ObtainImage, RejectClonedConfig, FinishClone,
         PromoteOci, MountRaw, MutateRootfs, WriteSidecar, StageFails
<1>2. /\ run \in Positions /\ run.stage # 0 /\ Runs(Stage) /\ run.result = "none"
      /\ report \in Reports
  BY <1>1, Zenon DEF EngineTypeOK, Placed, ForwardPcs
<1>3. /\ Goto("committing").pc = "committing" /\ Goto("finishSource").pc = "finishSource"
      /\ [Goto("committing") EXCEPT !.rawMounted = TRUE].pc = "committing"
      /\ \A result : Stopped(result).pc = "stopped"
  BY <1>2 DEF Goto, Stopped, Positions
<1>4. CASE CreateStorage \/ MountStorage \/ MutateRootfs \/ FillRootfs \/ MountRaw
  <2>1. /\ run'.pc = "committing"
        /\ host' = host \/ host' = [host EXCEPT ![Target[Stage]] = "ours"]
        /\ Stage = "source" => host' = host
    <3>1. /\ Target["storage"] = "LocalStorage" /\ Target["mount"] = "StorageMount"
          /\ Target["rawMount"] = "RawConfigurationMount"
      BY DEF Target
    <3>2. CASE CreateStorage \/ MountStorage
      BY <1>3, <3>1, <3>2 DEF CreateStorage, MountStorage, Applied
    <3>3. CASE MountRaw
      BY <1>3, <3>1, <3>3, Zenon DEF MountRaw, Applied
    <3>4. CASE MutateRootfs
      BY <1>3, <3>4 DEF MutateRootfs, Applied
    <3>5. CASE FillRootfs
      BY <1>3, <3>5 DEF FillRootfs
    <3> QED
      BY <1>4, <3>2, <3>3, <3>4, <3>5
  <2>2. Stage # "source" => Target[Stage] \in Intended
    BY DEF Intended
  <2>3. \A r \in DeployedResources : host'[r] = "ours" => host[r] = "ours" \/ r \in Intended
    BY <2>1, <2>2 DEF EngineTypeOK
  <2> QED
    BY <1>1, <2>1, <2>3, EffectIsChange
<1>5. CASE ObtainImage
  <2>1. PICK copied \in BOOLEAN :
          /\ copied => plan.kind = "clone"
          /\ host' = [host EXCEPT !["ExternalImage"] = "ours",
                                  !["NspawnConfig"] = IF copied THEN "ours" ELSE @]
    BY <1>5, Zenon DEF ObtainImage, Applied
  <2>2. report' = RecordIn(report, "ExternalImage", "Created") /\ Stage = "source" /\ External
    BY <1>5 DEF ObtainImage, Applied
  <2>3. run'.pc \in {"committing", "finishSource", "stopped"}
    BY <1>3, <1>5 DEF ObtainImage
  <2>4. "ExternalImage" \in Intended /\ (copied => "NspawnConfig" \in Intended)
    BY <2>1, <2>2, SourceTyped DEF Intended, SourceResources, External, EngineTypeOK
  <2>5. \A r \in DeployedResources : host'[r] = "ours" => host[r] = "ours" \/ r \in Intended
    BY <2>1, <2>4 DEF EngineTypeOK
  <2>6. "ExternalImage" \in DeployedResources /\ "Created" \in Dispositions /\ "Created" \in Owned
    BY DEF DeployedResources, Removable, Dispositions, Owned
  <2>7. report'.ledger = [report.ledger EXCEPT !["ExternalImage"] = "Created"]
    BY <1>2, <2>2, <2>6, RecordType
  <2>8. \A r \in DeployedResources : Tracks(r) => Tracks(r)'
    BY <1>2, <2>6, <2>7 DEF Tracks, Reports
  <2> QED
    BY <1>1, <2>3, <2>5, <2>8, EffectIsChange, Zenon
<1>6. CASE RejectClonedConfig
  <2>1. host' = host /\ run'.pc = "stopped"
    BY <1>3, <1>6 DEF RejectClonedConfig
  <2>2. report'.ledger = report.ledger
    BY <1>2, <1>6 DEF RejectClonedConfig, Reports
  <2>3. \A r \in DeployedResources : Tracks(r) => Tracks(r)'
    BY <2>2 DEF Tracks
  <2> QED
    BY <1>1, <2>1, <2>3, EffectIsChange
<1>7. CASE FinishClone
  <2>1. run.pc = "finishSource" /\ plan.kind = "clone" /\ run'.pc \in {"committing", "stopped"}
    BY <1>3, <1>7 DEF FinishClone
  <2>2. StageOf("SystemdOverride") = run.stage /\ "SystemdOverride" \in Intended
    BY <2>1, SecondPart DEF StageOf, Intended, SourceResources, Placed
  <2>3. CASE plan.override
    <3>1. PICK status \in Statuses("SystemdOverride") :
            /\ host' = WrittenBy("SystemdOverride", status)
            /\ report' = RecordApply(report, "SystemdOverride", status)
      BY <1>7, <2>3 DEF FinishClone, Applied
    <3> QED
      BY <1>1, <2>1, <2>2, <3>1, SidecarIsChange
  <2>4. CASE ~ plan.override
    <3>1. host' = host /\ report' = report
      BY <1>7, <2>4 DEF FinishClone
    <3>2. \A r \in DeployedResources : Tracks(r) => Tracks(r)'
      BY <3>1 DEF Tracks
    <3> QED
      BY <1>1, <2>1, <3>1, <3>2, EffectIsChange
  <2> QED
    BY <2>3, <2>4
<1>8. CASE PromoteOci
  <2>1. run.pc = "finishSource" /\ plan.kind = "oci" /\ run'.pc \in {"committing", "stopped"}
    BY <1>3, <1>8 DEF PromoteOci
  <2>2. StageOf("NspawnConfig") = run.stage /\ "NspawnConfig" \in Intended
    BY <2>1, SecondPart DEF StageOf, Intended, SourceResources, Placed
  <2>3. PICK status \in Statuses("NspawnConfig") :
          /\ host' = WrittenBy("NspawnConfig", status)
          /\ report' = RecordApply(report, "NspawnConfig", status)
    BY <1>8 DEF PromoteOci, Applied
  <2> QED
    BY <1>1, <2>1, <2>2, <2>3, SidecarIsChange
<1>9. CASE WriteSidecar
  <2>1. /\ run.pc = "effect" /\ Stage \in {"nvidia", "nspawn", "override"}
        /\ run'.pc \in {"committing", "stopped"}
    BY <1>3, <1>9 DEF WriteSidecar
  <2>2. /\ StageOf(Target[Stage]) = run.stage /\ Target[Stage] \in Intended
    BY <1>2, <2>1, TargetOfStage
  <2>3. Target[Stage] \in {"NvidiaState", "NspawnConfig", "SystemdOverride"}
    <3>1. /\ Target["nvidia"] = "NvidiaState" /\ Target["nspawn"] = "NspawnConfig"
          /\ Target["override"] = "SystemdOverride"
      BY Zenon DEF Target
    <3> QED
      BY <2>1, <3>1
  <2>4. PICK status \in Statuses(Target[Stage]) :
          /\ host' = WrittenBy(Target[Stage], status)
          /\ report' = RecordApply(report, Target[Stage], status)
    BY <1>9 DEF WriteSidecar, Applied
  <2> QED
    BY <1>1, <2>1, <2>2, <2>3, <2>4, SidecarIsChange
<1>10. CASE StageFails
  <2>1. PICK touched \in SUBSET Touchable :
          host' = [r \in DeployedResources |-> IF r \in touched THEN "ours" ELSE host[r]]
    BY <1>10 DEF StageFails
  <2>2. report' = report /\ run'.pc = "stopped"
    BY <1>3, <1>10 DEF StageFails
  <2>3. \A r \in DeployedResources : host'[r] = "ours" => host[r] = "ours" \/ r \in Intended
    BY <1>1, <2>1, TouchableIntended
  <2>4. \A r \in DeployedResources : Tracks(r) => Tracks(r)'
    BY <2>2 DEF Tracks
  <2> QED
    BY <1>1, <2>2, <2>3, <2>4, EffectIsChange, Zenon
<1> QED
  BY <1>4, <1>5, <1>6, <1>7, <1>8, <1>9, <1>10

\* Unmounting and rollback.
LEMMA RemovalsAreChanges ==
    ASSUME EngineInv, EngineInv', Unmount \/ RollbackRemove
    PROVE  WA!Next
<1> USE DEF EngineInv
<1>1. run \in Positions /\ run.pc \in {"unmount", "remove"} /\ UNCHANGED <<plan, current, manifestFile>>
  BY DEF Unmount, RollbackRemove, EngineTypeOK
<1>2. run'.pc \in {"unmountApplying", "unmountCommitting", "decide", "rollback", "removed"}
  <2>1. CASE Unmount
    BY <1>1, <2>1, GotoType, MoveTypes DEF Unmount, MovesOn, Pcs, Positions, Mounts
  <2>2. CASE RollbackRemove
    BY <1>1, <2>2, Zenon DEF RollbackRemove, Positions
  <2> QED
    BY <2>1, <2>2
<1>3. IsArmed /\ ~ HasSucceeded /\ ~ HasSucceeded' /\ run'.pc # "stopped"
  BY <1>1, <1>2 DEF IsArmed, HasSucceeded
<1>4. \A r \in DeployedResources : host'[r] = "ours" => host[r] = "ours"
  BY DEF Unmount, RollbackRemove, HostWithout, EngineTypeOK
<1>5. \A r \in OnHost' : r \in OnHost \cup current.intended
  BY <1>1, <1>4 DEF OnHost, Named
<1> QED
  BY <1>1, <1>3, <1>5, HostStepIsChange

\* The rest of the pipeline and of the cleanup keeps the books.
LEMMA RestIsRecord ==
    ASSUME EngineInv, EngineInv',
           \/ Preflight \/ ProbeStops \/ Checkpoint \/ Capture \/ SkipUnmount \/ RollbackEnds
    PROVE  WA!Next
<1> USE DEF EngineInv
<1>1. run \in Positions /\ UNCHANGED <<plan, current, manifestFile, host>>
  BY DEF Preflight, ProbeStops, Checkpoint, Capture, SkipUnmount, RollbackEnds, EngineTypeOK
<1>2. /\ \A result : Stopped(result).pc = "stopped"
      /\ \A n : [Goto("applying") EXCEPT !.stage = n].pc = "applying"
  BY <1>1 DEF Goto, Stopped, Positions
<1>3. CASE Preflight \/ ProbeStops \/ Checkpoint
  <2>1. run.pc \in {"preflight", "applying", "checkpoint"} /\ report' = report
    BY <1>3 DEF Preflight, ProbeStops, Checkpoint
  <2>2. run'.pc \in {"stopped", "applying"}
    <3>1. NextStage => run'.pc \in {"stopped", "applying"}
      BY <1>2, Zenon DEF NextStage
    <3> QED
      BY <1>2, <1>3, <3>1 DEF Preflight, ProbeStops, Checkpoint
  <2>3. ~ IsArmed' /\ HasSucceeded' = HasSucceeded /\ OnHost' = OnHost
    BY <1>1, <2>1, <2>2 DEF IsArmed, HasSucceeded, OnHost, Named
  <2> QED
    BY <1>1, <2>1, <2>3, Bookkeeping DEF WA!Next
<1>4. CASE Capture \/ SkipUnmount
  <2>1. run.pc \in {"stopped", "unmountApplying"}
    BY <1>4 DEF Capture, SkipUnmount
  <2>2. run'.pc \in {"preserve", "unmountApplying", "decide"}
    <3>1. CASE Capture
      BY <1>1, <3>1 DEF Capture, Goto, Positions
    <3>2. CASE SkipUnmount
      BY <1>1, <3>2, MoveTypes DEF SkipUnmount, MovesOn, Positions, Mounts
    <3> QED
      BY <1>4, <3>1, <3>2
  <2>3. ~ IsArmed' /\ HasSucceeded' = HasSucceeded /\ OnHost' = OnHost /\ run'.pc # "stopped"
    BY <1>1, <2>1, <2>2 DEF IsArmed, HasSucceeded, OnHost, Named
  <2> QED
    BY <1>1, <2>3, Bookkeeping, Zenon DEF WA!Next
<1>5. CASE RollbackEnds
  <2>1. run.pc = "rollback" /\ run.result # "ok"
    BY <1>5 DEF RollbackEnds, Placed, RollbackPcs
  <2>2. run'.pc \in {"pending", "finishing"} /\ run'.result = run.result
    BY <1>1, <1>5, Zenon DEF RollbackEnds, Goto, Positions
  <2>3. ~ IsArmed' /\ HasSucceeded' = HasSucceeded /\ OnHost' = OnHost /\ run'.pc # "stopped"
    BY <1>1, <2>1, <2>2 DEF IsArmed, HasSucceeded, OnHost, Named
  <2> QED
    BY <1>1, <2>3, Bookkeeping DEF WA!Next
<1> QED
  BY <1>3, <1>4, <1>5

LEMMA EnvironmentIsRecord ==
    ASSUME EngineInv, EngineInv', Cancel \/ EngineCrash \/ AdminWritesConfig
    PROVE  WA!Next
<1>1. UNCHANGED <<plan, run, report, current, manifestFile>>
  BY DEF Cancel, EngineCrash, AdminWritesConfig
<1>2. \A r \in DeployedResources : host'[r] = "ours" <=> host[r] = "ours"
  BY DEF Cancel, EngineCrash, AdminWritesConfig, EngineInv, EngineTypeOK
<1>3. OnHost' = OnHost /\ IsArmed' = IsArmed /\ HasSucceeded' = HasSucceeded
  BY <1>1, <1>2 DEF OnHost, Named, IsArmed, HasSucceeded
<1> QED
  BY <1>1, <1>3, Bookkeeping DEF WA!Next

\* The decision completes the deployment, or starts its rollback.
LEMMA DecideIsComplete ==
    ASSUME EngineInv, EngineInv', Decide
    PROVE  WA!Next
<1> USE DEF EngineInv
<1>1. /\ run \in Positions /\ run.pc = "decide"
      /\ UNCHANGED <<plan, report, current, manifestFile, host>>
  BY DEF Decide, EngineTypeOK
<1>2. OnHost' = OnHost /\ View' = View /\ OnHost \subseteq WA!Tracked(View)
  BY <1>1, OnHostIsTracked DEF OnHost, Named, View, LedgerView
<1>3. CASE FinalResult = "ok"
  <2>1. run' = Goto("finishing") /\ run.result = "ok"
    BY <1>3 DEF Decide, FinalResult
  <2>2. run'.pc = "finishing" /\ run'.result = "ok"
    BY <1>1, <2>1, GotoType DEF Pcs
  <2>3. ~ HasSucceeded /\ HasSucceeded' = TRUE /\ IsArmed' = FALSE
    BY <1>1, <2>2 DEF IsArmed, HasSucceeded
  <2>4. ManifestView(current)' = ManifestView(current) /\ ManifestView(manifestFile)' = ManifestView(manifestFile)
    BY <1>1 DEF ManifestView, LedgerView
  <2>5. WA!Complete
    BY <1>2, <2>3, <2>4, Zenon DEF WA!Complete, OnHost, View, IsArmed, HasSucceeded, WA!Tracked
  <2> QED
    BY <2>5 DEF WA!Next
<1>4. CASE FinalResult # "ok"
  <2>1. run'.pc = "rollback"
    BY <1>1, <1>4 DEF Decide, Goto, Positions
  <2>2. ~ IsArmed' /\ HasSucceeded' = HasSucceeded /\ run'.pc # "stopped"
    BY <1>1, <2>1 DEF IsArmed, HasSucceeded
  <2> QED
    BY <1>1, <1>2, <2>2, Bookkeeping DEF WA!Next
<1> QED
  BY <1>3, <1>4

LEMMA FinishIsFinish ==
    ASSUME EngineInv, EngineFinish
    PROVE  WA!Next
<1> USE DEF EngineInv
<1>1. /\ run \in Positions /\ run.pc = "finishing" /\ run' = Goto("done")
      /\ UNCHANGED <<plan, report, current, host>>
      /\ current \in CrashManifests
      /\ manifestFile' = manifestFile \/ (SessionIsDurable /\ manifestFile' = NoManifest)
  BY Zenon DEF EngineFinish, EngineTypeOK, Placed
<1>2. run'.pc = "done" /\ run'.result = run.result
  BY <1>1, GotoType DEF Pcs
<1>3. OnHost' = OnHost /\ View' = View
  BY <1>1 DEF OnHost, Named, View, LedgerView
<1>4. IsArmed' = FALSE /\ HasSucceeded' = HasSucceeded
  BY <1>1, <1>2 DEF IsArmed, HasSucceeded
<1>5. HasSucceeded \/ OnHost = {}
  BY <1>1 DEF HasSucceeded, OnHost, RolledBack
<1>6. /\ ManifestView(current) # NoManifest /\ ManifestView(current).rev = current.rev
      /\ ManifestView(current)' = ManifestView(current)
  BY <1>1, ManifestViewType, Zenon DEF ManifestView, LedgerView
<1>7. \/ ManifestView(manifestFile)' = ManifestView(manifestFile)
      \/ WA!Current /\ ManifestView(manifestFile)' = NoManifest
  <2>1. CASE manifestFile' = manifestFile
    BY <2>1 DEF ManifestView, LedgerView
  <2>2. CASE SessionIsDurable /\ manifestFile' = NoManifest
    <3>1. manifestFile \in CrashManifests /\ manifestFile.rev = current.rev
      BY <2>2 DEF SessionIsDurable, EngineTypeOK
    <3>2. ManifestView(manifestFile) # NoManifest /\ ManifestView(manifestFile).rev = manifestFile.rev
      BY <3>1, ManifestViewType
    <3>3. ManifestView(manifestFile)' = NoManifest
      BY <2>2 DEF ManifestView
    <3> QED
      BY <1>6, <3>1, <3>2, <3>3 DEF WA!Current
  <2> QED
    BY <1>1, <2>1, <2>2
<1>8. WA!Finish
  BY <1>3, <1>4, <1>5, <1>6, <1>7, Zenon DEF WA!Finish, OnHost, View, IsArmed, HasSucceeded
<1> QED
  BY <1>8 DEF WA!Next

\* The engine keeps the write-ahead discipline: Prepare creates the manifest,
\* every transition is a revision-checked write, every stage changes the host
\* only under an announcement, and the manifest goes only after success or a
\* clean rollback (DeploymentStateSession, run_deploy_internal).
THEOREM EngineImplementsWriteAhead == EngineSpec => WriteAheadDiscipline
<1>1. EngineInit => WA!Init
  <2> SUFFICES ASSUME EngineInit
               PROVE  WA!Init
    OBVIOUS
  <2>1. /\ run.pc = "new" /\ current = NoManifest /\ manifestFile = NoManifest
        /\ \A r \in DeployedResources : report.ledger[r] = "None"
    BY Zenon DEF EngineInit
  <2>2. \A r \in DeployedResources : host[r] # "ours"
    BY <2>1, EngineStarts DEF EngineInv, Fresh
  <2>3. OnHost = {} /\ View = [r \in DeployedResources |-> "none"]
    BY <2>1, <2>2 DEF OnHost, View, LedgerView
  <2>4. IsArmed = FALSE /\ HasSucceeded = FALSE
    BY <2>1 DEF IsArmed, HasSucceeded
  <2>5. ManifestView(current) = NoManifest /\ ManifestView(manifestFile) = NoManifest
    BY <2>1 DEF ManifestView
  <2> QED
    BY <2>3, <2>4, <2>5 DEF WA!Init, OnHost, View, IsArmed, HasSucceeded
<1>2. ASSUME EngineInv, EngineInv', [EngineNext]_engineVars
      PROVE  [WA!Next]_(WA!vars)
  <2>1. CASE Forward
    BY <1>2, <2>1, PrepareIsCreate, WritesAreWrites, EffectsAreChanges, RestIsRecord DEF Forward
  <2>2. CASE Backward
    BY <1>2, <2>2, WritesAreWrites, RemovalsAreChanges, RestIsRecord, DecideIsComplete,
       FinishIsFinish DEF Backward
  <2>3. CASE Cancel \/ EngineCrash \/ AdminWritesConfig
    BY <1>2, <2>3, EnvironmentIsRecord
  <2>4. CASE UNCHANGED engineVars
    BY <2>4 DEF engineVars, WA!vars, LedgerView, ManifestView, Named
  <2> QED
    BY <1>2, <2>1, <2>2, <2>3, <2>4 DEF EngineNext, Engine
<1> QED
  BY <1>1, <1>2, EngineInvariant, PTL DEF EngineSpec, WriteAheadDiscipline, WA!Spec

=============================================================================
