----------------------------- MODULE WriteAhead ------------------------------
(***************************************************************************)
(* The durable-state discipline of a deployment: what DeploymentStateSession *)
(* and the filesystem store promise, for any set of resources.               *)
(*                                                                           *)
(* A deployment keeps a ledger in memory and a manifest on disk.  Before it  *)
(* touches a resource it writes the resource into the manifest as intended;  *)
(* a manifest write carries the revision it expects to replace.  A write can *)
(* fail without effect (nothing was renamed) or with effect (the file was     *)
(* renamed, the directory sync after it failed): the caller cannot tell which.*)
(* DeploymentEngine implements this specification.                            *)
(***************************************************************************)
EXTENDS Naturals

CONSTANTS
    Resources,    \* what a deployment can create on the host
    Intents,      \* the sets of resources a deployment announces together
    Absent        \* no manifest

Entry == {"none", "notOurs", "tracked"}
Manifest == [rev : Nat, intended : SUBSET Resources, ledger : [Resources -> Entry]]

ASSUME AbsentIsNoManifest == Absent \notin Manifest
ASSUME IntentsAreSets == Intents \subseteq SUBSET Resources

VARIABLES
    onHost,    \* resources this deployment has put on the host
    ledger,    \* ResourceLedger: untracked, left to others, or accounted for
    session,   \* DeploymentStateSession.current
    durable,   \* the manifest file
    armed,     \* the last write was an intent and it succeeded
    succeeded  \* the deployment has been completed

vars == <<onHost, ledger, session, durable, armed, succeeded>>

Tracked(l) == {r \in Resources : l[r] = "tracked"}

-----------------------------------------------------------------------------
NextManifest_IntentOnly(intended) ==
    [rev |-> session.rev + 1, intended |-> intended, ledger |-> session.ledger]

Prepared == [rev |-> 1, intended |-> {}, ledger |-> [r \in Resources |-> "none"]]

\* FilesystemDeploymentState: the manifest exists with the revision expected.
Current == durable # Absent /\ session # Absent /\ durable.rev = session.rev

Armed(ok, intended) == ok /\ intended # {}

NextManifest(intended) ==
    [rev |-> session.rev + 1, intended |-> intended, ledger |-> ledger]

\* DeploymentStateSession::prepare: nothing happens on the host if it fails.
Create ==
    /\ session = Absent
    /\ durable = Absent
    /\ onHost = {}
    /\ \/ durable' = Prepared /\ session' = Prepared
       \/ durable' \in {Absent, Prepared} /\ UNCHANGED session
    /\ UNCHANGED <<onHost, ledger, armed, succeeded>>

\* DeploymentStateSession::transition (applying, committed, cleanup_pending):
\* the session moves only when the store reports success.  A failure may be
\* noted in memory at once.
Write(intended) ==
    /\ session # Absent
    /\ onHost \subseteq Tracked(ledger)
    /\ \E ok \in BOOLEAN :
          /\ armed' = Armed(ok, intended)
          /\ \/ ok /\ Current /\ durable' = NextManifest(intended)
                   /\ session' = NextManifest(intended)
             \/ ~ ok /\ UNCHANGED <<durable, session>>
             \/ ~ ok /\ Current /\ durable' = NextManifest(intended)
                   /\ UNCHANGED session
    /\ ledger' \in [Resources -> Entry]
    /\ onHost \subseteq Tracked(ledger')
    /\ UNCHANGED <<onHost, succeeded>>

\* A host change, with whatever the deployment records of it at once: it adds
\* only what the manifest announces, and never forgets what is still there.
\* A stage that fails has no further host change to make under its intent.
Change ==
    /\ armed
    /\ onHost' \in SUBSET (onHost \cup session.intended)
    /\ ledger' \in [Resources -> Entry]
    /\ (onHost \cap onHost') \cap Tracked(ledger) \subseteq Tracked(ledger')
    /\ armed' \in {armed, FALSE}
    /\ UNCHANGED <<session, durable, succeeded>>

\* Bookkeeping in memory: an outcome is captured or reclassified.
Record ==
    /\ ledger' \in [Resources -> Entry]
    /\ onHost \cap Tracked(ledger) \subseteq Tracked(ledger')
    /\ armed' \in {armed, FALSE}
    /\ UNCHANGED <<onHost, session, durable, succeeded>>

\* The pipeline finished: the resources now belong to the user.
Complete ==
    /\ ~ succeeded
    /\ onHost \subseteq Tracked(ledger)
    /\ succeeded' = TRUE
    /\ armed' = FALSE
    /\ UNCHANGED <<onHost, ledger, session, durable>>

\* DeploymentStateSession::finish, called after success or a clean rollback.
Finish ==
    /\ session # Absent
    /\ succeeded \/ onHost = {}
    /\ \/ UNCHANGED durable
       \/ Current /\ durable' = Absent
    /\ armed' = FALSE
    /\ UNCHANGED <<onHost, ledger, session, succeeded>>

Init ==
    /\ onHost = {}
    /\ ledger = [r \in Resources |-> "none"]
    /\ session = Absent
    /\ durable = Absent
    /\ armed = FALSE
    /\ succeeded = FALSE

Next ==
    \/ Create
    \/ \E intended \in Intents \cup {{}} : Write(intended)
    \/ Change
    \/ Record
    \/ Complete
    \/ Finish

Spec == Init /\ [][Next]_vars

-----------------------------------------------------------------------------
\* Every variable has its type.
TypeOK ==
    /\ onHost \in SUBSET Resources
    /\ ledger \in [Resources -> Entry]
    /\ session \in Manifest \cup {Absent}
    /\ durable \in Manifest \cup {Absent}
    /\ armed \in BOOLEAN
    /\ succeeded \in BOOLEAN

\* Whatever the deployment has put on the host can be found after a crash: the
\* manifest on disk names it as intended or tracked, unless the deployment
\* completed and the manifest is gone (transition, finish, write_atomic).
Recoverable ==
    \A r \in onHost :
        \/ durable = Absent /\ succeeded
        \/ durable # Absent /\ r \in durable.intended \cup Tracked(durable.ledger)

\* A session whose write failed with effect is never able to touch the host
\* again: a host change happens only under a manifest the session knows.
ChangeUnderKnownManifest ==
    [][onHost' # onHost => durable = session /\ durable # Absent]_vars
==============================================================================
