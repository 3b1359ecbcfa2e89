------------------------------ MODULE X11Grants ------------------------------
(***************************************************************************)
(* X11 access of running machines: the grant records, the machine claims, the *)
(* access control list (ACL) of the X server and the lifecycle watcher.       *)
(*                                                                           *)
(* A grant is made in three durable steps (pending record, ACL insertion,     *)
(* confirmed record) followed by the claim that lets a machine instance keep  *)
(* it.  Several machines whose guest user maps to the same host uid share one *)
(* ACL entry.  A reconcile pass withdraws an entry when every instance that   *)
(* claims it has been seen gone twice, a grace period apart.  Every operation *)
(* runs under one file lock; the process may be killed between two writes.    *)
(*                                                                           *)
(* One display and one boot: a server generation stands for the endpoint,     *)
(* its revision, the peer and its start time, so a grant key is a host uid    *)
(* and a generation.  Time is what a pass finds: which of the pending claims  *)
(* were first seen absent at least a grace period ago.  The clock of the host *)
(* is taken to run forwards.                                                   *)
(***************************************************************************)
EXTENDS Naturals, FiniteSetsExt, TLC

CONSTANTS
    Machines,      \* machine names
    Uid,           \* the host uid the guest user of each machine maps to
    User, Service, \* the interactive process and the lifecycle worker
    MaxInstance,   \* bound: instances of each machine
    MaxGeneration, \* bound: X server generations
    MaxRecords,    \* bound: grant records
    MaxAsks,       \* bound: operations the user asks for
    MaxTrouble,    \* bound: glitches and, counted twice, failures, crashes, foreign
                   \* ACL changes and restarts, together
    MaxEvents      \* bound: all of these

None == "none"
Procs == {User, Service}
Uids == {Uid[m] : m \in Machines}
Instances == 1..Max({MaxInstance[m] : m \in Machines})
Generations == 1..MaxGeneration
Ids == 1..MaxRecords
Vanishings == 1..MaxTrouble
Attempts == 3     \* MACHINE_LIFECYCLE_RECONCILE_ATTEMPTS

RecordPhase == {"none", "pending", "confirmed", "revoked", "unknown"}
ClaimPhase == {"none", "active", "pending", "ended", "review", "unknown"}

\* A claim is named by the record it keeps alive and the instance that keeps it.
Claims == Ids \X Machines \X Instances

VARIABLES
    acl,        \* the entries of the current X server
    enabled,    \* its access control is switched on
    generation, \* the X server process
    instance,   \* the running instance of each machine, 0 when there is none
    started,    \* the last instance each machine has had
    glitch,     \* machines that run without a registration file: which vanishing
                \* of such a file it is, or 0
    records,    \* grants/grant-*.json
    claims,     \* claims/claim-*.json, by phase
    aged,       \* the pending ones whose timestamp is a grace period old
    lock,       \* the process that holds the "acl" lock
    proc,       \* what each process is doing
    watched,    \* the path unit is loaded
    wake,       \* it has a change of the machine directory to report
    inserted,   \* ghost: entries of the ACL that Lasper has put there
    absences,   \* ghost: the vanishings each claim was seen absent in, since it was
                \* last looked at with another result
    foreign,    \* ghost: entries that were there before any grant record for them
    unarmed,    \* ghost: something failed since the watcher was last synchronized
    budget      \* ghost: what has gone wrong, and what the user has asked for

x11vars == <<acl, enabled, generation, instance, started, glitch, records, claims, aged,
             absences, lock, proc, watched, wake, inserted, foreign, unarmed, budget>>

server == <<enabled, generation>>
world == <<instance, started, glitch>>
watcher == <<watched, wake>>
claimed == <<claims, aged, absences>>

Idle == [pc |-> "idle"]
NoRecord == [phase |-> "none", m |-> None, i |-> 0, g |-> 0]

Unresolved(c) == claims[c] \notin {"none", "ended"}     \* requires_reconcile
KeyOf(c) == <<Uid[c[2]], records[c[1]].g>>
RecordKey(r) == <<Uid[records[r].m], records[r].g>>
\* claim_key_matches_socket
OfServer(c, g) == claims[c] # "none" /\ records[c[1]].g = g
Alive(m, i) == instance[m] = i

\* claims_need_activation
NeedActivation == \/ \E c \in Claims : Unresolved(c)
                  \/ \E r \in Ids : records[r].phase = "confirmed"

Event(kind) ==
    /\ budget' = [budget EXCEPT ![kind] = @ + 1]
    /\ budget'.asks <= MaxAsks
    /\ budget'.glitch + 2 * budget'.trouble <= MaxTrouble
    /\ budget'.asks + budget'.glitch + budget'.trouble <= MaxEvents
\* A read, a write or an X request fails, or the process is killed.
Fault == Event("trouble") /\ unarmed' = TRUE
\* The user asks for something while nothing is under way.
Asked ==
    /\ proc[User] = Idle
    /\ Event("asks")
NoFault == UNCHANGED <<budget, unarmed>>

Go(p, s) == proc' = [proc EXCEPT ![p] = s]
\* Continue under the lock, or give it up.
Hold(p, s) == Go(p, s) /\ lock' = p
Return(p, s) == Go(p, s) /\ lock' = None
SyncNext == [pc |-> "syncLock"]

SetRecord(r, ph) == records' = [records EXCEPT ![r].phase = ph]
\* A pending claim that stays pending keeps its timestamp.
SetPhase(c, ph) ==
    /\ claims' = [claims EXCEPT ![c] = ph]
    /\ aged' = IF ph = "pending" THEN aged ELSE aged \ {c}
SetClaim(c, ph) == SetPhase(c, ph) /\ absences' = [absences EXCEPT ![c] = {}]

-----------------------------------------------------------------------------
\* The X server as the code sees it.

\* One change request on a connection made under generation g.  With an error the
\* caller does not know whether it took effect; a new server has lost the connection.
Request(g, change, ok) ==
    \/ ok /\ generation = g /\ acl' = change /\ NoFault
    \/ ~ok /\ generation = g /\ Fault /\ acl' \in {acl, change}
    \/ ~ok /\ generation # g /\ UNCHANGED acl /\ NoFault

\* insert_and_observe
Insert(u, g, ok) ==
    /\ Request(g, acl \union {u}, ok)
    /\ inserted' = inserted \union (acl' \ acl)
    /\ UNCHANGED foreign

\* remove_and_observe
Remove(u, g, ok) ==
    /\ Request(g, acl \ {u}, ok)
    /\ inserted' = inserted \intersect acl'
    /\ foreign' = foreign \intersect acl'

entries == <<acl, inserted, foreign>>

-----------------------------------------------------------------------------
\* Authorization.

\* X11AccessService::authorize and prepare_session: the projection is probed
\* for a running machine, the ACL is read once before the lock is taken.
EnsureBegin(m) ==
    /\ Asked
    /\ instance[m] # 0
    /\ enabled
    /\ Go(User, [pc |-> "ensureLock", m |-> m, i |-> instance[m], g |-> generation])
    /\ UNCHANGED <<entries, server, world, records, claimed, lock, watcher, unarmed>>

\* reuse_managed_grant_sync: the confirmed records whose key is the requested one.
ManagedRecords(s) ==
    {r \in Ids : records[r].phase = "confirmed" /\ RecordKey(r) = <<Uid[s.m], s.g>>}

\* current_generation_record
CurrentRecords(s) ==
    {r \in Ids : /\ records[r].phase # "none"
                 /\ records[r].m = s.m /\ records[r].i = s.i /\ records[r].g = s.g}

\* The entry is already there: add a claim to the record that made it, if any.
EnsureReuse(p, s) ==
    /\ Uid[s.m] \in acl
    /\ \/ ManagedRecords(s) = {} /\ Return(p, SyncNext) /\ NoFault /\ UNCHANGED claimed
       \/ \E r \in ManagedRecords(s) :
             LET c == <<r, s.m, s.i>> IN
             \/ Unresolved(c) /\ Return(p, SyncNext) /\ NoFault /\ UNCHANGED claimed
             \/ ~Unresolved(c) /\ SetClaim(c, "active") /\ Return(p, SyncNext) /\ NoFault
             \/ ~Unresolved(c) /\ Fault /\ Return(p, Idle) /\ UNCHANGED claimed
    /\ UNCHANGED records

\* The entry is missing: the pending record goes to disk before the X server is
\* asked.  A session (not a manual authorization) never renews a grant the same
\* instance has had.
EnsurePending(p, s) ==
    /\ Uid[s.m] \notin acl
    /\ \/ /\ CurrentRecords(s) # {}     \* purpose ExplicitSession
          /\ Return(p, Idle) /\ NoFault /\ UNCHANGED records
       \/ \E r \in Ids :
             /\ records[r] = NoRecord
             /\ \A q \in 1..(r - 1) : records[q] # NoRecord
             /\ \/ /\ records' = [records EXCEPT ![r] =
                          [phase |-> "pending", m |-> s.m, i |-> s.i, g |-> s.g]]
                   /\ Hold(p, [pc |-> "insert", r |-> r]) /\ NoFault
                \/ Fault /\ Return(p, Idle) /\ UNCHANGED records
    /\ UNCHANGED claimed

\* ensure_access_sync from the lock to the first write: the endpoint is checked
\* and the ACL read again.
EnsureLocked(p) ==
    LET s == proc[p] IN
    /\ s.pc = "ensureLock"
    /\ lock = None
    /\ \/ /\ generation # s.g
          /\ Return(p, Idle) /\ NoFault /\ UNCHANGED <<records, claimed>>
       \/ /\ generation = s.g /\ ~enabled
          /\ Return(p, SyncNext) /\ NoFault /\ UNCHANGED <<records, claimed>>
       \/ generation = s.g /\ enabled /\ EnsureReuse(p, s)
       \/ generation = s.g /\ enabled /\ EnsurePending(p, s)
    /\ UNCHANGED <<entries, server, world, watcher>>

EnsureInsert(p) ==
    LET s == proc[p] IN
    /\ s.pc = "insert"
    /\ \E ok \in BOOLEAN :
          /\ Insert(Uid[records[s.r].m], records[s.r].g, ok)
          /\ Hold(p, [pc |-> "confirm", r |-> s.r, ok |-> ok])
    /\ UNCHANGED <<server, world, records, claimed, watcher>>

\* authorization_was_confirmed: the request and the server process are as expected
\* and the entry is seen.  The record says so, or that the outcome is unknown.
EnsureConfirm(p) ==
    LET s == proc[p]
        confirmed == s.ok /\ generation = records[s.r].g /\ Uid[records[s.r].m] \in acl IN
    /\ s.pc = "confirm"
    /\ \/ /\ confirmed
          /\ SetRecord(s.r, "confirmed")
          /\ Hold(p, [pc |-> "claim", r |-> s.r]) /\ NoFault
       \/ ~confirmed /\ SetRecord(s.r, "unknown") /\ Return(p, Idle) /\ NoFault
       \/ Fault /\ Return(p, Idle) /\ UNCHANGED records
    /\ UNCHANGED <<entries, server, world, claimed, watcher>>

\* The claim of the machine that was authorized; without it the grant is unknown.
EnsureClaim(p) ==
    LET s == proc[p]
        rec == records[s.r] IN
    /\ s.pc = "claim"
    /\ \/ /\ SetClaim(<<s.r, rec.m, rec.i>>, "active")
          /\ Return(p, SyncNext) /\ NoFault /\ UNCHANGED records
       \/ /\ Fault
          /\ records' \in {records, [records EXCEPT ![s.r].phase = "unknown"]}
          /\ Return(p, Idle) /\ UNCHANGED claimed
    /\ UNCHANGED <<entries, server, world, watcher>>

-----------------------------------------------------------------------------
\* Explicit revocation.

\* assess_grants: what the user is told about one record of the running machine m.
HistoryStatus(r, m) ==
    LET rec == records[r] IN
    CASE rec.phase \in {"pending", "unknown"} ->
            IF rec.g # generation THEN "Historical" ELSE "OutcomeUnknown"
      [] rec.phase \in {"revoked", "confirmed"} /\ Uid[m] \notin acl -> "Absent"
      [] rec.phase = "confirmed" /\ rec.g = generation /\ rec.i = instance[m] -> "Managed"
      [] OTHER -> "Historical"

\* The records the assessment offers for revocation; the newest one is named.
ManagedOf(m) ==
    {r \in Ids : enabled /\ records[r].m = m /\ HistoryStatus(r, m) = "Managed"}

\* X11AccessService::revoke for the record an assessment of m has named.
RevokeBegin(m) ==
    /\ Asked
    /\ instance[m] # 0
    /\ ManagedOf(m) # {}
    /\ Go(User, [pc |-> "revokeLock", r |-> Max(ManagedOf(m)), i |-> instance[m], g |-> generation])
    /\ UNCHANGED <<entries, server, world, records, claimed, lock, watcher, unarmed>>

\* The claims a record still has.
ClaimsOf(r) == {c \in Claims : c[1] = r /\ Unresolved(c)}

\* revoke_access_sync: the record is an active grant of this machine instance on
\* this server.
Revocable(s) ==
    /\ records[s.r].phase = "confirmed"
    /\ records[s.r].i = s.i
    /\ records[s.r].g = s.g
    /\ generation = s.g
    /\ enabled

EndClaims(r) == [pc |-> "claims", todo |-> ClaimsOf(r), to |-> "ended", then |-> SyncNext]

\* An entry that is gone finishes the record at once, a shared one is kept.
RevokeLocked(p) ==
    LET s == proc[p]
        present == Uid[records[s.r].m] \in acl
        shared == Cardinality(ClaimsOf(s.r)) > 1 IN
    /\ s.pc = "revokeLock"
    /\ lock = None
    /\ \/ /\ ~Revocable(s) \/ (present /\ shared)
          /\ Return(p, Idle) /\ NoFault /\ UNCHANGED records
       \/ /\ Revocable(s) /\ present /\ ~shared
          /\ Hold(p, [pc |-> "revoke", r |-> s.r]) /\ NoFault /\ UNCHANGED records
       \/ /\ Revocable(s) /\ ~present
          /\ \/ SetRecord(s.r, "revoked") /\ Hold(p, EndClaims(s.r)) /\ NoFault
             \/ Fault /\ Return(p, Idle) /\ UNCHANGED records
    /\ UNCHANGED <<entries, server, world, claimed, watcher>>

RevokeRemove(p) ==
    LET s == proc[p] IN
    /\ s.pc = "revoke"
    /\ \E ok \in BOOLEAN :
          /\ Remove(Uid[records[s.r].m], records[s.r].g, ok)
          /\ Hold(p, [pc |-> "revoked", r |-> s.r, ok |-> ok])
    /\ UNCHANGED <<server, world, records, claimed, watcher>>

\* Mutant: the server's reply is taken for the removal.
RevokeConfirm_Blind(p) ==
    LET s == proc[p] IN
    /\ s.pc = "revoked"
    /\ SetRecord(s.r, "revoked") /\ Hold(p, EndClaims(s.r)) /\ NoFault
    /\ UNCHANGED <<entries, server, world, claimed, watcher>>

\* The record is revoked when the entry is seen gone, else its outcome is unknown.
RevokeConfirm(p) ==
    LET s == proc[p]
        confirmed == s.ok /\ generation = records[s.r].g /\ Uid[records[s.r].m] \notin acl IN
    /\ s.pc = "revoked"
    /\ \/ confirmed /\ SetRecord(s.r, "revoked") /\ Hold(p, EndClaims(s.r)) /\ NoFault
       \/ ~confirmed /\ SetRecord(s.r, "unknown") /\ Return(p, Idle) /\ NoFault
       \/ Fault /\ Return(p, Idle) /\ UNCHANGED records
    /\ UNCHANGED <<entries, server, world, claimed, watcher>>

-----------------------------------------------------------------------------
\* A reconcile pass.

\* How system_machine_registration describes the machine of a claim: the instance
\* the claim names, another one, either of them by its leader only, absent, or unread.
Registrations(c) ==
    IF instance[c[2]] = 0 \/ glitch[c[2]] # 0 THEN {"absent"}
    ELSE IF Alive(c[2], c[3]) THEN {"same", "sameLeader"} ELSE {"other", "otherLeader"}

Observations == {"Active", "EndedCandidate", "CleanupPending", "CleanupReady", "NeedsReview",
                 "Unavailable", "Blocked"}

\* Mutant: a machine that is back leaves the timestamp of its absence.
Observe_StaleAbsence(phase, reg, late) ==
    CASE phase = "review" -> "NeedsReview"
      [] phase = "unknown" -> "Blocked"
      [] phase \notin {"review", "unknown"} /\ reg = "unread" -> "Unavailable"
      [] phase = "active" /\ reg \in {"same", "sameLeader"} -> "Active"
      [] phase = "active" /\ reg = "absent" -> "EndedCandidate"
      [] phase = "pending" /\ reg = "absent" /\ late -> "CleanupReady"
      [] phase = "pending" /\ (reg = "absent" => ~late) -> "CleanupPending"
      [] OTHER -> "NeedsReview"

\* observe_machine_claim; late: the grace period of the claim is over.
Observe(phase, reg, late) ==
    CASE phase = "review" -> "NeedsReview"
      [] phase = "unknown" -> "Blocked"
      [] phase \notin {"review", "unknown"} /\ reg = "unread" -> "Unavailable"
      [] phase = "active" /\ reg \in {"same", "sameLeader"} -> "Active"
      [] phase = "active" /\ reg = "absent" -> "EndedCandidate"
      [] phase = "pending" /\ reg = "absent" -> IF late THEN "CleanupReady" ELSE "CleanupPending"
      [] OTHER -> "NeedsReview"

\* MachineClaimObservation::next_phase: a failed read starts the absence anew.
NextPhase(phase, obs) ==
    CASE obs \in {"Active", "Unavailable"} -> "active"
      [] obs = "EndedCandidate" -> "pending"
      [] obs = "NeedsReview" -> "review"
      [] OTHER -> phase

\* reconcile_claim: observe one claim and persist what it has become.
Looked(c, reg) ==
    absences' = [absences EXCEPT ![c] =
        IF reg # "absent" \/ claims[c] \notin {"active", "pending"} THEN {}
        ELSE @ \union ({glitch[c[2]]} \ {0})]
ReconcileClaim(c, obs) ==
    \/ \E reg \in Registrations(c) :
          /\ obs = Observe(claims[c], reg, c \in aged)
          /\ SetPhase(c, NextPhase(claims[c], obs)) /\ Looked(c, reg)
          /\ NoFault
    \/ /\ obs = Observe(claims[c], "unread", c \in aged)
       /\ SetPhase(c, NextPhase(claims[c], obs)) /\ Looked(c, "unread")
       /\ Fault
    \/ obs = "Blocked" /\ Fault /\ UNCHANGED claimed

\* Mutant: only a failed read is tried again.
Retried_FailuresOnly(obs) == obs = "Unavailable"
\* machine_claim_diagnostics and X11ReconcileRetry: worth another pass.
Retried(obs) == obs \in {"Active", "EndedCandidate", "CleanupPending", "Unavailable"}

\* X11AccessService::reconcile (one pass, before a shell), and
\* reconcile_after_machine_event (up to three, the watcher follows).
ReconcileBegin(once) ==
    /\ Asked
    /\ Go(User, [pc |-> "pass", tries |-> IF once THEN 1 ELSE Attempts, once |-> once])
    /\ UNCHANGED <<entries, server, world, records, claimed, lock, watcher, unarmed>>

\* What a pass goes on with: the server, the ACL as last read, the uids left alone.
Pass(s) == [pc |-> "observe", tries |-> s.tries, once |-> s.once,
            g |-> generation, seen |-> acl,
            todo |-> {c \in Claims : Unresolved(c) /\ OfServer(c, generation)},
            kept |-> {}, retry |-> FALSE]
Passed(s, retry) == [pc |-> "passed", tries |-> s.tries - 1, once |-> s.once, retry |-> retry]

\* The claims whose grace period may have gone by.  A vanishing of a registration
\* is shorter than that, so none that was first seen absent in the present one.
Ripe == {c \in Claims : claims[c] = "pending" /\ OfServer(c, generation)
                          /\ absences[c] # {glitch[c[2]]}}

\* reconcile_targets_sync and reconcile_sync up to the first claim.  Nothing to do
\* asks for no connection; without the targets there is no pass at all.
PassLocked(p) ==
    LET s == proc[p] IN
    /\ s.pc = "pass"
    /\ lock = None
    /\ \/ ~NeedActivation /\ Return(p, Passed(s, FALSE)) /\ NoFault /\ UNCHANGED aged
       \/ /\ NeedActivation /\ enabled
          /\ \E older \in SUBSET Ripe : aged' = aged \union older
          /\ Hold(p, Pass(s)) /\ NoFault
       \/ NeedActivation /\ ~enabled /\ Return(p, Passed(s, TRUE)) /\ NoFault /\ UNCHANGED aged
       \/ NeedActivation /\ Fault /\ Return(p, Passed(s, TRUE)) /\ UNCHANGED aged
       \/ /\ s.once \/ s.tries = Attempts
          /\ Fault /\ Return(p, IF p = User THEN Idle ELSE SyncNext) /\ UNCHANGED aged
    /\ UNCHANGED <<entries, server, world, records, claims, absences, watcher>>

PassObserve(p) ==
    LET s == proc[p] IN
    /\ s.pc = "observe"
    /\ \E c \in s.todo, obs \in Observations :
          /\ ReconcileClaim(c, obs)
          /\ Hold(p, [s EXCEPT !.todo = @ \ {c},
                               !.kept = IF obs = "CleanupReady" THEN @ ELSE @ \union {Uid[c[2]]},
                               !.retry = @ \/ Retried(obs)])
    /\ UNCHANGED <<entries, server, world, records, watcher>>

\* The claims that share the entry of u on the server of the pass.
Group(s, u) == {c \in Claims : Unresolved(c) /\ KeyOf(c) = <<u, s.g>>}

\* When all claims are observed the groups that are ready come one by one; one
\* whose records are not all confirmed is passed over.
PassGroup(p) ==
    LET s == proc[p]
        groups == {Uid[c[2]] : c \in {d \in Claims : Unresolved(d) /\ OfServer(d, s.g)}} \ s.kept IN
    /\ s.pc = "observe"
    /\ s.todo = {}
    /\ \/ groups = {} /\ Return(p, Passed(s, s.retry))
       \/ \E u \in groups :
             IF \A c \in Group(s, u) : records[c[1]].phase = "confirmed"
             THEN Hold(p, [s EXCEPT !.pc = "recheck", !.todo = Group(s, u)] @@ [u |-> u, ready |-> TRUE])
             ELSE Hold(p, [s EXCEPT !.kept = @ \union {u}])
    /\ NoFault
    /\ UNCHANGED <<entries, server, world, records, claimed, watcher>>

\* The machines are looked at once more just before the entry is withdrawn.
PassRecheck(p) ==
    LET s == proc[p] IN
    /\ s.pc = "recheck"
    /\ \E c \in s.todo, obs \in Observations :
          /\ ReconcileClaim(c, obs)
          /\ Hold(p, [s EXCEPT !.todo = @ \ {c},
                               !.ready = @ /\ obs = "CleanupReady",
                               !.retry = @ \/ obs = "Unavailable"])
    /\ UNCHANGED <<entries, server, world, records, watcher>>

\* The group is done, its uid needs no more attention in this pass.
GroupDone(s) ==
    [pc |-> "observe", tries |-> s.tries, once |-> s.once, g |-> s.g, seen |-> s.seen,
     todo |-> {}, kept |-> s.kept \union {s.u}, retry |-> s.retry]

\* The records the claims of the group name, to be marked one by one.
FinishGroup(s) == [s EXCEPT !.pc = "records", !.todo = {c[1] : c \in Group(s, s.u)}]

\* remove_and_observe for a stopped machine, unless the entry was not there when
\* the ACL was last read.
PassWithdraw(p) ==
    LET s == proc[p] IN
    /\ s.pc = "recheck"
    /\ s.todo = {}
    /\ \/ ~s.ready /\ Hold(p, GroupDone(s)) /\ NoFault /\ UNCHANGED entries
       \/ s.ready /\ s.u \notin s.seen /\ Hold(p, FinishGroup(s)) /\ NoFault /\ UNCHANGED entries
       \/ /\ s.ready /\ s.u \in s.seen
          /\ \E ok \in BOOLEAN :
                /\ Remove(s.u, s.g, ok)
                /\ Hold(p, [s EXCEPT !.pc = "removed", !.ready = ok])
    /\ UNCHANGED <<server, world, records, claimed, watcher>>

\* What the caller makes of the reply: an error or a new server leaves the claims
\* unknown; an unread ACL ends the pass; an entry that is still there is left.
PassRemoved(p) ==
    LET s == proc[p] IN
    /\ s.pc = "removed"
    /\ \/ /\ ~s.ready \/ generation # s.g
          /\ Hold(p, [pc |-> "claims", todo |-> Group(s, s.u), to |-> "unknown", then |-> GroupDone(s)])
          /\ NoFault
       \/ /\ s.ready /\ generation = s.g
          /\ LET now == [s EXCEPT !.seen = acl] IN
             Hold(p, IF s.u \in acl THEN GroupDone(now) ELSE FinishGroup(now))
          /\ NoFault
       \/ s.ready /\ generation = s.g /\ Fault /\ Return(p, Passed(s, TRUE))
    /\ UNCHANGED <<entries, server, world, records, claimed, watcher>>

\* mark_record_phase_sync for every record of the group, then its claims end.
PassRecords(p) ==
    LET s == proc[p] IN
    /\ s.pc = "records"
    /\ \/ /\ s.todo = {}
          /\ Hold(p, [pc |-> "claims", todo |-> Group(s, s.u), to |-> "ended", then |-> GroupDone(s)])
          /\ NoFault /\ UNCHANGED records
       \/ \E r \in s.todo :
             \/ SetRecord(r, "revoked") /\ Hold(p, [s EXCEPT !.todo = @ \ {r}]) /\ NoFault
             \/ Fault /\ Return(p, Passed(s, TRUE)) /\ UNCHANGED records
    /\ UNCHANGED <<entries, server, world, claimed, watcher>>

\* end_claims and the loops over mark_claim_phase_sync: one file after the other;
\* an error ends the operation, except while the claims become unknown.
WriteClaims(p) ==
    LET s == proc[p]
        reconcile == s.then # SyncNext IN
    /\ s.pc = "claims"
    /\ \/ /\ s.todo = {}
          /\ IF reconcile THEN Hold(p, s.then) ELSE Return(p, s.then)
          /\ NoFault /\ UNCHANGED claimed
       \/ \E c \in s.todo :
             \/ SetClaim(c, s.to) /\ Hold(p, [s EXCEPT !.todo = @ \ {c}]) /\ NoFault
             \/ /\ Fault /\ UNCHANGED claimed
                /\ CASE s.to = "unknown" -> Hold(p, [s EXCEPT !.todo = @ \ {c}])
                     [] s.to = "ended" /\ reconcile -> Return(p, Passed(s.then, TRUE))
                     [] OTHER -> Return(p, Idle)
    /\ UNCHANGED <<entries, server, world, records, watcher>>

\* reconcile_after_machine_event: up to three passes, more than a grace period apart.
PassEnd(p) ==
    LET s == proc[p] IN
    /\ s.pc = "passed"
    /\ \/ s.once /\ Go(p, Idle) /\ UNCHANGED aged
       \/ ~s.once /\ ~(s.retry /\ s.tries > 0) /\ Go(p, SyncNext) /\ UNCHANGED aged
       \/ /\ ~s.once /\ s.retry /\ s.tries > 0
          /\ \A m \in Machines : glitch[m] = 0
          /\ Go(p, [pc |-> "pass", tries |-> s.tries, once |-> s.once])
          /\ aged' = aged \union Ripe
    /\ UNCHANGED <<entries, server, world, records, claims, absences, lock, watcher, unarmed, budget>>

-----------------------------------------------------------------------------
\* The watcher.

\* synchronize_system_machine_path_activation: the decision is taken under the
\* lock, which is kept until the user manager has carried it out.
SyncLocked(p) ==
    /\ proc[p].pc = "syncLock"
    /\ lock = None
    /\ \/ Hold(p, [pc |-> "sync", needed |-> NeedActivation]) /\ NoFault
       \/ Fault /\ Return(p, Idle)
    /\ UNCHANGED <<entries, server, world, records, claimed, watcher>>

SyncApply(p) ==
    LET s == proc[p] IN
    /\ s.pc = "sync"
    /\ Return(p, Idle)
    /\ \/ /\ watched' = s.needed
          /\ wake' = (wake /\ s.needed)
          /\ unarmed' = FALSE
          /\ UNCHANGED budget
       \/ Fault /\ UNCHANGED watcher
    /\ UNCHANGED <<entries, server, world, records, claimed>>

\* The path unit starts the service for a change of the machine directory.
ServiceStart ==
    /\ wake
    /\ proc[Service] = Idle
    /\ wake' = FALSE
    /\ Go(Service, [pc |-> "pass", tries |-> Attempts, once |-> FALSE])
    /\ UNCHANGED <<entries, server, world, records, claimed, lock, watched, unarmed, budget>>

-----------------------------------------------------------------------------
\* The rest of the world.

\* A process is killed: the kernel releases its lock, the files stay as they are.
Crash(p) ==
    /\ proc[p] # Idle
    /\ Fault
    /\ Go(p, Idle)
    /\ lock' = IF lock = p THEN None ELSE lock
    /\ UNCHANGED <<entries, server, world, records, claimed, watcher>>

MachineStarts(m) ==
    /\ instance[m] = 0
    /\ started[m] < MaxInstance[m]
    /\ Event("trouble")
    /\ started' = [started EXCEPT ![m] = @ + 1]
    /\ instance' = [instance EXCEPT ![m] = started[m] + 1]
    /\ wake' = watched
    /\ UNCHANGED <<entries, server, glitch, records, claimed, lock, proc, watched, unarmed>>

MachineStops(m) ==
    /\ instance[m] # 0
    /\ instance' = [instance EXCEPT ![m] = 0]
    /\ glitch' = [glitch EXCEPT ![m] = 0]
    /\ wake' = watched
    /\ UNCHANGED <<entries, server, started, records, claimed, lock, proc, watched, unarmed, budget>>

\* The registration of a running machine is missing for less than a grace period;
\* of a machine with a claim, as no pass looks for the others.
GlitchBegins(m) ==
    /\ instance[m] # 0 /\ glitch[m] = 0
    /\ \E c \in Claims : c[2] = m /\ Unresolved(c)
    /\ Event("glitch")
    /\ glitch' = [glitch EXCEPT ![m] = budget'.glitch]
    /\ wake' = watched
    /\ UNCHANGED <<entries, server, instance, started, records, claimed, lock, proc, watched, unarmed>>

GlitchEnds(m) ==
    /\ glitch[m] # 0
    /\ glitch' = [glitch EXCEPT ![m] = 0]
    /\ wake' = watched
    /\ UNCHANGED <<entries, server, instance, started, records, claimed, lock, proc, watched, unarmed, budget>>

\* Another client (xhost) adds or removes an entry or switches the control.
ForeignAdds(u) ==
    /\ u \notin acl
    /\ Event("trouble")
    /\ acl' = acl \union {u}
    /\ foreign' = IF \E r \in Ids : records[r] # NoRecord /\ RecordKey(r) = <<u, generation>>
                  THEN foreign ELSE foreign \union {u}
    /\ UNCHANGED <<inserted, server, world, records, claimed, lock, proc, watcher, unarmed>>

ForeignRemoves(u) ==
    /\ u \in acl
    /\ Event("trouble")
    /\ acl' = acl \ {u}
    /\ inserted' = inserted \ {u}
    /\ foreign' = foreign \ {u}
    /\ UNCHANGED <<server, world, records, claimed, lock, proc, watcher, unarmed>>

AccessControlSwitched ==
    /\ Event("trouble")
    /\ enabled' = ~enabled
    /\ UNCHANGED <<entries, generation, world, records, claimed, lock, proc, watcher, unarmed>>

\* A new X server starts with an empty list, or with entries the session adds.
ServerRestarts ==
    /\ generation < MaxGeneration
    /\ Event("trouble")
    /\ generation' = generation + 1
    /\ enabled' = TRUE
    /\ acl' \in {{}, Uids}
    /\ inserted' = {} /\ foreign' = acl'
    /\ UNCHANGED <<world, records, claimed, lock, proc, watcher, unarmed>>

-----------------------------------------------------------------------------
Init ==
    /\ acl \in {{}, Uids}
    /\ foreign = acl
    /\ inserted = {}
    /\ enabled = TRUE
    /\ generation = 1
    /\ instance = [m \in Machines |-> 1]
    /\ started = [m \in Machines |-> 1]
    /\ glitch = [m \in Machines |-> 0]
    /\ records = [r \in Ids |-> NoRecord]
    /\ claims = [c \in Claims |-> "none"]
    /\ aged = {}
    /\ absences = [c \in Claims |-> {}]
    /\ lock = None
    /\ proc = [p \in Procs |-> Idle]
    /\ watched = FALSE
    /\ wake = FALSE
    /\ unarmed = FALSE
    /\ budget = [trouble |-> 0, glitch |-> 0, asks |-> 0]

Step(p) ==
    \/ EnsureLocked(p) \/ EnsureInsert(p) \/ EnsureConfirm(p) \/ EnsureClaim(p)
    \/ RevokeLocked(p) \/ RevokeRemove(p) \/ RevokeConfirm(p)
    \/ PassLocked(p) \/ PassObserve(p) \/ PassGroup(p) \/ PassRecheck(p) \/ PassWithdraw(p)
    \/ PassRemoved(p) \/ PassRecords(p) \/ WriteClaims(p) \/ PassEnd(p)
    \/ SyncLocked(p) \/ SyncApply(p)

Ask ==
    \/ \E m \in Machines : EnsureBegin(m) \/ RevokeBegin(m)
    \/ \E once \in BOOLEAN : ReconcileBegin(once)

Environment ==
    \/ \E p \in Procs : Crash(p)
    \/ \E m \in Machines : MachineStarts(m) \/ MachineStops(m) \/ GlitchBegins(m) \/ GlitchEnds(m)
    \/ \E u \in Uids : ForeignAdds(u) \/ ForeignRemoves(u)
    \/ AccessControlSwitched
    \/ ServerRestarts

Next == Ask \/ ServiceStart \/ Environment \/ \E p \in Procs : Step(p)

\* A running process goes on, the user manager starts the service, a glitch ends.
Fairness ==
    /\ \A p \in Procs : WF_x11vars(Step(p))
    /\ WF_x11vars(ServiceStart)
    /\ WF_x11vars(\E m \in Machines : GlitchEnds(m))

Spec == Init /\ [][Next]_x11vars /\ Fairness

-----------------------------------------------------------------------------
\* The variables have their types.
TypeOK ==
    /\ acl \subseteq Uids /\ inserted \subseteq acl /\ foreign \subseteq acl
    /\ generation \in Generations
    /\ instance \in [Machines -> Instances \union {0}]
    /\ \A m \in Machines : glitch[m] \in Vanishings \union {0} /\ (glitch[m] # 0 => instance[m] # 0)
    /\ absences \in [Claims -> SUBSET Vanishings]
    /\ aged \subseteq {c \in Claims : claims[c] = "pending"}
    /\ \A r \in Ids : records[r].phase \in RecordPhase
    /\ claims \in [Claims -> ClaimPhase]
    /\ lock \in Procs \union {None}
    /\ wake => watched

\* An entry Lasper has put into the ACL is named by a record that is not finished:
\* whatever was killed or failed, the user can find it (access.rs writes the
\* pending record before it asks the server, and finishes a record only after the
\* entry was seen gone).  And when no operation is under way and nothing failed
\* since the last activation step, unresolved grants have a watcher
\* (activation/mod.rs: a stop based on an old catalog must not undo another
\* process's authorization).
AuthorizationIsNamed ==
    /\ \A u \in inserted : \E r \in Ids :
          /\ records[r].phase \in {"pending", "confirmed", "unknown"}
          /\ RecordKey(r) = <<u, generation>>
    /\ /\ lock = None
       /\ \A p \in Procs : proc[p].pc # "syncLock"
       /\ NeedActivation
       /\ ~unarmed
       => watched

\* A reconcile pass does not withdraw the entry a running machine claims because its
\* registration vanished for a moment: it takes two vanishings, with a pass looking
\* in both of them and none that found the machine, or could not look, in between
\* (lifecycle.rs: the timestamp of the first absent observation is all that is kept,
\* any other observation discards it; the whole group must be ready, and is checked
\* again).  Machines share entries, so that holds of each of them.
\* And an entry that was there before any grant for it is never removed by
\* Lasper (access.rs reports it as PreExisting and claims nothing; a record of
\* an older server is not a record for it).
RunningKeepsAccess ==
    [][/\ \A p \in Procs, c \in Claims :
             proc[p].pc = "recheck" /\ Uid[c[2]] \in acl \ acl' /\ proc'[p] # proc[p]
                => (Unresolved(c) /\ records[c[1]].g = generation /\ Alive(c[2], c[3])
                      => Cardinality(absences[c]) > 1)
       /\ \A u \in foreign \ acl' : generation' # generation \/ UNCHANGED proc]_x11vars

\* The claims on the entry of u; a claim whose machine runs or that is under review
\* keeps it.
Sharing(u) == {c \in Claims : Unresolved(c) /\ KeyOf(c) = <<u, generation>>}
Kept(u) == \E c \in Sharing(u) : Alive(c[2], c[3]) \/ claims[c] \notin {"active", "pending"}
AllGone(u) == Sharing(u) # {} /\ ~Kept(u)

\* While nothing fails, an entry whose machines have all ended when the watcher has
\* a change to report is withdrawn (service.rs: three passes, a grace period apart,
\* lifecycle.rs: seen absent twice).
Disturbed == budget.trouble > 0
StopIsReclaimed ==
    \A u \in Uids : (wake /\ AllGone(u)) ~> (Disturbed \/ u \notin acl \/ Kept(u))
=============================================================================
