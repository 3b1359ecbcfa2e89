-------------------------- MODULE ProvisioningProofs --------------------------
(***************************************************************************)
(* Proofs about ProvisioningService, for any machines, deployments, calls  *)
(* and process lives: what the service is responsible for and what it      *)
(* holds in the claim registry are the same at every moment.               *)
(***************************************************************************)
EXTENDS ProvisioningService, FiniteSetTheorems, TLAPS

\* The reservations the service keeps.  Its maps keep the guard and not its
\* claims: that the claim is there, alone, and goes with that guard only is
\* what a reservation or a drop for another deployment must not disturb.
HoldsInv ==
    /\ nextId \in Nat /\ guardOf \in [Deployments -> 0 .. nextId]
    /\ \A d \in Deployments : guardOf[d] # 0 =>
          /\ \E g \in guards : g.id = guardOf[d]
          /\ claims[TargetOf[d]] = {[access |-> "Exclusive", owner |-> guardOf[d]]}
    /\ \A d, e \in Deployments : guardOf[d] # 0 /\ guardOf[d] = guardOf[e] => d = e

LEMMA HoldsStay ==
    ASSUME HoldsInv, UNCHANGED <<nextId, guardOf, guards, claims>>
    PROVE  HoldsInv'
BY DEF HoldsInv

LEMMA ZeroIsRevision == 0 \in 0 .. MaxServiceRevision
<1>1. MaxServiceRevision \in Nat
  BY Plans
<1> QED
  BY ONLY <1>1

ProcessTypeOK ==
    /\ route \in {"direct", "elevated"}
    /\ phase \in {"down", "read", "reserve", "abort", "up"}
    /\ disk \in [Deployments -> 0..MaxServiceRevision]
    /\ scanned \subseteq Deployments /\ recovered \subseteq scanned
    /\ phase \in {"down", "read"} => recovered = {}
    /\ job \in [Deployments -> JobStates]
    /\ outcome \in [Deployments -> ClaimStatus] /\ shown \in [Deployments -> ClaimStatus]
    /\ unresolved \in [Deployments -> ServiceEntry]
    /\ authority \in [Deployments -> AuthorityStates]
    /\ releaser \in [Releasers -> Call \cup {IdleCall}]

\* The executing side has ended for good.
Ended(d) ==
    authority[d] = IF route = "elevated" THEN "ReleasedUnresolved" ELSE "ReconciliationRequired"
Works(r, d) == releaser[r].at # "idle" /\ releaser[r].id = d

\* Where a deployment is says which of the maps can have it: none before its
\* task has settled, and the recovered ones only after an earlier life.
JobInv(d) ==
    /\ job[d] \in {"new", "foreign"} => authority[d] = "Idle"
    /\ job[d] = "new" => disk[d] = 0 /\ d \notin scanned
    /\ phase # "up" => job[d] \in {"new", "foreign", "lost"}
    /\ d \in recovered => job[d] \in {"foreign", "lost"}
    /\ unresolved[d].retained =>
          job[d] \in {"announcing", "publishing", "done"} /\ outcome[d] = "ReconciliationRequired"
    /\ route = "direct" /\ job[d] \in {"settling", "announcing", "publishing", "done"} =>
          authority[d] = outcome[d] /\ outcome[d] \in {"Released", "ReconciliationRequired"}
    /\ outcome[d] # "ReleasedUnresolved"
    /\ shown[d] = "ReleasedUnresolved" => Ended(d) /\ job[d] = "done"
    /\ unresolved[d].authorityReleased => Ended(d)

\* A release works on a retained entry, alone, and no longer has it in the map
\* when it is about to drop the reservation.
CallInv(d) ==
    /\ unresolved[d].releasing <=> \E r \in Releasers : Works(r, d) /\ releaser[r].at # "drop"
    /\ \A r \in Releasers : Works(r, d) =>
          /\ job[d] = "done"
          /\ unresolved[d].retained <=> releaser[r].at # "drop"
          /\ releaser[r].at = "read" /\ ~ releaser[r].callAuthority => Ended(d)
          /\ releaser[r].at \in {"remove", "finish"} => Ended(d)
    /\ \A r, s \in Releasers : Works(r, d) /\ Works(s, d) => r = s

ServiceInv ==
    /\ HoldsInv /\ ProcessTypeOK
    /\ \A d \in Deployments : JobInv(d) /\ CallInv(d) /\ (Responsible(d) <=> guardOf[d] # 0)

-----------------------------------------------------------------------------
(* The claim registry.                                                     *)

LEMMA CanonicalTarget ==
    ASSUME NEW d \in Deployments, NEW request \in {ResourceClaims(d), RecoveryClaim(d)}
    PROVE  /\ TargetOf[d] \in DOMAIN Reg!Canonicalize(request)
           /\ Reg!Canonicalize(request)[TargetOf[d]] = "Exclusive"
<1>1. [key |-> TargetOf[d], access |-> "Exclusive"] \in request
  BY DEF ResourceClaims, RecoveryClaim
<1>2. TargetOf[d] \in {c.key : c \in request}
  BY <1>1
<1> QED
  BY <1>1, <1>2 DEF Reg!Canonicalize

\* A reservation that does not conflict leaves the claims of the others alone.
LEMMA ReserveHolds ==
    ASSUME HoldsInv, NEW d \in Deployments, NEW request \in {ResourceClaims(d), RecoveryClaim(d)},
           Reg!Reserve(request), guardOf' = [guardOf EXCEPT ![d] = Reg!FreshId]
    PROVE  HoldsInv' /\ guardOf'[d] # 0 /\ \A e \in Deployments \ {d} : guardOf'[e] = guardOf[e]
<1> DEFINE want == Reg!Canonicalize(request)
           fresh == nextId + 1
<1>1. /\ ~ Reg!Conflicts(want) /\ nextId' = fresh
      /\ claims' = [k \in Machines |->
                    IF k \in DOMAIN want
                    THEN claims[k] \cup {[access |-> want[k], owner |-> fresh]}
                    ELSE claims[k]]
      /\ guards' = guards \cup {[id |-> fresh, keys |-> DOMAIN want, image |-> NoImage]}
      /\ guardOf' = [guardOf EXCEPT ![d] = fresh]
  BY DEF Reg!Reserve, Reg!ReserveInner, Reg!FreshId
<1>2. TargetOf[d] \in DOMAIN want /\ want[TargetOf[d]] = "Exclusive"
  BY CanonicalTarget
<1> HIDE DEF want
<1>3. \A e \in Deployments : TargetOf[e] \in Machines
  BY Plans
<1>4. nextId \in Nat /\ fresh \in Nat /\ fresh > nextId /\ fresh # 0
  BY DEF HoldsInv
<1>5. claims[TargetOf[d]] = {}
  BY <1>1, <1>2 DEF Reg!Conflicts
<1>6. claims'[TargetOf[d]] = {[access |-> "Exclusive", owner |-> fresh]}
  BY <1>1, <1>2, <1>3, <1>5
<1>7. /\ guardOf'[d] = fresh /\ \A e \in Deployments \ {d} : guardOf'[e] = guardOf[e]
      /\ \A e \in Deployments : guardOf[e] \in 0 .. nextId
  BY <1>1 DEF HoldsInv
<1>8. guardOf' \in [Deployments -> 0 .. nextId']
  <2>1. \A e \in Deployments : guardOf'[e] \in 0 .. fresh
    BY <1>4, <1>7
  <2> QED
    BY <1>1, <2>1 DEF HoldsInv
<1>9. ASSUME NEW e \in Deployments, e # d, guardOf[e] # 0
      PROVE  claims'[TargetOf[e]] = {[access |-> "Exclusive", owner |-> guardOf[e]]}
  <2>1. claims[TargetOf[e]] = {[access |-> "Exclusive", owner |-> guardOf[e]]}
    BY <1>9 DEF HoldsInv
  <2>2. TargetOf[e] \notin DOMAIN want
    <3>1. \E h \in claims[TargetOf[e]] : h.access = "Exclusive"
      BY <2>1
    <3> QED
      BY <1>1, <3>1 DEF Reg!Conflicts
  <2> QED
    BY <1>1, <1>3, <2>1, <2>2
<1>10. \E g \in guards' : g.id = fresh
  <2> DEFINE new == [id |-> fresh, keys |-> DOMAIN want, image |-> NoImage]
  <2>1. new \in guards' /\ new.id = fresh
    BY <1>1
  <2> HIDE DEF new
  <2> QED
    BY <2>1
<1>11. \A e \in Deployments \ {d} : guardOf[e] # fresh
  BY <1>4, <1>7
<1>12. guards \subseteq guards'
  BY <1>1
<1> HIDE DEF fresh
<1>13. \A e \in Deployments : guardOf'[e] # 0 =>
          /\ \E g \in guards' : g.id = guardOf'[e]
          /\ claims'[TargetOf[e]] = {[access |-> "Exclusive", owner |-> guardOf'[e]]}
  BY <1>6, <1>7, <1>9, <1>10, <1>12 DEF HoldsInv
<1>14. \A e, f \in Deployments : guardOf'[e] # 0 /\ guardOf'[e] = guardOf'[f] => e = f
  BY <1>7, <1>11 DEF HoldsInv
<1> QED
  BY <1>1, <1>4, <1>7, <1>8, <1>13, <1>14 DEF HoldsInv

\* Dropping one reservation takes no claim of another.
LEMMA DropHolds ==
    ASSUME HoldsInv, NEW d \in Deployments, guardOf[d] # 0, DropReservation(d)
    PROVE  HoldsInv' /\ guardOf'[d] = 0 /\ \A e \in Deployments \ {d} : guardOf'[e] = guardOf[e]
<1> DEFINE g == GuardWith(guardOf[d])
<1>1. g \in guards /\ g.id = guardOf[d]
  BY DEF HoldsInv, GuardWith
<1>2. /\ claims' = [k \in Machines |-> IF k \in g.keys
                    THEN {h \in claims[k] : h.owner # g.id} ELSE claims[k]]
      /\ guards' = guards \ {g} /\ nextId' = nextId
      /\ guardOf' = [guardOf EXCEPT ![d] = 0]
  BY DEF DropReservation, Reg!Release, Reg!WithoutOwner
<1> HIDE DEF g
<1>3. guardOf'[d] = 0 /\ \A e \in Deployments \ {d} : guardOf'[e] = guardOf[e]
  BY <1>2 DEF HoldsInv
<1>4. guardOf' \in [Deployments -> 0 .. nextId']
  BY <1>2 DEF HoldsInv
<1>5. ASSUME NEW e \in Deployments \ {d}, guardOf[e] # 0
      PROVE  /\ \E h \in guards' : h.id = guardOf[e]
             /\ claims'[TargetOf[e]] = {[access |-> "Exclusive", owner |-> guardOf[e]]}
  <2>1. guardOf[e] # g.id
    BY <1>1, <1>5 DEF HoldsInv
  <2>2. TargetOf[e] \in Machines
    BY Plans
  <2>3. claims[TargetOf[e]] = {[access |-> "Exclusive", owner |-> guardOf[e]]}
        /\ \E h \in guards : h.id = guardOf[e]
    BY <1>5 DEF HoldsInv
  <2> DEFINE holder == [access |-> "Exclusive", owner |-> guardOf[e]]
  <2>4. holder.owner # g.id
    BY <2>1
  <2>5. claims'[TargetOf[e]] = {holder}
    <3> HIDE DEF holder
    <3>1. claims[TargetOf[e]] = {holder}
      BY <2>3 DEF holder
    <3> QED
      BY <1>2, <2>2, <2>4, <3>1
  <2> QED
    BY <1>2, <2>1, <2>3, <2>5
<1> QED
  BY <1>2, <1>3, <1>4, <1>5 DEF HoldsInv

LEMMA ServiceInitially == ServiceInit => ServiceInv
<1> SUFFICES ASSUME ServiceInit PROVE ServiceInv
  OBVIOUS
<1>1. HoldsInv
  BY DEF ServiceInit, HoldsInv, Reg!Init
<1>2. Free \in ServiceEntry /\ ~ Free.retained /\ ~ Free.releasing /\ ~ Free.authorityReleased
  BY DEF Free, ServiceEntry
<1>3. IdleCall.at = "idle"
  BY DEF IdleCall
<1>4. 0 \in 0 .. MaxServiceRevision
  BY Plans
<1>5. ProcessTypeOK
  BY <1>2, <1>4 DEF ServiceInit, ProcessTypeOK, JobStates, ClaimStatus, AuthorityStates
<1>6. ASSUME NEW d \in Deployments
      PROVE  JobInv(d) /\ CallInv(d) /\ (Responsible(d) <=> guardOf[d] # 0)
  BY <1>2, <1>3 DEF ServiceInit, JobInv, CallInv, Works, Responsible
<1> QED
  BY <1>1, <1>5, <1>6 DEF ServiceInv

-----------------------------------------------------------------------------
(* The steps, each of which is about one deployment.                       *)

OnlyMoves(d) ==
    /\ UNCHANGED <<route, phase>>
    /\ \A e \in Deployments \ {d} :
          /\ job'[e] = job[e] /\ outcome'[e] = outcome[e] /\ shown'[e] = shown[e]
          /\ unresolved'[e] = unresolved[e] /\ authority'[e] = authority[e] /\ disk'[e] = disk[e]
          /\ guardOf'[e] = guardOf[e]
          /\ e \in scanned' <=> e \in scanned
          /\ e \in recovered' <=> e \in recovered
          /\ \A r \in Releasers : releaser'[r] = releaser[r] \/ (~ Works(r, e) /\ ~ Works(r, e)')

LEMMA OthersKeep ==
    ASSUME NEW d \in Deployments, OnlyMoves(d), NEW e \in Deployments \ {d},
           JobInv(e), CallInv(e), Responsible(e) <=> guardOf[e] # 0
    PROVE  JobInv(e)' /\ CallInv(e)' /\ (Responsible(e) <=> guardOf[e] # 0)'
<1>1. /\ UNCHANGED <<route, phase>>
      /\ job'[e] = job[e] /\ outcome'[e] = outcome[e] /\ shown'[e] = shown[e]
      /\ unresolved'[e] = unresolved[e] /\ authority'[e] = authority[e] /\ disk'[e] = disk[e]
      /\ guardOf'[e] = guardOf[e]
      /\ e \in scanned' <=> e \in scanned
      /\ e \in recovered' <=> e \in recovered
  BY DEF OnlyMoves
<1>2. \A r \in Releasers : releaser'[r] = releaser[r] \/ (~ Works(r, e) /\ ~ Works(r, e)')
  BY DEF OnlyMoves
<1>3. \A r \in Releasers : Works(r, e)' => Works(r, e) /\ releaser'[r] = releaser[r]
  BY <1>2 DEF Works
<1>4. \A r \in Releasers : Works(r, e) => Works(r, e)' /\ releaser'[r] = releaser[r]
  BY <1>2 DEF Works
<1>5. JobInv(e)'
  BY <1>1 DEF JobInv, Ended
<1>6. Ended(e)' <=> Ended(e)
  BY <1>1 DEF Ended
<1>7. CallInv(e)'
  <2>1. (unresolved[e].releasing <=> \E r \in Releasers : Works(r, e) /\ releaser[r].at # "drop")'
    BY <1>1, <1>3, <1>4 DEF CallInv
  <2>2. (\A r \in Releasers : Works(r, e) =>
          /\ job[e] = "done"
          /\ unresolved[e].retained <=> releaser[r].at # "drop"
          /\ releaser[r].at = "read" /\ ~ releaser[r].callAuthority => Ended(e)
          /\ releaser[r].at \in {"remove", "finish"} => Ended(e))'
    BY <1>1, <1>3, <1>6 DEF CallInv
  <2>3. (\A r, s \in Releasers : Works(r, e) /\ Works(s, e) => r = s)'
    BY <1>3 DEF CallInv
  <2> QED
    BY <2>1, <2>2, <2>3 DEF CallInv
<1>8. (\E r \in Releasers : releaser'[r].at = "drop" /\ releaser'[r].id = e)
        <=> (\E r \in Releasers : releaser[r].at = "drop" /\ releaser[r].id = e)
  BY <1>3, <1>4 DEF Works
<1>9. Responsible(e)' <=> Responsible(e)
  BY <1>1, <1>8 DEF Responsible
<1> QED
  BY <1>1, <1>5, <1>7, <1>9

LEMMA StepKeeps ==
    ASSUME ServiceInv, NEW d \in Deployments, OnlyMoves(d), HoldsInv', ProcessTypeOK',
           JobInv(d)', CallInv(d)', (Responsible(d) <=> guardOf[d] # 0)'
    PROVE  ServiceInv'
<1>1. \A e \in Deployments \ {d} : JobInv(e)' /\ CallInv(e)' /\ (Responsible(e) <=> guardOf[e] # 0)'
  BY OthersKeep DEF ServiceInv
<1> QED
  BY <1>1 DEF ServiceInv

\* Nothing a release does not touch changes what is said of the calls.
LEMMA CallsKeep ==
    ASSUME NEW d \in Deployments, CallInv(d), UNCHANGED <<releaser, route>>,
           unresolved'[d].releasing <=> unresolved[d].releasing,
           \A r \in Releasers : Works(r, d) => job'[d] = job[d] /\ unresolved'[d] = unresolved[d],
           Ended(d) => Ended(d)'
    PROVE  CallInv(d)'
<1>1. \A r \in Releasers : Works(r, d)' <=> Works(r, d)
  BY DEF Works
<1> QED
  BY <1>1 DEF CallInv

\* The executing side and the durable manifest move by themselves.
LEMMA ExecutingKeeps ==
    ASSUME ServiceInv, NEW d \in Deployments, Executing(d)
    PROVE  ServiceInv'
<1>1. PICK to \in AuthorityStates :
        /\ authority' = [authority EXCEPT ![d] = to]
        /\ authority[d] \in {"Idle", "Sent", "Pending", "Held"}
        /\ authority[d] = "Idle" => job[d] = "running"
        /\ UNCHANGED <<regVars, process, jobVars, guardOf, releaser>>
  BY DEF Executing, RunDirect, Submit, DaemonReads, DaemonRejects, DaemonRegisters, ExecutorWrites,
         ExecutorKnowsOutcome, ExecutorUnsure, DaemonGone, Becomes, AuthorityStates, ClaimStatus
<1>2. \E n \in 0 .. MaxServiceRevision : disk' = [disk EXCEPT ![d] = n]
  <2>1. CASE UNCHANGED disk
    BY <2>1 DEF ServiceInv, ProcessTypeOK
  <2>2. CASE ExecutorWrites(d)
    <3>1. disk[d] + 1 \in 0 .. MaxServiceRevision
      BY <2>2, Plans DEF ExecutorWrites, ServiceInv, ProcessTypeOK
    <3> QED
      BY <2>2, <3>1, Zenon DEF ExecutorWrites
  <2>3. CASE disk' = [disk EXCEPT ![d] = 0]
    <3>1. 0 \in 0 .. MaxServiceRevision
      BY Plans
    <3> QED
      BY <2>3, <3>1, ZenonT(30)
  <2> QED
    BY <2>1, <2>2, <2>3 DEF Executing, RunDirect, Submit, DaemonReads, DaemonRejects,
         DaemonRegisters, ExecutorKnowsOutcome, ExecutorUnsure, DaemonGone
<1>3. /\ UNCHANGED <<route, phase, scanned, recovered, job, outcome, shown, unresolved, guardOf,
                     releaser, claims, guards, nextId>>
  BY <1>1 DEF process, jobVars, regVars
<1>4. OnlyMoves(d)
  BY <1>1, <1>2, <1>3 DEF OnlyMoves, ServiceInv, ProcessTypeOK
<1>5. HoldsInv'
  BY <1>3 DEF ServiceInv, HoldsInv
<1>6. ProcessTypeOK'
  BY <1>1, <1>2, <1>3 DEF ServiceInv, ProcessTypeOK
<1>7. job[d] \notin {"new", "foreign"} /\ ~ Ended(d)
  BY <1>1 DEF ServiceInv, JobInv, Ended
<1>8. ~ (route = "direct" /\ job[d] \in {"settling", "announcing", "publishing", "done"})
  BY <1>1 DEF ServiceInv, JobInv
<1>9. JobInv(d)'
  BY <1>3, <1>7, <1>8 DEF ServiceInv, JobInv
<1>10. CallInv(d)'
  BY <1>3, <1>7, CallsKeep DEF ServiceInv
<1>11. (Responsible(d) <=> guardOf[d] # 0)'
  BY <1>3 DEF ServiceInv, Responsible
<1> QED
  BY <1>4, <1>5, <1>6, <1>9, <1>10, <1>11, StepKeeps

LEMMA StartingKeeps ==
    ASSUME ServiceInv, NEW d \in Deployments, Start(d)
    PROVE  ServiceInv'
<1>1. /\ phase = "up" /\ job[d] = "new" /\ job' = [job EXCEPT ![d] = "running"]
      /\ Reg!Reserve(ResourceClaims(d)) /\ guardOf' = [guardOf EXCEPT ![d] = Reg!FreshId]
      /\ UNCHANGED <<route, phase, scanned, recovered, outcome, shown, unresolved, disk,
                     authority, releaser>>
  BY DEF Start, process
<1>2. HoldsInv' /\ guardOf'[d] # 0 /\ \A e \in Deployments \ {d} : guardOf'[e] = guardOf[e]
  BY <1>1, ReserveHolds, ZenonT(30) DEF ServiceInv
<1>3. ProcessTypeOK' /\ job'[d] = "running"
  BY <1>1 DEF ServiceInv, ProcessTypeOK, JobStates
<1>4. OnlyMoves(d)
  BY <1>1, <1>2 DEF OnlyMoves, ServiceInv, ProcessTypeOK
<1>5. JobInv(d)'
  BY <1>1, <1>3 DEF ServiceInv, ProcessTypeOK, JobInv, Ended
<1>6. CallInv(d)'
  <2>1. \A r \in Releasers : ~ Works(r, d)
    BY <1>1 DEF ServiceInv, CallInv
  <2>2. Ended(d)' <=> Ended(d)
    BY <1>1 DEF Ended
  <2> QED
    BY <1>1, <2>1, <2>2, CallsKeep DEF ServiceInv
<1>7. (Responsible(d) <=> guardOf[d] # 0)'
  BY <1>2, <1>3 DEF Responsible
<1> QED
  BY <1>2, <1>3, <1>4, <1>5, <1>6, <1>7, StepKeeps

\* The result of the executor reaches the task.
LEMMA ResultKeeps ==
    ASSUME ServiceInv, NEW d \in Deployments, NEW status \in ClaimStatus, Returns(d, status),
           status # "ReleasedUnresolved",
           route = "direct" => authority[d] = status /\ status \in {"Released", "ReconciliationRequired"},
           \/ UNCHANGED authority
           \/ /\ route = "elevated" /\ authority[d] = "ReconciliationRequired"
              /\ authority' = [authority EXCEPT ![d] = "Reconciled"]
    PROVE  ServiceInv'
<1>1. /\ phase = "up" /\ job[d] = "running" /\ job' = [job EXCEPT ![d] = "settling"]
      /\ outcome' = [outcome EXCEPT ![d] = status]
      /\ UNCHANGED <<route, phase, scanned, recovered, shown, unresolved, disk, releaser,
                     guardOf, claims, guards, nextId>>
  BY DEF Returns, process, regVars
<1>2. HoldsInv'
  BY <1>1 DEF ServiceInv, HoldsInv
<1>3. ProcessTypeOK' /\ job'[d] = "settling" /\ outcome'[d] = status
  BY <1>1 DEF ServiceInv, ProcessTypeOK, JobStates, AuthorityStates, ClaimStatus
<1>4. OnlyMoves(d)
  BY <1>1 DEF OnlyMoves, ServiceInv, ProcessTypeOK
<1>5. Ended(d) => Ended(d)'
  BY <1>1 DEF Ended, ServiceInv, ProcessTypeOK
<1>6. JobInv(d)'
  BY <1>1, <1>3, <1>5 DEF ServiceInv, ProcessTypeOK, JobInv
<1>7. CallInv(d)'
  <2>1. \A r \in Releasers : ~ Works(r, d)
    BY <1>1, Zenon DEF ServiceInv, CallInv
  <2> QED
    BY <1>1, <1>5, <2>1, CallsKeep, Zenon DEF ServiceInv
<1>8. (Responsible(d) <=> guardOf[d] # 0)'
  BY <1>1, <1>3 DEF ServiceInv, Responsible
<1> QED
  BY <1>2, <1>3, <1>4, <1>6, <1>7, <1>8, StepKeeps

LEMMA SettleKeeps ==
    ASSUME ServiceInv, NEW d \in Deployments, Settle(d)
    PROVE  ServiceInv'
<1>1. /\ phase = "up" /\ job[d] = "settling" /\ job' = [job EXCEPT ![d] = "announcing"]
      /\ UNCHANGED <<route, phase, scanned, recovered, outcome, shown, disk, authority, releaser>>
  BY DEF Settle, process
<1>2. \A r \in Releasers : ~ Works(r, d)
  BY <1>1, Zenon DEF ServiceInv, CallInv
<1>3. /\ job' \in [Deployments -> JobStates] /\ job'[d] = "announcing"
      /\ \A e \in Deployments \ {d} : job'[e] = job[e]
  BY <1>1 DEF ServiceInv, ProcessTypeOK, JobStates
<1>4. guardOf[d] # 0 /\ d \notin recovered /\ ~ unresolved[d].retained
  BY <1>1 DEF ServiceInv, JobInv, Responsible
<1>5. CASE outcome[d] = "ReconciliationRequired"
  <2> DEFINE kept == [Free EXCEPT !.retained = TRUE]
  <2>1. /\ unresolved' = [unresolved EXCEPT ![d] = kept]
        /\ UNCHANGED <<claims, guards, nextId, guardOf>>
    BY <1>5 DEF Settle, regVars
  <2>2. kept \in ServiceEntry /\ kept.retained /\ ~ kept.releasing /\ ~ kept.authorityReleased
    BY ZenonT(30) DEF Free, ServiceEntry
  <2> HIDE DEF kept
  <2>3. unresolved'[d] = kept /\ \A e \in Deployments \ {d} : unresolved'[e] = unresolved[e]
    BY <2>1 DEF ServiceInv, ProcessTypeOK
  <2>4. HoldsInv'
    BY <2>1 DEF ServiceInv, HoldsInv
  <2>5. ProcessTypeOK'
    BY <1>1, <1>3, <2>1, <2>2 DEF ServiceInv, ProcessTypeOK
  <2>6. OnlyMoves(d)
    BY <1>1, <1>3, <2>1, <2>3 DEF OnlyMoves
  <2>7. JobInv(d)'
    BY <1>1, <1>3, <1>5, <2>2, <2>3, Zenon DEF ServiceInv, JobInv, Ended
  <2>8. CallInv(d)'
    BY <1>1, <1>2, <2>2, <2>3 DEF CallInv, Works
  <2>9. (Responsible(d) <=> guardOf[d] # 0)'
    BY <1>4, <2>1, <2>2, <2>3 DEF Responsible
  <2> QED
    BY <2>4, <2>5, <2>6, <2>7, <2>8, <2>9, StepKeeps
<1>6. CASE outcome[d] # "ReconciliationRequired"
  <2>1. DropReservation(d) /\ UNCHANGED unresolved
    BY <1>6 DEF Settle
  <2>2. HoldsInv' /\ guardOf'[d] = 0 /\ \A e \in Deployments \ {d} : guardOf'[e] = guardOf[e]
    BY <1>4, <2>1, DropHolds DEF ServiceInv
  <2>3. ProcessTypeOK'
    BY <1>1, <1>3, <2>1 DEF ServiceInv, ProcessTypeOK
  <2>4. OnlyMoves(d)
    BY <1>1, <1>3, <2>1, <2>2 DEF OnlyMoves
  <2>5. JobInv(d)'
    BY <1>1, <1>3, <1>4, <2>1 DEF ServiceInv, JobInv, Ended
  <2>6. CallInv(d)'
    BY <1>1, <1>2, <2>1 DEF ServiceInv, CallInv, Works
  <2>7. (Responsible(d) <=> guardOf[d] # 0)'
    BY <1>1, <1>2, <1>3, <1>4, <2>1, <2>2 DEF Responsible, Works
  <2> QED
    BY <2>2, <2>3, <2>4, <2>5, <2>6, <2>7, StepKeeps
<1> QED
  BY <1>5, <1>6

LEMMA AnnounceKeeps ==
    ASSUME ServiceInv, NEW d \in Deployments, Announce(d) \/ Publish(d)
    PROVE  ServiceInv'
<1>1. /\ phase = "up" /\ job[d] \in {"announcing", "publishing"}
      /\ UNCHANGED <<route, phase, scanned, recovered, outcome, unresolved, disk, authority,
                     releaser, guardOf, claims, guards, nextId>>
  BY DEF Announce, Publish, process, regVars
<1>2. PICK s \in {outcome[d], shown[d]} : shown' = [shown EXCEPT ![d] = s]
  BY DEF Announce, Publish, ServiceInv, ProcessTypeOK
<1>3. PICK j \in {"publishing", "done"} : job' = [job EXCEPT ![d] = j]
  BY DEF Announce, Publish
<1>4. /\ job' \in [Deployments -> JobStates] /\ job'[d] = j
      /\ \A e \in Deployments \ {d} : job'[e] = job[e]
  BY <1>3 DEF ServiceInv, ProcessTypeOK, JobStates
<1>5. /\ shown' \in [Deployments -> ClaimStatus] /\ shown'[d] = s
      /\ \A e \in Deployments \ {d} : shown'[e] = shown[e]
  BY <1>2 DEF ServiceInv, ProcessTypeOK
<1>6. s # "ReleasedUnresolved"
  BY <1>1 DEF ServiceInv, JobInv
<1>7. HoldsInv'
  BY <1>1 DEF ServiceInv, HoldsInv
<1>8. ProcessTypeOK'
  BY <1>1, <1>4, <1>5 DEF ServiceInv, ProcessTypeOK
<1>9. OnlyMoves(d)
  BY <1>1, <1>4, <1>5 DEF OnlyMoves
<1>10. JobInv(d)'
  BY <1>1, <1>4, <1>5, <1>6, Zenon DEF ServiceInv, JobInv, Ended
<1>11. CallInv(d)'
  <2>1. \A r \in Releasers : ~ Works(r, d)
    BY <1>1, Zenon DEF ServiceInv, CallInv
  <2> QED
    BY <1>1, <2>1, Zenon DEF ServiceInv, CallInv, Works
<1>12. (Responsible(d) <=> guardOf[d] # 0)'
  BY <1>1, <1>4, Zenon DEF ServiceInv, Responsible
<1> QED
  BY <1>7, <1>8, <1>9, <1>10, <1>11, <1>12, StepKeeps

LEMMA TaskKeeps ==
    ASSUME ServiceInv, NEW d \in Deployments, Task(d)
    PROVE  ServiceInv'
<1>1. CASE DirectResult(d)
  <2>1. authority[d] \in ClaimStatus
    BY <1>1 DEF DirectResult, ClaimStatus
  <2> QED
    BY <1>1, <2>1, ResultKeeps DEF DirectResult
<1>2. CASE UnknownSubmission(d) \/ RejectedSubmission(d) \/ LosesContact(d) \/ FinishKnown(d)
  <2>1. PICK status \in {"Released", "ReconciliationRequired"} :
            Returns(d, status) /\ UNCHANGED authority /\ route = "elevated"
    BY <1>2 DEF UnknownSubmission, RejectedSubmission, LosesContact, FinishKnown
  <2>2. status \in ClaimStatus /\ status # "ReleasedUnresolved"
    BY DEF ClaimStatus
  <2> QED
    BY <2>1, <2>2, ResultKeeps
<1>3. CASE FinishUnknown(d)
  <2>1. PICK status \in {"Reconciled", "ReconciliationRequired"} :
            /\ Returns(d, status) /\ route = "elevated" /\ authority[d] = "ReconciliationRequired"
            /\ UNCHANGED authority \/ authority' = [authority EXCEPT ![d] = "Reconciled"]
    BY <1>3 DEF FinishUnknown
  <2>2. status \in ClaimStatus /\ status # "ReleasedUnresolved"
    BY DEF ClaimStatus
  <2> QED
    BY <2>1, <2>2, ResultKeeps
<1>4. CASE Settle(d) \/ Announce(d) \/ Publish(d)
  BY <1>4, SettleKeeps, AnnounceKeeps
<1> QED
  BY <1>1, <1>2, <1>3, <1>4 DEF Task

LEMMA ForeignKeeps ==
    ASSUME ServiceInv, NEW d \in Deployments, ForeignDeploys(d)
    PROVE  ServiceInv'
<1>1. /\ job[d] \in {"new", "foreign"} /\ job' = [job EXCEPT ![d] = "foreign"]
      /\ UNCHANGED <<route, phase, scanned, recovered, outcome, shown, unresolved, authority,
                     releaser, guardOf, claims, guards, nextId>>
  BY DEF ForeignDeploys, process, regVars
<1>2. PICK n \in 0 .. MaxServiceRevision : disk' = [disk EXCEPT ![d] = n]
  <2>1. 0 \in 0 .. MaxServiceRevision /\ 1 \in 0 .. MaxServiceRevision
    BY Plans
  <2> QED
    BY <2>1 DEF ForeignDeploys
<1>3. /\ job' \in [Deployments -> JobStates] /\ job'[d] = "foreign"
      /\ \A e \in Deployments \ {d} : job'[e] = job[e]
  BY <1>1 DEF ServiceInv, ProcessTypeOK, JobStates
<1>4. HoldsInv'
  BY <1>1, Zenon DEF ServiceInv, HoldsInv
<1>5. ProcessTypeOK' /\ \A e \in Deployments \ {d} : disk'[e] = disk[e]
  BY <1>1, <1>2, <1>3, Zenon DEF ServiceInv, ProcessTypeOK
<1>6. OnlyMoves(d)
  BY <1>1, <1>3, <1>5, Zenon DEF OnlyMoves
<1>7. JobInv(d)'
  BY <1>1, <1>3, Zenon DEF ServiceInv, JobInv, Ended
<1>8. CallInv(d)'
  <2>1. \A r \in Releasers : ~ Works(r, d)
    BY <1>1, Zenon DEF ServiceInv, CallInv
  <2> QED
    BY <1>1, <2>1 DEF ServiceInv, CallInv, Works
<1>9. (Responsible(d) <=> guardOf[d] # 0)'
  BY <1>1, <1>3, Zenon DEF ServiceInv, Responsible
<1> QED
  BY <1>4, <1>5, <1>6, <1>7, <1>8, <1>9, StepKeeps

-----------------------------------------------------------------------------
(* The calls of release_unresolved.                                        *)

LEMMA CallFacts ==
    ASSUME ServiceInv, NEW r \in Releasers, releaser[r].at # "idle"
    PROVE  /\ releaser[r] \in Call /\ releaser[r].id \in Deployments
           /\ Works(r, releaser[r].id)
<1>1. releaser[r] \in Call
  BY DEF ServiceInv, ProcessTypeOK, IdleCall
<1> QED
  BY <1>1 DEF Call, Works

LEMMA CallsAreActive == \A c \in Call : c.at # "idle" /\ c # IdleCall
<1> SUFFICES ASSUME NEW c \in Call PROVE c.at # "idle" /\ c # IdleCall
  OBVIOUS
<1>1. c.at # "idle"
  BY DEF Call
<1>2. IdleCall.at = "idle"
  BY DEF IdleCall
<1> QED
  BY <1>1, <1>2

\* One call r moves to c, or ends; the entry it works on becomes u.
LEMMA ReleaseStep ==
    ASSUME ServiceInv, NEW r \in Releasers, NEW d \in Deployments, job[d] = "done",
           releaser[r] = IdleCall \/ Works(r, d),
           \A s \in Releasers : Works(s, d) => s = r,
           NEW c \in Call \cup {IdleCall}, c = IdleCall \/ c.id = d,
           NEW u \in ServiceEntry,
           releaser' = [releaser EXCEPT ![r] = c],
           unresolved' = [unresolved EXCEPT ![d] = u],
           UNCHANGED <<route, phase, scanned, recovered, job, outcome>>,
           shown' = shown \/ (shown' = [shown EXCEPT ![d] = "ReleasedUnresolved"] /\ Ended(d)),
           disk' = disk \/ disk' = [disk EXCEPT ![d] = 0],
           authority' = authority \/ (route = "elevated"
                                      /\ authority' = [authority EXCEPT ![d] = "ReleasedUnresolved"]),
           u.releasing <=> c \in Call /\ c.at # "drop",
           c \in Call => /\ u.retained <=> c.at # "drop"
                         /\ c.at = "read" /\ ~ c.callAuthority => Ended(d)'
                         /\ c.at \in {"remove", "finish"} => Ended(d)',
           u.retained => unresolved[d].retained,
           u.authorityReleased => Ended(d)',
           HoldsInv', \A e \in Deployments \ {d} : guardOf'[e] = guardOf[e],
           u.retained \/ (c \in Call /\ c.at = "drop") <=> guardOf'[d] # 0
    PROVE  ServiceInv'
<1>1. /\ releaser'[r] = c /\ \A s \in Releasers \ {r} : releaser'[s] = releaser[s]
      /\ releaser' \in [Releasers -> Call \cup {IdleCall}]
  BY Zenon DEF ServiceInv, ProcessTypeOK
<1>2. /\ unresolved'[d] = u /\ \A e \in Deployments \ {d} : unresolved'[e] = unresolved[e]
      /\ unresolved' \in [Deployments -> ServiceEntry]
  BY Zenon DEF ServiceInv, ProcessTypeOK
<1>3. /\ \A e \in Deployments \ {d} : shown'[e] = shown[e] /\ disk'[e] = disk[e]
                                      /\ authority'[e] = authority[e]
      /\ shown' \in [Deployments -> ClaimStatus] /\ authority' \in [Deployments -> AuthorityStates]
      /\ shown'[d] = "ReleasedUnresolved" => shown[d] = "ReleasedUnresolved" \/ Ended(d)
  BY Zenon DEF ServiceInv, ProcessTypeOK, ClaimStatus, AuthorityStates
<1>4. disk' \in [Deployments -> 0 .. MaxServiceRevision]
  <2>1. 0 \in 0 .. MaxServiceRevision
    BY ZeroIsRevision
  <2> QED
    BY <2>1, Zenon DEF ServiceInv, ProcessTypeOK
<1>5. ProcessTypeOK'
  BY <1>1, <1>2, <1>3, <1>4, Zenon DEF ServiceInv, ProcessTypeOK
<1>6. Ended(d) => Ended(d)'
  BY Zenon DEF Ended, ServiceInv, ProcessTypeOK
<1>7. IdleCall.at = "idle"
  BY DEF IdleCall
<1>8. OnlyMoves(d)
  <2>1. ASSUME NEW e \in Deployments \ {d}, NEW s \in Releasers
        PROVE  releaser'[s] = releaser[s] \/ (~ Works(s, e) /\ ~ Works(s, e)')
    BY <1>1, <1>7, Zenon DEF Works
  <2> QED
    BY <1>2, <1>3, <2>1, Zenon DEF OnlyMoves
<1>9. \A s \in Releasers : Works(s, d)' <=> s = r /\ c \in Call
  BY <1>1, <1>7, CallsAreActive, Zenon DEF Works
<1>10. JobInv(d) /\ CallInv(d)
  BY Zenon DEF ServiceInv
<1>11. d \notin recovered /\ phase = "up"
  BY <1>10, Zenon DEF JobInv
<1>12. JobInv(d)'
  <2>1. route = "direct" => authority' = authority
    OBVIOUS
  <2> QED
    BY <1>2, <1>3, <1>6, <1>10, <2>1, Zenon DEF JobInv
<1>13. CallInv(d)'
  <2>1. \A s, t \in Releasers : Works(s, d)' /\ Works(t, d)' => s = t
    BY <1>9, Zenon
  <2>2. ASSUME NEW s \in Releasers, Works(s, d)'
        PROVE  /\ job'[d] = "done"
               /\ unresolved'[d].retained <=> releaser'[s].at # "drop"
               /\ releaser'[s].at = "read" /\ ~ releaser'[s].callAuthority => Ended(d)'
               /\ releaser'[s].at \in {"remove", "finish"} => Ended(d)'
    BY <1>1, <1>2, <1>9, <2>2, Zenon
  <2>3. (unresolved[d].releasing <=> \E s \in Releasers : Works(s, d) /\ releaser[s].at # "drop")'
    BY <1>1, <1>2, <1>9, Zenon
  <2> QED
    BY <2>1, <2>2, <2>3, Zenon DEF CallInv
<1>14. (Responsible(d) <=> guardOf[d] # 0)'
  <2>1. (\E s \in Releasers : releaser'[s].at = "drop" /\ releaser'[s].id = d)
          <=> c \in Call /\ c.at = "drop"
    BY <1>1, <1>9 DEF Works
  <2> QED
    BY <1>2, <1>11, <2>1, Zenon DEF Responsible
<1> QED
  BY <1>5, <1>8, <1>12, <1>13, <1>14, StepKeeps

LEMMA BeginReleaseKeeps ==
    ASSUME ServiceInv, NEW r \in Releasers, NEW d \in Deployments, BeginRelease(r, d)
    PROVE  ServiceInv'
<1> DEFINE call == ~ unresolved[d].authorityReleased
           c == [at |-> "read", id |-> d, revision |-> 0, callAuthority |-> call]
           u == [unresolved[d] EXCEPT !.releasing = TRUE]
<1>1. /\ releaser[r] = IdleCall /\ job[d] = "done" /\ unresolved[d].retained
      /\ ~ unresolved[d].releasing /\ releaser' = [releaser EXCEPT ![r] = c]
      /\ UNCHANGED <<route, phase, scanned, recovered, job, outcome, shown, disk, authority,
                     guardOf, claims, guards, nextId>>
  BY DEF BeginRelease, regVars, process
<1>2. unresolved[d] \in ServiceEntry
  BY DEF ServiceInv, ProcessTypeOK
<1>3. /\ u \in ServiceEntry /\ u.releasing /\ u.retained = unresolved[d].retained
      /\ u.authorityReleased = unresolved[d].authorityReleased
  BY <1>2, Zenon DEF ServiceEntry
<1>4. unresolved' = [unresolved EXCEPT ![d] = u]
  BY DEF BeginRelease, ServiceInv, ProcessTypeOK
<1> HIDE DEF u
<1>5. call \in BOOLEAN /\ (~ call => unresolved[d].authorityReleased)
  BY <1>2, Zenon DEF ServiceEntry
<1>6. 0 \in 0 .. MaxServiceRevision
  BY Plans
<1> HIDE DEF call
<1>7. c \in Call /\ c.at = "read" /\ c.id = d /\ c.callAuthority = call
  BY <1>5, <1>6 DEF Call
<1> HIDE DEF c
<1>8. unresolved[d].authorityReleased => Ended(d)
  BY DEF ServiceInv, JobInv
<1>9. Ended(d)' <=> Ended(d)
  BY <1>1 DEF Ended
<1>10. \A s \in Releasers : ~ Works(s, d)
  BY <1>1 DEF ServiceInv, CallInv
<1>11. HoldsInv' /\ (Responsible(d) <=> guardOf[d] # 0)
  BY <1>1 DEF ServiceInv, HoldsInv
<1>12. guardOf'[d] # 0
  BY <1>1, <1>11 DEF Responsible
<1> QED
  BY <1>1, <1>3, <1>4, <1>5, <1>7, <1>8, <1>9, <1>10, <1>11, <1>12, ReleaseStep, Zenon

\* The facts about a call that is not about to return, and about its entry.
LEMMA ActiveFacts ==
    ASSUME ServiceInv, NEW r \in Releasers, releaser[r].at \notin {"idle", "drop"}
    PROVE  /\ releaser[r] \in Call /\ releaser[r].id \in Deployments
           /\ Works(r, releaser[r].id) /\ job[releaser[r].id] = "done"
           /\ unresolved[releaser[r].id] \in ServiceEntry
           /\ unresolved[releaser[r].id].retained /\ unresolved[releaser[r].id].releasing
           /\ unresolved[releaser[r].id].authorityReleased => Ended(releaser[r].id)
           /\ guardOf[releaser[r].id] # 0
           /\ \A s \in Releasers : Works(s, releaser[r].id) => s = r
<1> DEFINE d == releaser[r].id
<1>1. releaser[r] \in Call /\ d \in Deployments /\ Works(r, d)
  BY CallFacts
<1> HIDE DEF d
<1>2. CallInv(d) /\ JobInv(d) /\ (Responsible(d) <=> guardOf[d] # 0) /\ unresolved[d] \in ServiceEntry
  BY <1>1 DEF ServiceInv, ProcessTypeOK
<1>3. unresolved[d].retained /\ unresolved[d].releasing /\ job[d] = "done"
  BY <1>1, <1>2, Zenon DEF CallInv
<1>4. guardOf[d] # 0
  BY <1>2, <1>3, Zenon DEF Responsible
<1>5. unresolved[d].authorityReleased => Ended(d)
  BY <1>2, Zenon DEF JobInv
<1>6. \A s \in Releasers : Works(s, d) => s = r
  BY <1>1, <1>2 DEF CallInv
<1> QED
  BY <1>1, <1>2, <1>3, <1>4, <1>5, <1>6 DEF d

\* Every early return leaves the entry as it was found, free for another call.
LEMMA GiveUpKeeps ==
    ASSUME ServiceInv, NEW r \in Releasers, releaser[r].at \notin {"idle", "drop"}, GiveUp(r),
           UNCHANGED <<regVars, process, job, outcome, shown, guardOf>>,
           disk' = disk \/ disk' = [disk EXCEPT ![releaser[r].id] = 0],
           authority' = authority
              \/ (route = "elevated"
                  /\ authority' = [authority EXCEPT ![releaser[r].id] = "ReleasedUnresolved"])
    PROVE  ServiceInv'
<1> PICK d : d = releaser[r].id
  OBVIOUS
<1> DEFINE u == [unresolved[d] EXCEPT !.releasing = FALSE]
<1>1. /\ releaser[r] \in Call /\ d \in Deployments /\ Works(r, d) /\ job[d] = "done"
      /\ unresolved[d] \in ServiceEntry /\ unresolved[d].retained /\ unresolved[d].releasing
      /\ (unresolved[d].authorityReleased => Ended(d)) /\ guardOf[d] # 0
      /\ \A s \in Releasers : Works(s, d) => s = r
  BY ActiveFacts, Zenon
<1>2. releaser' = [releaser EXCEPT ![r] = IdleCall] /\ unresolved' = [unresolved EXCEPT ![d] = u]
  BY <1>1 DEF GiveUp, ServiceInv, ProcessTypeOK
<1>3. disk' = disk \/ disk' = [disk EXCEPT ![d] = 0]
  OBVIOUS
<1>4. authority' = authority
        \/ (route = "elevated" /\ authority' = [authority EXCEPT ![d] = "ReleasedUnresolved"])
  OBVIOUS
<1>5. /\ u \in ServiceEntry /\ ~ u.releasing /\ u.retained
      /\ u.authorityReleased = unresolved[d].authorityReleased
  BY <1>1, ZenonT(30) DEF ServiceEntry
<1> HIDE DEF u
<1>6. UNCHANGED <<route, phase, scanned, recovered, job, outcome, shown, guardOf, claims, guards, nextId>>
  BY DEF regVars, process
<1>7. Ended(d) => Ended(d)'
  BY <1>1, <1>4, <1>6, Zenon DEF Ended, ServiceInv, ProcessTypeOK
<1>8. HoldsInv'
  BY <1>6 DEF ServiceInv, HoldsInv
<1>9. IdleCall \notin Call
  BY CallsAreActive
<1> QED
  BY <1>1, <1>2, <1>3, <1>4, <1>5, <1>6, <1>7, <1>8, <1>9, ReleaseStep, Zenon

\* A call that goes on: it is at c, and its entry at u.
LEMMA AdvanceKeeps ==
    ASSUME ServiceInv, NEW r \in Releasers, releaser[r].at \notin {"idle", "drop"},
           NEW d, d = releaser[r].id,
           NEW c \in Call, c.id = d, c.at \in {"authority", "remove", "finish"},
           NEW u \in ServiceEntry, u.retained, u.releasing,
           releaser' = [releaser EXCEPT ![r] = c], unresolved' = [unresolved EXCEPT ![d] = u],
           UNCHANGED <<regVars, process, job, outcome, shown, guardOf>>,
           disk' = disk \/ disk' = [disk EXCEPT ![d] = 0],
           authority' = authority
              \/ (route = "elevated" /\ authority' = [authority EXCEPT ![d] = "ReleasedUnresolved"]),
           u.authorityReleased => Ended(d)', c.at # "authority" => Ended(d)'
    PROVE  ServiceInv'
<1>1. /\ d \in Deployments /\ Works(r, d) /\ job[d] = "done" /\ unresolved[d].retained
      /\ guardOf[d] # 0 /\ \A s \in Releasers : Works(s, d) => s = r
  <2>1. /\ ServiceInv /\ r \in Releasers /\ releaser[r].at \notin {"idle", "drop"}
        /\ d = releaser[r].id
    OBVIOUS
  <2> QED
    BY ONLY <2>1, ActiveFacts
<1>2. UNCHANGED <<route, phase, scanned, recovered, job, outcome, shown, guardOf, claims, guards, nextId>>
  BY DEF regVars, process
<1>3. HoldsInv'
  BY <1>2, HoldsStay, Zenon DEF ServiceInv
<1>4. /\ u.releasing <=> c \in Call /\ c.at # "drop"
      /\ u.retained <=> c.at # "drop"
      /\ c.at # "read" /\ (c.at \in {"remove", "finish"} => Ended(d)')
  OBVIOUS
<1>5. u.retained \/ (c \in Call /\ c.at = "drop") <=> guardOf'[d] # 0
  BY <1>1, <1>2, Zenon
<1> QED
  BY <1>1, <1>2, <1>3, <1>4, <1>5, ReleaseStep, Zenon

LEMMA EntryReleased ==
    ASSUME NEW u \in ServiceEntry
    PROVE  /\ [u EXCEPT !.authorityReleased = TRUE] \in ServiceEntry
           /\ [u EXCEPT !.authorityReleased = TRUE].retained = u.retained
           /\ [u EXCEPT !.authorityReleased = TRUE].releasing = u.releasing
  BY ZenonT(30) DEF ServiceEntry

LEMMA ReadRevisionKeeps ==
    ASSUME ServiceInv, NEW r \in Releasers, ReadRevision(r)
    PROVE  ServiceInv'
<1> PICK d : d = releaser[r].id
  OBVIOUS
<1>1. /\ releaser[r].at = "read"
      /\ UNCHANGED <<regVars, process, job, outcome, shown, guardOf, disk, authority>>
  BY DEF ReadRevision
<1>2. /\ releaser[r] \in Call /\ d \in Deployments /\ Works(r, d) /\ unresolved[d] \in ServiceEntry
      /\ unresolved[d].retained /\ unresolved[d].releasing
      /\ (unresolved[d].authorityReleased => Ended(d))
  BY <1>1, ActiveFacts, Zenon
<1>3. CASE GiveUp(r)
  BY <1>1, <1>3, GiveUpKeeps
<1>4. CASE ~ GiveUp(r)
  <2> DEFINE n == disk[d]
             at == IF releaser[r].callAuthority THEN "authority" ELSE "remove"
             b == [releaser[r] EXCEPT !.revision = n]
             c == [b EXCEPT !.at = at]
  <2>1. /\ releaser' = [releaser EXCEPT ![r].revision = n, ![r].at = at] /\ UNCHANGED unresolved
    BY <1>4 DEF ReadRevision
  <2>2. n \in 0 .. MaxServiceRevision /\ at \in {"authority", "remove", "finish"}
    BY <1>2 DEF ServiceInv, ProcessTypeOK
  <2>3. Ended(d)' <=> Ended(d)
    BY <1>1 DEF Ended, process
  <2>4. at # "authority" => Ended(d)
    BY <1>1, <1>2 DEF ServiceInv, CallInv
  <2> HIDE DEF n, at
  <2>5. b \in Call /\ b.id = d
    BY <1>2, <2>2 DEF Call
  <2>6. releaser' = [releaser EXCEPT ![r] = c] /\ unresolved' = [unresolved EXCEPT ![d] = unresolved[d]]
    BY <2>1, Zenon DEF ServiceInv, ProcessTypeOK
  <2> HIDE DEF b
  <2>7. c \in Call /\ c.id = d /\ c.at = at
    BY <2>2, <2>5 DEF Call
  <2> HIDE DEF c
  <2> QED
    BY <1>1, <1>2, <2>2, <2>3, <2>4, <2>6, <2>7, AdvanceKeeps, ZenonT(30)
<1> QED
  BY <1>3, <1>4

LEMMA AuthorityReleasesKeeps ==
    ASSUME ServiceInv, NEW r \in Releasers, AuthorityReleases(r)
    PROVE  ServiceInv'
<1> PICK d : d = releaser[r].id
  OBVIOUS
<1>1. /\ releaser[r].at = "authority"
      /\ UNCHANGED <<regVars, process, job, outcome, shown, guardOf, disk>>
  BY DEF AuthorityReleases
<1>2. /\ releaser[r] \in Call /\ d \in Deployments /\ Works(r, d) /\ unresolved[d] \in ServiceEntry
      /\ job[d] = "done" /\ unresolved[d].retained /\ unresolved[d].releasing
  BY <1>1, ActiveFacts
<1>3. authority' = authority
        \/ (route = "elevated" /\ authority' = [authority EXCEPT ![d] = "ReleasedUnresolved"])
  BY DEF AuthorityReleases
<1>4. CASE GiveUp(r)
  BY <1>1, <1>3, <1>4, GiveUpKeeps
<1>5. CASE ~ GiveUp(r)
  <2> DEFINE c == [releaser[r] EXCEPT !.at = "remove"]
             u == [unresolved[d] EXCEPT !.authorityReleased = TRUE]
  <2>1. /\ unresolved' = [unresolved EXCEPT ![d].authorityReleased = TRUE] /\ Step(r, "remove")
        /\ \/ route = "direct" /\ UNCHANGED authority
           \/ route = "elevated" /\ authority' = [authority EXCEPT ![d] = "ReleasedUnresolved"]
    BY <1>5 DEF AuthorityReleases
  <2>2. route = "direct" => authority[d] = "ReconciliationRequired"
    BY <1>2 DEF ServiceInv, JobInv
  <2>3. Ended(d)'
    BY <1>1, <1>2, <2>1, <2>2 DEF Ended, process, ServiceInv, ProcessTypeOK
  <2>4. c \in Call /\ c.id = d /\ c.at = "remove"
    BY <1>2 DEF Call
  <2>5. releaser' = [releaser EXCEPT ![r] = c] /\ unresolved' = [unresolved EXCEPT ![d] = u]
    BY <2>1 DEF Step, ServiceInv, ProcessTypeOK
  <2>6. u \in ServiceEntry /\ u.retained /\ u.releasing
    BY <1>2, EntryReleased
  <2> HIDE DEF c, u
  <2> QED
    BY <1>1, <1>2, <1>3, <2>3, <2>4, <2>5, <2>6, AdvanceKeeps, Zenon
<1> QED
  BY <1>4, <1>5

LEMMA RemoveManifestKeeps ==
    ASSUME ServiceInv, NEW r \in Releasers, RemoveManifest(r)
    PROVE  ServiceInv'
<1> PICK d : d = releaser[r].id
  OBVIOUS
<1>1. /\ releaser[r].at = "remove"
      /\ UNCHANGED <<regVars, process, job, outcome, shown, guardOf, authority>>
  BY DEF RemoveManifest
<1>2. /\ releaser[r] \in Call /\ d \in Deployments /\ Works(r, d) /\ unresolved[d] \in ServiceEntry
      /\ unresolved[d].retained /\ unresolved[d].releasing
      /\ (unresolved[d].authorityReleased => Ended(d))
  BY <1>1, ActiveFacts
<1>3. disk' = disk \/ disk' = [disk EXCEPT ![d] = 0]
  BY Zenon DEF RemoveManifest
<1>4. CASE GiveUp(r)
  BY <1>1, <1>3, <1>4, GiveUpKeeps
<1>5. CASE ~ GiveUp(r)
  <2> DEFINE c == [releaser[r] EXCEPT !.at = "finish"]
  <2>1. Step(r, "finish") /\ UNCHANGED unresolved
    BY <1>5 DEF RemoveManifest
  <2>2. Ended(d)' <=> Ended(d)
    BY <1>1 DEF Ended, process
  <2>3. Ended(d)
    BY <1>1, <1>2 DEF ServiceInv, CallInv
  <2>4. c \in Call /\ c.id = d /\ c.at = "finish"
    BY <1>2 DEF Call
  <2>5. releaser' = [releaser EXCEPT ![r] = c] /\ unresolved' = [unresolved EXCEPT ![d] = unresolved[d]]
    BY <2>1 DEF Step, ServiceInv, ProcessTypeOK
  <2> HIDE DEF c
  <2> QED
    BY <1>1, <1>2, <1>3, <2>2, <2>3, <2>4, <2>5, AdvanceKeeps, ZenonT(30)
<1> QED
  BY <1>4, <1>5

LEMMA FinishReleaseKeeps ==
    ASSUME ServiceInv, NEW r \in Releasers, FinishRelease(r)
    PROVE  ServiceInv'
<1> PICK d : d = releaser[r].id
  OBVIOUS
<1> DEFINE c == [releaser[r] EXCEPT !.at = "drop"]
<1>1. /\ releaser[r].at = "finish" /\ unresolved' = [unresolved EXCEPT ![d] = Free]
      /\ shown' = [shown EXCEPT ![d] = "ReleasedUnresolved"]
      /\ UNCHANGED <<route, phase, scanned, recovered, job, outcome, guardOf, claims, guards, nextId,
                     disk, authority>>
  BY Zenon DEF FinishRelease, regVars, process
<1>2. /\ releaser[r] \in Call /\ d \in Deployments /\ Works(r, d) /\ job[d] = "done"
      /\ guardOf[d] # 0 /\ \A s \in Releasers : Works(s, d) => s = r
  BY <1>1, ActiveFacts, Zenon
<1>3. Ended(d)
  BY <1>1, <1>2 DEF ServiceInv, CallInv
<1>4. Ended(d)' <=> Ended(d)
  BY <1>1 DEF Ended
<1>5. c \in Call /\ c.at = "drop" /\ c.id = d
  BY <1>2 DEF Call
<1>6. releaser' = [releaser EXCEPT ![r] = c]
  BY DEF FinishRelease, Step, ServiceInv, ProcessTypeOK
<1>7. Free \in ServiceEntry /\ ~ Free.retained /\ ~ Free.releasing /\ ~ Free.authorityReleased
  BY DEF Free, ServiceEntry
<1>8. HoldsInv'
  BY <1>1, Zenon DEF ServiceInv, HoldsInv
<1> HIDE DEF c
<1>9. Free.releasing <=> c \in Call /\ c.at # "drop"
  BY <1>5, <1>7
<1>10. Free.retained \/ (c \in Call /\ c.at = "drop") <=> guardOf'[d] # 0
  BY <1>1, <1>2, <1>5, <1>7, Zenon
<1> QED
  BY <1>1, <1>2, <1>3, <1>4, <1>5, <1>6, <1>7, <1>8, <1>9, <1>10, ReleaseStep, Zenon

LEMMA DropClaimKeeps ==
    ASSUME ServiceInv, NEW r \in Releasers, DropClaim(r)
    PROVE  ServiceInv'
<1> PICK d : d = releaser[r].id
  OBVIOUS
<1> DEFINE u == unresolved[d]
<1>1. /\ releaser[r].at = "drop" /\ DropReservation(d)
      /\ releaser' = [releaser EXCEPT ![r] = IdleCall]
      /\ UNCHANGED <<route, phase, scanned, recovered, job, outcome, shown, unresolved, disk, authority>>
  BY DEF DropClaim, jobVars, process
<1>2. releaser[r] \in Call /\ d \in Deployments /\ Works(r, d)
  BY <1>1, CallFacts
<1>3. CallInv(d) /\ JobInv(d) /\ (Responsible(d) <=> guardOf[d] # 0) /\ u \in ServiceEntry
  BY <1>2 DEF ServiceInv, ProcessTypeOK
<1>4. job[d] = "done" /\ ~ u.retained /\ \A s \in Releasers : Works(s, d) => s = r
  BY <1>1, <1>2, <1>3 DEF CallInv
<1>5. ~ u.releasing
  BY <1>1, <1>3, <1>4, Zenon DEF CallInv
<1>6. guardOf[d] # 0
  BY <1>1, <1>2, <1>3 DEF Responsible
<1>7. HoldsInv' /\ guardOf'[d] = 0 /\ \A e \in Deployments \ {d} : guardOf'[e] = guardOf[e]
  BY <1>1, <1>2, <1>6, DropHolds, Zenon DEF ServiceInv
<1>8. unresolved' = [unresolved EXCEPT ![d] = u]
  BY <1>1, Zenon DEF ServiceInv, ProcessTypeOK
<1>9. Ended(d)' <=> Ended(d)
  BY <1>1, Zenon DEF Ended
<1>10. u.authorityReleased => Ended(d)
  BY <1>3, Zenon DEF JobInv
<1>11. IdleCall \notin Call
  BY CallsAreActive
<1> HIDE DEF u
<1>12. u.retained => unresolved[d].retained
  BY <1>4
<1> QED
  BY <1>1, <1>2, <1>3, <1>4, <1>5, <1>7, <1>8, <1>9, <1>10, <1>11, <1>12, ReleaseStep, ZenonT(30)

-----------------------------------------------------------------------------
(* The startup scan, and the end of the process.                           *)

\* While the process is starting no task and no call exists.
LEMMA Starting ==
    ASSUME ServiceInv, phase # "up", NEW d \in Deployments
    PROVE  /\ job[d] \in {"new", "foreign", "lost"} /\ ~ unresolved[d].retained
           /\ \A r \in Releasers : ~ Works(r, d)
           /\ d \in recovered <=> guardOf[d] # 0
<1>1. job[d] \in {"new", "foreign", "lost"} /\ ~ unresolved[d].retained
  BY DEF ServiceInv, JobInv
<1>2. \A r \in Releasers : ~ Works(r, d)
  BY <1>1 DEF ServiceInv, CallInv
<1>3. d \in recovered <=> guardOf[d] # 0
  BY <1>1, <1>2 DEF ServiceInv, Responsible, Works
<1> QED
  BY <1>1, <1>2, <1>3

\* Steps of the scan that touch neither the registry nor a map.
LEMMA PhaseKeeps ==
    ASSUME ServiceInv, phase # "up", phase' \in {"read", "reserve", "abort", "up"},
           phase' = "read" => recovered = {},
           scanned' = scanned \/ (recovered = {} /\ scanned' = {d \in Deployments : disk[d] > 0}),
           UNCHANGED <<regVars, jobVars, guardOf, disk, authority, releaser, route, recovered>>
    PROVE  ServiceInv'
<1>1. UNCHANGED <<claims, guards, nextId, job, outcome, shown, unresolved, guardOf, disk, authority,
                  releaser, route, recovered>>
  BY DEF regVars, jobVars
<1>2. HoldsInv'
  BY <1>1 DEF ServiceInv, HoldsInv
<1>3. ProcessTypeOK'
  BY <1>1 DEF ServiceInv, ProcessTypeOK
<1>4. ASSUME NEW d \in Deployments
      PROVE  JobInv(d)' /\ CallInv(d)' /\ (Responsible(d) <=> guardOf[d] # 0)'
  <2>1. JobInv(d) /\ CallInv(d) /\ (Responsible(d) <=> guardOf[d] # 0)
    BY DEF ServiceInv
  <2>2. job[d] \in {"new", "foreign", "lost"}
    BY <2>1 DEF JobInv
  <2>3. Ended(d)' <=> Ended(d)
    BY <1>1 DEF Ended
  <2>4. job[d] = "new" => d \notin scanned'
    <3>1. job[d] = "new" => disk[d] = 0
      BY <2>1 DEF JobInv
    <3>2. ~ (0 > 0)
      BY ONLY TRUE
    <3> QED
      BY <2>1, <3>1, <3>2, Zenon DEF JobInv
  <2>5. JobInv(d)'
    BY <1>1, <2>1, <2>2, <2>3, <2>4 DEF JobInv
  <2>6. CallInv(d)'
    BY <1>1, <2>1, <2>3, CallsKeep, Zenon
  <2>7. Responsible(d)' <=> Responsible(d)
    BY <1>1, Zenon DEF Responsible
  <2> QED
    BY <1>1, <2>1, <2>5, <2>6, <2>7
<1> QED
  BY <1>2, <1>3, <1>4 DEF ServiceInv

\* The scan adds one recovered claim, or gives one back.
LEMMA RecoveredKeeps ==
    ASSUME ServiceInv, phase \in {"reserve", "abort"}, NEW d \in scanned, HoldsInv',
           \A e \in Deployments \ {d} : guardOf'[e] = guardOf[e],
           \/ recovered' = recovered \cup {d} /\ guardOf'[d] # 0
           \/ recovered' = recovered \ {d} /\ guardOf'[d] = 0,
           UNCHANGED <<jobVars, disk, authority, releaser, route, phase, scanned>>
    PROVE  ServiceInv'
<1>1. UNCHANGED <<job, outcome, shown, unresolved, disk, authority, releaser, route, phase, scanned>>
  BY DEF jobVars
<1>2. d \in Deployments /\ scanned \subseteq Deployments /\ recovered \subseteq scanned
  BY Zenon DEF ServiceInv, ProcessTypeOK
<1>3. ProcessTypeOK'
  BY <1>1, <1>2, Zenon DEF ServiceInv, ProcessTypeOK
<1>4. /\ job[d] \in {"new", "foreign", "lost"} /\ ~ unresolved[d].retained
      /\ \A r \in Releasers : ~ Works(r, d)
  BY <1>2, Starting, Zenon
<1>5. JobInv(d) /\ CallInv(d)
  BY <1>2, Zenon DEF ServiceInv
<1>6. job[d] \in {"foreign", "lost"}
  BY <1>4, <1>5 DEF JobInv
<1>7. Ended(d)' <=> Ended(d)
  BY <1>1 DEF Ended
<1>8. JobInv(d)'
  BY <1>1, <1>5, <1>6, <1>7, Zenon DEF JobInv
<1>9. CallInv(d)'
  BY <1>1, <1>2, <1>5, <1>7, CallsKeep, Zenon
<1>10. (Responsible(d) <=> guardOf[d] # 0)'
  BY <1>1, <1>4, <1>6, Zenon DEF Responsible, Works
<1>11. OnlyMoves(d)
  BY <1>1, Zenon DEF OnlyMoves
<1> QED
  BY <1>2, <1>3, <1>8, <1>9, <1>10, <1>11, StepKeeps, Zenon

LEMMA ScanKeeps == ASSUME ServiceInv, Scan \/ Boot PROVE ServiceInv'
<1>1. CASE Boot
  <2>1. recovered = {}
    BY <1>1 DEF Boot, ServiceInv, ProcessTypeOK
  <2> QED
    BY <1>1, <2>1, PhaseKeeps DEF Boot
<1>2. CASE ScanRead
  <2>3. recovered = {}
    BY <1>2 DEF ScanRead, ServiceInv, ProcessTypeOK
  <2>1. CASE phase' = "up" /\ UNCHANGED scanned
    BY <1>2, <2>1, PhaseKeeps DEF ScanRead
  <2>2. CASE phase' = "reserve" /\ scanned' = {d \in Deployments : disk[d] > 0}
    BY <1>2, <2>2, <2>3, PhaseKeeps DEF ScanRead
  <2> QED
    BY <1>2, <2>1, <2>2 DEF ScanRead
<1>3. CASE ScanEnds
  BY <1>3, PhaseKeeps DEF ScanEnds
<1>4. ASSUME NEW d \in Deployments, ScanConflict(d) PROVE ServiceInv'
  BY <1>4, PhaseKeeps DEF ScanConflict
<1>5. ASSUME NEW d \in Deployments, ScanReserve(d) PROVE ServiceInv'
  <2>1. HoldsInv' /\ guardOf'[d] # 0 /\ \A e \in Deployments \ {d} : guardOf'[e] = guardOf[e]
    BY <1>5, ReserveHolds, ZenonT(30) DEF ScanReserve, ServiceInv
  <2> QED
    BY <1>5, <2>1, RecoveredKeeps DEF ScanReserve
<1>6. ASSUME NEW d \in Deployments, ScanDropAddition(d) PROVE ServiceInv'
  <2>1. phase = "abort" /\ d \in recovered /\ d \in scanned
    BY <1>6 DEF ScanDropAddition, ServiceInv, ProcessTypeOK
  <2>2. guardOf[d] # 0
    BY <2>1, Starting
  <2>3. HoldsInv' /\ guardOf'[d] = 0 /\ \A e \in Deployments \ {d} : guardOf'[e] = guardOf[e]
    BY <1>6, <2>2, DropHolds DEF ScanDropAddition, ServiceInv
  <2> QED
    BY <1>6, <2>1, <2>3, RecoveredKeeps DEF ScanDropAddition
<1> QED
  BY <1>1, <1>2, <1>3, <1>4, <1>5, <1>6 DEF Scan

\* Everything the process held is gone with it; the manifests stay.
LEMMA CrashKeeps == ASSUME ServiceInv, Crash PROVE ServiceInv'
<1>1. /\ nextId' = 0 /\ guardOf' = [d \in Deployments |-> 0]
      /\ unresolved' = [d \in Deployments |-> Free] /\ recovered' = {} /\ scanned' = {}
      /\ releaser' = [r \in Releasers |-> IdleCall]
      /\ job' = [d \in Deployments |-> IF job[d] \in {"new", "foreign"} THEN job[d] ELSE "lost"]
      /\ outcome' = [d \in Deployments |-> "Held"] /\ shown' = [d \in Deployments |-> "Held"]
      /\ phase' = "down" /\ UNCHANGED <<route, disk>>
  BY DEF Crash
<1>2. HoldsInv'
  BY <1>1 DEF HoldsInv
<1>3. Free \in ServiceEntry /\ ~ Free.retained /\ ~ Free.releasing /\ ~ Free.authorityReleased
  BY DEF Free, ServiceEntry
<1>4. authority' \in [Deployments -> AuthorityStates]
  BY DEF Crash, ServiceInv, ProcessTypeOK, AuthorityStates, ClaimStatus
<1>5. \A d \in Deployments : authority[d] = "Idle" => authority'[d] = "Idle"
  BY DEF Crash, ServiceInv, ProcessTypeOK
<1>6. job' \in [Deployments -> JobStates]
  BY <1>1 DEF ServiceInv, ProcessTypeOK, JobStates
<1>7. ProcessTypeOK'
  BY <1>1, <1>3, <1>4, <1>6 DEF ServiceInv, ProcessTypeOK, ClaimStatus
<1>8. IdleCall.at = "idle"
  BY DEF IdleCall
<1>9. ASSUME NEW d \in Deployments
      PROVE  JobInv(d)' /\ CallInv(d)' /\ (Responsible(d) <=> guardOf[d] # 0)'
  <2>1. \A r \in Releasers : ~ Works(r, d)' /\ releaser'[r].at = "idle"
    BY <1>1, <1>8, Zenon DEF Works
  <2>2. unresolved'[d] = Free
    BY <1>1
  <2>3. CallInv(d)'
    BY <1>3, <2>1, <2>2 DEF CallInv
  <2>4. job'[d] \in {"new", "foreign", "lost"} /\ (job'[d] # "lost" => job'[d] = job[d])
    BY <1>1
  <2>5. JobInv(d)'
    BY <1>1, <1>3, <1>5, <2>2, <2>4, Zenon DEF ServiceInv, JobInv
  <2>6. (Responsible(d) <=> guardOf[d] # 0)'
    BY <1>1, <1>3, <2>1, <2>2, <2>4, Zenon DEF Responsible
  <2> QED
    BY <2>3, <2>5, <2>6
<1> QED
  BY <1>2, <1>7, <1>9 DEF ServiceInv

LEMMA ServiceStutters == ASSUME ServiceInv, UNCHANGED serviceVars PROVE ServiceInv'
<1>1. UNCHANGED <<claims, guards, nextId, route, phase, scanned, recovered, job, outcome, shown,
                  unresolved, guardOf, disk, authority, releaser>>
  BY DEF serviceVars, regVars, process, jobVars
<1>2. HoldsInv'
  BY <1>1 DEF ServiceInv, HoldsInv
<1>3. ProcessTypeOK'
  BY <1>1 DEF ServiceInv, ProcessTypeOK
<1>4. ASSUME NEW d \in Deployments
      PROVE  JobInv(d)' /\ CallInv(d)' /\ (Responsible(d) <=> guardOf[d] # 0)'
  <2>1. JobInv(d) /\ CallInv(d) /\ (Responsible(d) <=> guardOf[d] # 0)
    BY DEF ServiceInv
  <2>2. Ended(d)' <=> Ended(d)
    BY <1>1 DEF Ended
  <2>3. \A r \in Releasers : Works(r, d)' <=> Works(r, d)
    BY <1>1 DEF Works
  <2>4. JobInv(d)'
    BY <1>1, <2>1, <2>2, Zenon DEF JobInv
  <2>5. CallInv(d)'
    BY <1>1, <2>1, <2>2, <2>3, Zenon DEF CallInv
  <2>6. (Responsible(d) <=> guardOf[d] # 0)'
    BY <1>1, <2>1, Zenon DEF Responsible
  <2> QED
    BY <2>4, <2>5, <2>6
<1> QED
  BY <1>2, <1>3, <1>4 DEF ServiceInv

\* Every step of the service, of its executing side and of a release keeps the
\* inductive invariant, whatever the bounds on revisions, lives and ids are.
THEOREM ServiceInvariant == ServiceSpec => []ServiceInv
<1>1. ServiceInit => ServiceInv
  BY ServiceInitially
<1>2. ServiceInv /\ [ServiceNext]_serviceVars => ServiceInv'
  <2> SUFFICES ASSUME ServiceInv, [ServiceNext]_serviceVars PROVE ServiceInv'
    OBVIOUS
  <2>1. CASE Boot \/ Scan
    BY <2>1, ScanKeeps
  <2>2. CASE Crash
    BY <2>2, CrashKeeps
  <2>3. ASSUME NEW d \in Deployments, Start(d) \/ Executing(d) \/ Task(d) \/ ForeignDeploys(d)
        PROVE  ServiceInv'
    BY <2>3, StartingKeeps, ExecutingKeeps, TaskKeeps, ForeignKeeps
  <2>4. ASSUME NEW r \in Releasers, ReleaseCall(r) PROVE ServiceInv'
    BY <2>4, ReadRevisionKeeps, AuthorityReleasesKeeps, RemoveManifestKeeps, FinishReleaseKeeps,
       DropClaimKeeps DEF ReleaseCall
  <2>5. ASSUME NEW r \in Releasers, NEW d \in Deployments, BeginRelease(r, d) PROVE ServiceInv'
    BY <2>5, BeginReleaseKeeps
  <2>6. CASE UNCHANGED serviceVars
    BY <2>6, ServiceStutters
  <2> QED
    BY <2>1, <2>2, <2>3, <2>4, <2>5, <2>6 DEF ServiceNext
<1> QED
  BY <1>1, <1>2, PTL DEF ServiceSpec

LEMMA ClaimsFollow == ServiceInv => ClaimFollowsResponsibility
<1> SUFFICES ASSUME ServiceInv, NEW d \in Deployments
    PROVE  /\ Responsible(d) <=> guardOf[d] # 0
           /\ guardOf[d] # 0 =>
                 claims[TargetOf[d]] = {[access |-> "Exclusive", owner |-> guardOf[d]]}
           /\ \/ shown[d] = "ReleasedUnresolved"
              \/ \E r \in Releasers : releaser[r].at \in {"remove", "finish"} /\ releaser[r].id = d
              => Ended(d)
           /\ LET calls == {r \in Releasers : releaser[r].at \notin {"idle", "drop"}
                                              /\ releaser[r].id = d}
              IN  /\ unresolved[d].releasing <=> calls # {}
                  /\ Cardinality(calls) <= 1
  BY ZenonT(30) DEF ClaimFollowsResponsibility, Ended
<1>1. JobInv(d) /\ CallInv(d) /\ (Responsible(d) <=> guardOf[d] # 0)
  BY DEF ServiceInv
<1>2. guardOf[d] # 0 =>
         claims[TargetOf[d]] = {[access |-> "Exclusive", owner |-> guardOf[d]]}
  BY Zenon DEF ServiceInv, HoldsInv
<1>3. shown[d] = "ReleasedUnresolved"
        \/ (\E r \in Releasers : releaser[r].at \in {"remove", "finish"} /\ releaser[r].id = d)
        => Ended(d)
  BY <1>1, Zenon DEF JobInv, CallInv, Works
<1> DEFINE calls == {r \in Releasers : releaser[r].at \notin {"idle", "drop"} /\ releaser[r].id = d}
<1>4. unresolved[d].releasing <=> calls # {}
  BY <1>1 DEF CallInv, Works
<1>5. \A r, s \in calls : r = s
  BY <1>1 DEF CallInv, Works
<1>6. Cardinality(calls) <= 1
  <2> HIDE DEF calls
  <2>1. CASE calls = {}
    BY <2>1, FS_EmptySet
  <2>2. CASE calls # {}
    <3>1. PICK r : calls = {r}
      BY <1>5, <2>2
    <3>2. Cardinality({r}) = 1
      BY FS_Singleton, Zenon
    <3> QED
      BY <3>1, <3>2
  <2> QED
    BY <2>1, <2>2
<1> QED
  BY <1>1, <1>2, <1>3, <1>4, <1>6

\* The service holds the exclusive claim on a deployment's machine exactly
\* while it is responsible for it, releases nothing under an executing side
\* that has not ended, and never leaves release_in_progress set behind: with
\* any number of deployments, calls and restarts (service.rs start,
\* release_unresolved and unfinished_deployments).
THEOREM ClaimsFollowResponsibility == ServiceSpec => []ClaimFollowsResponsibility
  BY ServiceInvariant, ClaimsFollow, PTL
===============================================================================
