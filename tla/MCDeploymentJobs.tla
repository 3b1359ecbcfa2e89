--------------------------- MODULE MCDeploymentJobs ---------------------------
(* Three deployments share a history of two records, so the third one needs   *)
(* an eviction; d1 and d2 want the same machine.  And, each by itself, what a *)
(* deployment is made of: an archive that is imported, a disk image that is   *)
(* partitioned and mounted, the NVIDIA passthrough of a machine, and two      *)
(* callers of the backends that reach the host.                               *)
EXTENDS DeploymentJobs, ImageImport, ImageStorage, NvidiaSync, HostBackends, TLC

CONSTANTS d1, d2, d3, m1, m2
VARIABLE part    \* which of the five moves

MCTargetOf == [d \in Deployments |-> IF d = d3 THEN m2 ELSE m1]

\* Headers on both sides of a limit of 4: plain and sparse, and one that says
\* more than it holds; hints for the stored and for the logical size.
MCFileRecords ==
    {[Header("f") EXCEPT !.size = 1], [Header("f") EXCEPT !.size = 3],
     [Header("s") EXCEPT !.size = 1, !.real = 3], [Header("s") EXCEPT !.more = 4]}
MCHintRecords ==
    {[stream |-> 3, logical |-> Absent], [stream |-> Absent, logical |-> 1],
     [stream |-> 1, logical |-> 3]}

\* The second version drops one destination of the first and binds the other
\* to a different device; one of the administrator's binds is in its way.
MCScan(v) == IF v = 1 THEN {<<"dev", "a", TRUE>>, <<"lib", "x", FALSE>>}
             ELSE {<<"dev", "b", TRUE>>}
MCAdminBinds == {<<"lib", "a", TRUE>>, <<"dev", "b", TRUE>>}

MCInit ==
    /\ Init /\ ImportInit /\ ImageInit /\ NvidiaInit /\ HostInit
    /\ part \in {"jobs", "import", "image", "nvidia", "backends"}
    /\ part # "import" => import.source = "local" /\ import.format = "raw"
    /\ part # "nvidia" => /\ host = 1 /\ state = Owned(MCScan(1))
                          /\ files = [d \in Destinations |-> "absent"]
    /\ part # "backends" => registered = {}
    /\ part # "image" => image = "absent" /\ table = NoTable

\* bound: connections opened and changes of the host, taken together
MaxHostEvents == 2
\* bound: one reconciliation under way and one cancelled job at a time
FewCalls == /\ Cardinality({d \in Deployments : reconciling'[d] # "no"}) <= 1
            /\ Cardinality({d \in Deployments : jobs'[d].cancelled}) <= 1
MCNext ==
    \/ part = "jobs" /\ Next /\ FewCalls /\ UNCHANGED <<part, importVars, imageVars, nvidiaVars, hostVars>>
    \/ part = "import" /\ ImportNext /\ UNCHANGED <<part, vars, imageVars, nvidiaVars, hostVars>>
    \/ part = "image" /\ ImageNext /\ UNCHANGED <<part, vars, importVars, nvidiaVars, hostVars>>
    \/ part = "nvidia" /\ NvidiaNext /\ UNCHANGED <<part, vars, importVars, imageVars, hostVars>>
    \/ part = "backends" /\ HostNext /\ generations' + changes' <= MaxHostEvents
          /\ UNCHANGED <<part, vars, importVars, imageVars, nvidiaVars>>
MCSpec == MCInit /\ [][MCNext]_<<part, vars, importVars, imageVars, nvidiaVars, hostVars>>

\* d1 and d2 are interchangeable; every checked property treats them alike.
MCSymmetry == Permutations({d1, d2})
===============================================================================
