--------------------------- MODULE MCProvisioning ---------------------------
(* The durable state of deployments, for TLC.  One of three moves:           *)
(*   discipline  the abstract crash-manifest discipline                      *)
(*   engine      one deployment's executor, which implements it              *)
(*   service     the client's service over several deployments               *)
(* The plans cover every source kind, every stage, the raw image mounted for *)
(* configuration, and a root file system that cannot be configured offline.  *)
(* create creates m1; clone1 and clone2 copy m1 into m2 and m3, side by      *)
(* side; again creates m2 a second time.  A configuration picks the          *)
(* deployments that occur and whether again belongs to another process.      *)
EXTENDS WriteAhead, DeploymentEngine, ProvisioningService, TLC
CONSTANTS create, again, clone1, clone2, m1, m2, m3, r1, r2, MovingParts,
          MaxRevision   \* bound on the manifest writes of the discipline
VARIABLE part

Bare == [kind |-> "rootfs", rawFallback |-> FALSE, osLayout |-> FALSE,
         offline |-> FALSE, accounts |-> FALSE, nvidia |-> FALSE,
         override |-> FALSE, network |-> FALSE]

MCPlans ==
    {Bare,
     [Bare EXCEPT !.osLayout = TRUE, !.offline = TRUE, !.accounts = TRUE,
                  !.network = TRUE],
     [Bare EXCEPT !.nvidia = TRUE, !.osLayout = TRUE, !.offline = TRUE],
     [Bare EXCEPT !.override = TRUE, !.nvidia = TRUE],
     [Bare EXCEPT !.kind = "raw", !.rawFallback = TRUE, !.osLayout = TRUE,
                  !.override = TRUE],
     [Bare EXCEPT !.kind = "raw"],
     [Bare EXCEPT !.kind = "clone"],
     [Bare EXCEPT !.kind = "clone", !.override = TRUE],
     [Bare EXCEPT !.kind = "oci"]}

MCTargetOf ==
    [d \in Deployments |->
        CASE d = create -> m1 [] d = clone2 -> m3 [] OTHER -> m2]
MCSourceOf ==
    [d \in Deployments |-> IF d \in {clone1, clone2} THEN m1 ELSE NoSource]

MCInit ==
    /\ part \in MovingParts
    /\ Init /\ EngineInit /\ ServiceInit
    /\ part # "engine" => plan = Bare /\ \A r \in DeployedResources : host[r] = "absent"
    /\ part # "service" => route = "direct"

MCNext ==
    /\ UNCHANGED part
    /\ \/ /\ part = "discipline" /\ Next
          /\ durable' # Absent => durable'.rev <= MaxRevision
          /\ UNCHANGED <<engineVars, serviceVars>>
       \/ part = "engine" /\ EngineNext /\ UNCHANGED <<vars, serviceVars>>
       \/ part = "service" /\ ServiceNext /\ UNCHANGED <<vars, engineVars>>

\* The two callers that may release a claim are interchangeable.
MCSymmetry == Permutations({r1, r2})

MCSpec == MCInit /\ [][MCNext]_<<vars, engineVars, serviceVars, part>>
=============================================================================
