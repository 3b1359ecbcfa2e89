---------------------------- MODULE MCElevatedRpc ----------------------------
(* The start of the daemon, by either launcher; and, on a channel that is      *)
(* established, two calls that claim one resource, and the exit.               *)
EXTENDS ElevatedRpc, DaemonLaunch
CONSTANTS c1, c2, machine
VARIABLE part    \* which of the two moves

MCClaimOf == [c \in Calls |-> IF c = Exit THEN Nothing ELSE machine]

MCInit ==
    /\ RpcInit /\ LaunchInit
    /\ part \in {"launch", "channel"}
    /\ part = "channel" => method = "Sudo"
MCNext ==
    \/ part = "launch" /\ LaunchNext /\ UNCHANGED <<part, rpcVars>>
    \/ part = "channel" /\ RpcNext /\ UNCHANGED <<part, launchVars>>
MCSpec ==
    /\ MCInit /\ [][MCNext]_<<part, rpcVars, launchVars>>
    /\ RpcFairness /\ LaunchFairness
==============================================================================
