------------------------------ MODULE MCPortPlan ------------------------------
(* Instances of PortPlan for TLC. *)
EXTENDS PortPlan, TLC

\* Nothing is set.
Default(networks) ==
    [labBackend |-> 0, labFrontend |-> 0, cbtBase |-> 0, cbtAPIBase |-> 0,
     cbtFrontendBase |-> 0, cbtHTTP |-> 0, xatuHTTP |-> 0, redis |-> 0,
     prometheus |-> 0, grafana |-> 0, networks |-> networks,
     offset |-> [mainnet |-> 0, sepolia |-> 1]]

\* Two networks, with no room for slot 1 below MaxPort; and one of them, which
\* meets slot 0 of the other configuration in its slot 1.
MCSays ==
    [both   |-> [Default(<<"mainnet", "sepolia">>) EXCEPT !.grafana = 65000],
     custom |-> [Default(<<"sepolia">>) EXCEPT !.redis = 5380]]

MCNetworks == {"mainnet", "sepolia"}
MCForeignPorts == {8080}

Symmetry == Permutations(Instances)
=============================================================================
