----------------------- MODULE MCOperationCoordinator -----------------------
(* Plans for OperationCoordinator.                                         *)
(*   InstallPlan: the topology part of a Store installation, as            *)
(*     append_install_topology_jobs builds it: install, finalize the       *)
(*     topology, abort it if either failed, remove the install afterwards. *)
(*   PairPlan: an action and its compensation (two racing callers).        *)
(*   ReplacementPlan: an upgrade that publishes a contribution, without    *)
(*     topology, as append_contribution_replacement_job_fragment builds it. *)
(*   UninstallPlan: a deployment action that withdraws a contribution and  *)
(*     then uninstalls, as the deployment endpoint and                     *)
(*     append_contribution_uninstall_job_fragment build it; the health     *)
(*     check before the abort is ON_FAILURE too.                           *)
(* In both, commit is no dependency of abort.                              *)
EXTENDS OperationCoordinator, TLC

InstallPlan == <<"install", "finalize", "abort", "remove">>
InstallDependsOn ==
    [install |-> <<>>, finalize |-> <<"install">>, abort |-> <<"install", "finalize">>,
     remove |-> <<"install", "abort">>]

PairPlan == <<"install", "abort">>
PairDependsOn == [install |-> <<>>, abort |-> <<"install">>]

ReplacementPlan == <<"runtime", "prepare", "commit", "ack_gate", "abort">>
ReplacementDependsOn ==
    [runtime |-> <<"prepare">>, prepare |-> <<>>, commit |-> <<"runtime", "prepare">>,
     ack_gate |-> <<"commit">>, abort |-> <<"runtime", "prepare", "ack_gate">>]

UninstallPlan == <<"uninstall", "health", "prepare", "commit", "ack_gate", "abort">>
UninstallDependsOn ==
    [uninstall |-> <<"ack_gate">>, health |-> <<"uninstall">>, prepare |-> <<>>,
     commit |-> <<"prepare">>, ack_gate |-> <<"commit">>,
     abort |-> <<"prepare", "ack_gate", "uninstall", "health">>]

Symmetry == Permutations(Threads)
=============================================================================
