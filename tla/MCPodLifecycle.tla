---------------------------- MODULE MCPodLifecycle ----------------------------
(* Two command lines are alike; there is no liveness property.             *)
EXTENDS PodLifecycle, TLC

CliSymmetry == Permutations(Clis)
=============================================================================
