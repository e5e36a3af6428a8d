---------------------------- MODULE MCPodRegistry ----------------------------
(* An enforced read-only policy, one that intercepts, and one in monitor   *)
(* mode that allows nothing.                                               *)
EXTENDS PodRegistry

MCMethods == {"GET", "POST"}

ReadOnly == {"CONNECT", "GET"}

MCPolicies ==
  { [monitor |-> FALSE, intercept |-> TRUE, allows |-> ReadOnly],
    [monitor |-> TRUE, intercept |-> TRUE, allows |-> {}] }
=============================================================================
