------------------------------- MODULE MCEgress -------------------------------
(***************************************************************************)
(* A policy that enforces read-only access through interception, and one   *)
(* in monitor mode that allows nothing.  And the log the records end in,   *)
(* which shares no state with the requests: a behaviour is one of either.  *)
(***************************************************************************)
EXTENDS Egress, AuditLog, TLC

VARIABLE part  \* the component whose behaviour this is

MCMethods == {"GET", "POST"}

MCPolicies ==
  { [monitor |-> FALSE, intercept |-> TRUE, allows |-> {"CONNECT", "GET"}],
    [monitor |-> TRUE, intercept |-> TRUE, allows |-> {}] }

MCInit ==
  /\ part \in {"egress", "audit"}
  /\ Init /\ AuditInit
  /\ part = "audit" => ~stale

MCNext ==
  \/ part = "egress" /\ Next /\ UNCHANGED <<auditVars, part>>
  \/ part = "audit" /\ AuditNext /\ UNCHANGED <<vars, part>>

MCSpec == MCInit /\ [][MCNext]_<<vars, auditVars, part>>

(* Two stores are alike; there is no liveness property.                    *)
StoreSymmetry == Permutations(Stores)

(* Every variable of the two components has its type.                      *)
MCTypeOK == TypeOK /\ AuditTypeOK
=============================================================================
