------------------------------ MODULE MCLiveness ------------------------------
(***************************************************************************)
(* The three components that something must happen in: the keeper's        *)
(* refreshes, the autoscaler and the OAuth flow of a connect command.      *)
(* They share no state, so a behaviour is one of any of them and their     *)
(* states add up.                                                          *)
(***************************************************************************)
EXTENDS MCKeeperOAuth, Autoscaler, OAuthFlow

VARIABLE part  \* the component whose behaviour this is

AllInit ==
  /\ part \in {"keeper", "autoscaler", "flow"}
  /\ Init /\ AutoInit /\ FlowInit

AllNext ==
  \/ part = "keeper" /\ Next /\ UNCHANGED <<autoVars, flowVars, part>>
  \/ part = "autoscaler" /\ AutoNext /\ UNCHANGED <<vars, flowVars, part>>
  \/ part = "flow" /\ FlowNext /\ UNCHANGED <<vars, autoVars, part>>

(* The fair actions of a component are never enabled where it is not the   *)
(* part that runs.                                                         *)
AllFairSpec ==
  /\ AllInit /\ [][AllNext]_<<vars, autoVars, flowVars, part>>
  /\ KeeperFairness /\ AutoFairness /\ FlowFairness
=============================================================================
