------------------------------ MODULE KeeperCall ------------------------------
(***************************************************************************)
(* What the front may rely on when its custody calls go to another         *)
(* process: a call's operation runs at most once in the keeper, and a call *)
(* that returns a result has run.  A call that returns an error may have   *)
(* run or not, and may still run after it has returned: that is what       *)
(* keeperrpc.go's fire-and-forget Revoke and its timeouts live with.       *)
(***************************************************************************)
EXTENDS Naturals

CONSTANT Ids

VARIABLES
  call,  \* what the caller of each call has seen: unused, open, ok or failed
  runs   \* how often the keeper ran the call's operation

vars == <<call, runs>>

Init ==
  /\ call = [i \in Ids |-> "unused"]
  /\ runs = [i \in Ids |-> 0]

Start(i) ==
  /\ call[i] = "unused"
  /\ call' = [call EXCEPT ![i] = "open"]
  /\ UNCHANGED runs

Run(i) ==
  /\ call[i] # "unused"
  /\ runs[i] = 0
  /\ runs' = [runs EXCEPT ![i] = 1]
  /\ UNCHANGED call

ReturnResult(i) ==
  /\ call[i] = "open"
  /\ runs[i] = 1
  /\ call' = [call EXCEPT ![i] = "ok"]
  /\ UNCHANGED runs

ReturnError(i) ==
  /\ call[i] = "open"
  /\ call' = [call EXCEPT ![i] = "failed"]
  /\ UNCHANGED runs

Next == \E i \in Ids : Start(i) \/ Run(i) \/ ReturnResult(i) \/ ReturnError(i)

Spec == Init /\ [][Next]_vars
=============================================================================
