-------------------------- MODULE PodRegistryProofs --------------------------
(***************************************************************************)
(* What the control API keeps of the registry: its two maps agree, what    *)
(* it has forgotten is revoked or on its way there, and it stays           *)
(* forgotten.  RegInv is inductive as it stands.                           *)
(***************************************************************************)
EXTENDS PodRegistry, TLAPS

RegInv == RegShape /\ RegistryAgrees /\ ForgottenIsRevoked

RegStep == RegNext \/ RegRestart

(* The registry comes up in order.                                         *)
LEMMA RegInitInv == RegInit => RegInv
  BY RegistryAssumption DEF RegInit, RegInv, RegShape, RegistryAgrees, ForgottenIsRevoked,
       Tokens

(* A token that is entered has a pod of its own, and had none before.      *)
LEMMA PostHandlesInv ==
  ASSUME RegInv, NEW p \in Pods, NEW h \in Handles, PostHandles(p, h)
  PROVE  RegInv'
<1> USE RegistryAssumption DEF RegInv, Tokens, registryVars, handleVars, historyVars
<1>1. CASE IssueHandle(p, h)
  <2>1. RegShape'
    BY <1>1 DEF IssueHandle, RegShape
  <2>2. RegistryAgrees'
    BY <1>1 DEF IssueHandle, RegShape, RegistryAgrees
  <2>3. ForgottenIsRevoked'
    BY <1>1 DEF IssueHandle, RegShape, RegistryAgrees, ForgottenIsRevoked
  <2> QED BY <2>1, <2>2, <2>3
<1>2. CASE IssueHandleFails(h)
  BY <1>2 DEF IssueHandleFails, RegShape, RegistryAgrees, ForgottenIsRevoked
<1>3. CASE RegisterHandle(h)
  <2>1. RegShape'
    BY <1>3 DEF RegisterHandle, Enter, RegShape, RegistryAgrees
  <2>2. RegistryAgrees'
    BY <1>3 DEF RegisterHandle, Enter, RegShape, RegistryAgrees
  <2>3. ForgottenIsRevoked'
    BY <1>3 DEF RegisterHandle, Enter, RegShape, RegistryAgrees, ForgottenIsRevoked
  <2> QED BY <2>1, <2>2, <2>3
<1> QED BY <1>1, <1>2, <1>3 DEF PostHandles

LEMMA IssueEgressInv ==
  ASSUME RegInv, NEW p \in Pods, NEW t \in EgressTokens, IssueEgress(p, t)
  PROVE  RegInv'
<1> USE RegistryAssumption DEF RegInv, Tokens, registryVars, handleVars, historyVars
<1>1. RegShape'
  BY DEF IssueEgress, Enter, RegShape
<1>2. RegistryAgrees'
  BY DEF IssueEgress, Enter, RegShape, RegistryAgrees
<1>3. ForgottenIsRevoked'
  BY DEF IssueEgress, Enter, RegShape, RegistryAgrees, ForgottenIsRevoked
<1> QED BY <1>1, <1>2, <1>3

(* DELETE hands every token it forgets to the revocation that follows.     *)
LEMMA DeleteInv ==
  ASSUME RegInv, NEW p \in Pods, Delete(p)
  PROVE  RegInv'
<1> USE RegistryAssumption DEF RegInv, Tokens, registryVars, handleVars, historyVars
<1>1. RegShape'
  BY DEF Delete, RegShape
<1>2. RegistryAgrees'
  BY DEF Delete, RegShape, RegistryAgrees
<1>3. ForgottenIsRevoked'
  BY DEF Delete, RegShape, RegistryAgrees, ForgottenIsRevoked
<1> QED BY <1>1, <1>2, <1>3

LEMMA RevocationInv ==
  ASSUME RegInv, NEW t \in Tokens, RevokeNext(t) \/ RevokeLost(t)
  PROVE  RegInv'
<1> USE RegistryAssumption DEF RegInv, Tokens, registryVars, handleVars, historyVars
<1>1. CASE RevokeNext(t)
  BY <1>1 DEF RevokeNext, RegShape, RegistryAgrees, ForgottenIsRevoked
<1>2. CASE RevokeLost(t)
  BY <1>2 DEF RevokeLost, RegShape, RegistryAgrees, ForgottenIsRevoked
<1> QED BY <1>1, <1>2

LEMMA RegStepInv ==
  ASSUME RegInv, [RegStep]_regVars
  PROVE  RegInv'
<1> USE RegistryAssumption DEF RegInv, Tokens, registryVars, handleVars, historyVars
<1>1. ASSUME NEW p \in Pods, NEW policy \in Policies, BindPolicy(p, policy)
      PROVE  RegInv'
  BY <1>1 DEF BindPolicy, RegShape, RegistryAgrees, ForgottenIsRevoked
<1>2. ASSUME NEW h \in Handles, HandleExpires(h)
      PROVE  RegInv'
  BY <1>2 DEF HandleExpires, RegShape, RegistryAgrees, ForgottenIsRevoked
<1>3. CASE Ack \/ AckAges
  BY <1>3 DEF Ack, AckAges, RegShape, RegistryAgrees, ForgottenIsRevoked
<1>4. CASE RegRestart
  BY <1>4 DEF RegRestart, RegShape, RegistryAgrees, ForgottenIsRevoked
<1>5. CASE UNCHANGED regVars
  BY <1>5 DEF regVars, RegShape, RegistryAgrees, ForgottenIsRevoked
<1> QED
  BY <1>1, <1>2, <1>3, <1>4, <1>5, PostHandlesInv, IssueEgressInv, DeleteInv, RevocationInv
     DEF RegStep, RegNext

(* No step gives a forgotten token a pod: a token is entered right after   *)
(* it was issued, and only then.                                           *)
LEMMA RegStepForgets ==
  ASSUME RegInv, [RegStep]_regVars, NEW t \in given, handlePod[t] = Nil
  PROVE  handlePod'[t] = Nil
<1> USE RegistryAssumption DEF RegInv, Tokens, registryVars, handleVars, historyVars,
        RegShape, RegistryAgrees
<1>1. t \in Tokens
  OBVIOUS
<1>2. ASSUME NEW p \in Pods, NEW h \in Handles, PostHandles(p, h)
      PROVE  handlePod'[t] = Nil
  BY <1>1, <1>2 DEF PostHandles, IssueHandle, IssueHandleFails, RegisterHandle, Enter
<1>3. ASSUME NEW p \in Pods, NEW u \in EgressTokens, IssueEgress(p, u)
      PROVE  handlePod'[t] = Nil
  BY <1>1, <1>3 DEF IssueEgress, Enter
<1>4. ASSUME NEW p \in Pods, Delete(p)
      PROVE  handlePod'[t] = Nil
  BY <1>1, <1>4 DEF Delete
<1>5. CASE RegRestart
  BY <1>1, <1>5 DEF RegRestart
<1> QED
  BY <1>1, <1>2, <1>3, <1>4, <1>5
     DEF RegStep, RegNext, BindPolicy, RevokeNext, RevokeLost, HandleExpires, Ack, AckAges,
         regVars
=============================================================================
