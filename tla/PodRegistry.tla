----------------------------- MODULE PodRegistry -----------------------------
(***************************************************************************)
(* poddled's registry: which pod a token belongs to, which policy governs  *)
(* a pod, and the handles the broker's keeper resolves, as the control API *)
(* changes them.  POST /pods/{pod}/handles works in two critical sections, *)
(* the keeper's and then the registry's; DELETE /pods/{pod} in one of the  *)
(* registry's and then one of the keeper's for every handle.  Everything   *)
(* is in memory and gone after a restart.                                  *)
(*                                                                         *)
(* Tokens are what pods present: handles (issued by the keeper) and egress *)
(* tokens (the registry's own).  Both are random and never issued twice.   *)
(*                                                                         *)
(* A policy says what it allows of one destination: its destination rules  *)
(* decide whether that is anything, its method rules what.                 *)
(***************************************************************************)
EXTENDS Naturals, FiniteSets

CONSTANTS
  Pods,          \* pod names
  Handles,       \* the handles the keeper may come to issue
  EgressTokens,  \* the tokens POST /pods/{pod}/egress may come to issue
  Methods,       \* HTTP methods
  Policies,      \* the policies that may be bound
  Nil            \* no pod, no policy, no record

Tokens == Handles \union EgressTokens
AllMethods == Methods \union {"CONNECT"}
Policy == [monitor : BOOLEAN, intercept : BOOLEAN, allows : SUBSET AllMethods]

(* Method rules never refuse a CONNECT: a policy that allows any method of *)
(* the destination allows the tunnel to it.                                *)
ASSUME RegistryAssumption ==
  /\ Policies \subseteq Policy
  /\ \A p \in Policies : p.allows # {} => "CONNECT" \in p.allows
  /\ "CONNECT" \notin Methods
  /\ Nil \notin Pods /\ Nil \notin Policies

VARIABLES
  pods,       \* the tokens registered for each pod
  handlePod,  \* the pod of each registered token
  podPolicy,  \* the policy bound to each pod
  stale,      \* fresh audit is required and the last ack is too old
  live,       \* the handles the keeper resolves
  owner,      \* the pod each issued token was issued for
  posting,    \* handles the keeper issued and the registry has yet to enter
  revoking,   \* tokens a DELETE took out of the registry and has yet to revoke
  given,      \* history: the tokens handed out
  doomed,     \* history: the tokens issued for a pod before a DELETE of it
  lost        \* history: the handles whose Revoke did not reach the keeper

registryVars == <<pods, handlePod, podPolicy, stale>>
handleVars == <<live, owner, posting, revoking>>
historyVars == <<given, doomed, lost>>
regVars == <<registryVars, handleVars, historyVars>>

RegInit ==
  /\ pods = [p \in Pods |-> {}]
  /\ handlePod = [t \in Tokens |-> Nil]
  /\ podPolicy = [p \in Pods |-> Nil]
  /\ stale \in BOOLEAN
  /\ live = {} /\ posting = {} /\ revoking = {}
  /\ owner = [t \in Tokens |-> Nil]
  /\ given = {} /\ doomed = {} /\ lost = {}

-----------------------------------------------------------------------------
(* What the registry answers.                                              *)

Decide(policy, method) == policy = Nil \/ method \in policy.allows

PolicyOf(t) == IF handlePod[t] = Nil THEN Nil ELSE podPolicy[handlePod[t]]

(* Mutant: an unrecognized token falls through to the nil policy.          *)
AllowsUnknown(t, method) == ~stale /\ Decide(PolicyOf(t), method)

Allows(t, method) ==
  /\ handlePod[t] # Nil
  /\ ~stale
  /\ Decide(PolicyOf(t), method)

Monitored(t) == PolicyOf(t) # Nil /\ PolicyOf(t).monitor

Intercepts(t) == PolicyOf(t) # Nil /\ PolicyOf(t).intercept

-----------------------------------------------------------------------------
(* The control API.                                                        *)

(* POST /pods/{p}/handles: the keeper stores the credential and issues h.  *)
IssueHandle(p, h) ==
  /\ owner[h] = Nil
  /\ owner' = [owner EXCEPT ![h] = p]
  /\ live' = live \union {h}
  /\ posting' = posting \union {h}
  /\ UNCHANGED <<registryVars, revoking, historyVars>>

(* The call returned an error although the keeper has run it: the handler  *)
(* ends there, and nobody ever learns of h.                                *)
IssueHandleFails(h) ==
  /\ h \in posting
  /\ posting' = posting \ {h}
  /\ UNCHANGED <<registryVars, live, owner, revoking, historyVars>>

Enter(p, t) ==
  /\ pods' = [pods EXCEPT ![p] = @ \union {t}]
  /\ handlePod' = [handlePod EXCEPT ![t] = p]
  /\ given' = given \union {t}

(* The second half, with the registry's mutex.                             *)
RegisterHandle(h) ==
  /\ h \in posting
  /\ Enter(owner[h], h)
  /\ posting' = posting \ {h}
  /\ UNCHANGED <<podPolicy, stale, live, owner, revoking, doomed, lost>>

(* POST /pods/{p}/egress.                                                  *)
IssueEgress(p, t) ==
  /\ owner[t] = Nil
  /\ owner' = [owner EXCEPT ![t] = p]
  /\ Enter(p, t)
  /\ UNCHANGED <<podPolicy, stale, live, posting, revoking, doomed, lost>>

(* POST /pods/{p}/policy.                                                  *)
BindPolicy(p, policy) ==
  /\ podPolicy' = [podPolicy EXCEPT ![p] = policy]
  /\ UNCHANGED <<pods, handlePod, stale, handleVars, historyVars>>

(* Mutant: the handles are not revoked.                                   *)
DeleteUnrevoked(p) ==
  /\ pods' = [pods EXCEPT ![p] = {}]
  /\ podPolicy' = [podPolicy EXCEPT ![p] = Nil]
  /\ handlePod' = [t \in Tokens |-> IF t \in pods[p] THEN Nil ELSE handlePod[t]]
  /\ doomed' = doomed \union {t \in Tokens : owner[t] = p}
  /\ UNCHANGED <<stale, handleVars, given, lost>>

(* DELETE /pods/{p}: the registry forgets the pod in one critical section, *)
(* and the keeper is asked to revoke its tokens one by one.                *)
Delete(p) ==
  /\ pods' = [pods EXCEPT ![p] = {}]
  /\ podPolicy' = [podPolicy EXCEPT ![p] = Nil]
  /\ handlePod' = [t \in Tokens |-> IF t \in pods[p] THEN Nil ELSE handlePod[t]]
  /\ revoking' = revoking \union pods[p]
  /\ doomed' = doomed \union {t \in Tokens : owner[t] = p}
  /\ UNCHANGED <<stale, live, owner, posting, given, lost>>

RevokeNext(t) ==
  /\ t \in revoking
  /\ revoking' = revoking \ {t}
  /\ live' = live \ {t}
  /\ UNCHANGED <<registryVars, owner, posting, historyVars>>

(* Revoke is fire-and-forget: a call that fails goes unnoticed.            *)
RevokeLost(t) ==
  /\ t \in revoking
  /\ revoking' = revoking \ {t}
  /\ lost' = lost \union {t}
  /\ UNCHANGED <<registryVars, live, owner, posting, given, doomed>>

-----------------------------------------------------------------------------
(* Time, acks and restarts.                                                *)

HandleExpires(h) ==
  /\ h \in live
  /\ live' = live \ {h}
  /\ UNCHANGED <<registryVars, owner, posting, revoking, historyVars>>

Ack ==
  /\ stale
  /\ stale' = FALSE
  /\ UNCHANGED <<pods, handlePod, podPolicy, handleVars, historyVars>>

AckAges ==
  /\ ~stale
  /\ stale' = TRUE
  /\ UNCHANGED <<pods, handlePod, podPolicy, handleVars, historyVars>>

(* The daemon comes up with an empty registry and an empty vault.          *)
RegRestart ==
  /\ pods' = [p \in Pods |-> {}]
  /\ handlePod' = [t \in Tokens |-> Nil]
  /\ podPolicy' = [p \in Pods |-> Nil]
  /\ stale' \in BOOLEAN
  /\ live' = {} /\ posting' = {} /\ revoking' = {} /\ doomed' = {} /\ lost' = {}
  /\ UNCHANGED <<owner, given>>

PostHandles(p, h) ==
  IssueHandle(p, h) \/ IssueHandleFails(h) \/ RegisterHandle(h)

RegNext ==
  \/ \E p \in Pods, h \in Handles : PostHandles(p, h)
  \/ \E p \in Pods, t \in EgressTokens : IssueEgress(p, t)
  \/ \E p \in Pods, policy \in Policies : BindPolicy(p, policy)
  \/ \E p \in Pods : Delete(p)
  \/ \E t \in Tokens : RevokeNext(t) \/ RevokeLost(t)
  \/ \E h \in Handles : HandleExpires(h)
  \/ Ack \/ AckAges

RegSpec == RegInit /\ [][RegNext \/ RegRestart]_regVars

-----------------------------------------------------------------------------
RegShape ==
  /\ pods \in [Pods -> SUBSET Tokens]
  /\ handlePod \in [Tokens -> Pods \union {Nil}]
  /\ podPolicy \in [Pods -> Policies \union {Nil}]
  /\ stale \in BOOLEAN
  /\ live \subseteq Handles /\ posting \subseteq Handles
  /\ owner \in [Tokens -> Pods \union {Nil}]
  /\ revoking \subseteq Tokens
  /\ given \subseteq Tokens /\ doomed \subseteq Tokens /\ lost \subseteq Tokens

(* The registry's two maps say the same, a token belongs to the pod it was *)
(* issued for, and a handle is entered after it was issued.                *)
RegistryAgrees ==
  /\ \A p \in Pods, t \in Tokens : t \in pods[p] <=> handlePod[t] = p
  /\ \A t \in Tokens : handlePod[t] \in {Nil, owner[t]}
  /\ \A t \in Tokens : owner[t] = Nil => t \notin live \union posting \union given
  /\ posting \intersect given = {}
  /\ \A t \in Tokens : handlePod[t] # Nil => t \in given

(* A token the registry has let go of never gets a pod again, whatever     *)
(* requests for new handles were under way: what `down` took stays taken.  *)
ForgottenForGood ==
  [][\A t \in given : handlePod[t] = Nil => handlePod'[t] = Nil]_regVars

(* A handle that was handed out and has no pod is dead to the keeper, or a *)
(* DELETE is about to revoke it, or its revoke was lost: nothing else      *)
(* leaves a handle that resolves but is in no pod's list.                  *)
ForgottenIsRevoked ==
  \A h \in Handles :
    h \in given /\ h \in live /\ handlePod[h] = Nil => h \in revoking \union lost

(* daemon.go's promise for DELETE: with no request under way, no handle    *)
(* issued for a pod before its DELETE and handed out still resolves, but   *)
(* for lost calls.                                                         *)
DownRevokesAll ==
  posting = {} /\ revoking = {} => doomed \intersect given \intersect live \subseteq lost
=============================================================================
