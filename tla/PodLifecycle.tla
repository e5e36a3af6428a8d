---------------------------- MODULE PodLifecycle ----------------------------
(***************************************************************************)
(* up, task, move and down: each a sequence of calls of the broker's       *)
(* control API and of the container engine, any of which may fail or be    *)
(* interrupted, run by several command lines at once (the autoscaler's     *)
(* move is one of them) beside a broker that crashes and is restarted.     *)
(*                                                                         *)
(* A call of the control API is atomic here; PodRegistry has what happens  *)
(* inside one.  Credentials, addresses and environment are the tokens they *)
(* carry.                                                                  *)
(***************************************************************************)
EXTENDS Naturals, FiniteSets

CONSTANTS
  Pods,      \* pod names
  Clis,      \* command lines
  Named,     \* the policies a user can name
  Derived,   \* the default-deny policy up derives from what a pod needs
  Ambient,   \* what a template or the configured default names, or Nil
  Connectors,\* the kinds of connector templates have: none, http, l4
  MaxTokens, \* bound: handles and egress tokens issued
  Nil

ASSUME LifecycleAssumption ==
  /\ Derived \notin Named /\ Nil \notin Named \union {Derived} \union Pods
  /\ Ambient \in Named \union {Nil}
  /\ Connectors \subseteq {"none", "http", "l4"}
  /\ MaxTokens \in Nat

VARIABLES
  box,     \* pod -> its container's labels, network and tokens, or Nil; and,
           \* as history, whether an uncrossed command made it under a policy
  vols,    \* the pods with session volumes labelled as theirs
  nets,    \* the pods with a lock network
  linked,  \* the pods on whose lock network the broker is
  broker,  \* the broker's container: absent, stopped, up
  owned,   \* its registry: pod -> live tokens
  bound,   \* pod -> policy, or Nil
  issued,  \* how many tokens there have been
  cli,     \* what each command line is at, and whether its work was crossed:
           \* something else worked on its pod, or the broker fell
  made,    \* history: the pods made so, and no command at them since
  downed   \* history: the pods taken down by name by one that reached the broker

engineVars == <<box, vols, nets, linked>>
brokerVars == <<broker, owned, bound, issued>>
history == <<made, downed>>
vars == <<engineVars, brokerVars, cli, history>>

Policies == Named \union {Derived, Nil}
Tokens == 1..MaxTokens
Commands == {"up", "task", "move", "down", "down by id"}

Idle == [cmd |-> "none", pod |-> Nil, at |-> "idle", ident |-> FALSE, conn |-> "none",
         named |-> Nil, env |-> {}, label |-> Nil, net |-> FALSE,
         reached |-> FALSE, crossed |-> FALSE]

Init ==
  /\ box = [p \in Pods |-> Nil]
  /\ vols = {} /\ nets = {} /\ linked = {}
  /\ broker = "absent"
  /\ owned = [p \in Pods |-> {}]
  /\ bound = [p \in Pods |-> Nil]
  /\ issued = 0
  /\ cli = [c \in Clis |-> Idle]
  /\ made = {} /\ downed = {}

-----------------------------------------------------------------------------
(* How a command line moves on.                                            *)

At(c, where) == cli[c].at = where

Pod(c) == cli[c].pod

GoTo(c, where) == cli' = [cli EXCEPT ![c].at = where]

(* What it goes on with once the pod is specified.                         *)
Forget(w) == [w EXCEPT !.conn = "none", !.named = Nil]

(* What a task that has made its pod goes on with, to take it down again.  *)
Torn(w) == [Idle EXCEPT !.cmd = w.cmd, !.pod = w.pod, !.crossed = w.crossed, !.at = "revoke"]

(* It returns, with an error or without, or is interrupted.                *)
Return(c) == cli' = [cli EXCEPT ![c] = Idle]

Fail(c) == Return(c) /\ UNCHANGED <<engineVars, brokerVars, history>>

(* The broker is needed for a login, a connector or a named policy.        *)
Brokered(w) == w.ident \/ w.conn # "none" \/ w.named # Nil

(* After the pod is resolved: the broker, or straight to the engine.       *)
Resolved(w) ==
  IF Brokered(w) THEN "ensure" ELSE IF w.cmd = "move" THEN "remove" ELSE "create"

(* A command begins; its work crosses that of any other on the same pod.   *)
Begin(c, w) ==
  LET others == {d \in Clis : Pod(d) = w.pod} IN
  /\ At(c, "idle")
  /\ cli' = [d \in Clis |->
               IF d = c THEN [w EXCEPT !.crossed = (others # {})]
               ELSE [cli[d] EXCEPT !.crossed = @ \/ d \in others]]
  /\ made' = made \ {w.pod}
  /\ downed' = downed \ {w.pod}
  /\ UNCHANGED <<engineVars, brokerVars>>

(* A named policy is the flag's, the template's or the configured default; *)
(* an empty flag declines it.                                              *)
Up(c, p) ==
  \E ident \in BOOLEAN, conn \in Connectors, named \in Named \union {Ambient, Nil} :
    LET w == [Idle EXCEPT !.cmd = "up", !.pod = p, !.ident = ident, !.conn = conn,
                          !.named = named]
    IN Begin(c, [w EXCEPT !.at = Resolved(w)])

(* A task needs a login.  One whose pod is kept makes it the way up does.  *)
Task(c, p) ==
  \E conn \in Connectors, named \in Named \union {Ambient, Nil}, cmd \in {"task", "up"} :
    Begin(c, [Idle EXCEPT !.cmd = cmd, !.pod = p, !.ident = TRUE, !.conn = conn,
                          !.named = named, !.at = "ensure"])

Move(c, p) == Begin(c, [Idle EXCEPT !.cmd = "move", !.pod = p, !.at = "info"])

Down(c, p) == Begin(c, [Idle EXCEPT !.cmd = "down", !.pod = p, !.at = "revoke"])

(* A pod that is there can be named by its container's id as well.  Only   *)
(* the engine, and for the container only, knows it by that: the broker    *)
(* has no such pod, no volume such a label and no network such a name, so  *)
(* none of the other calls has an effect.                                  *)
DownById(c, p) ==
  /\ box[p] # Nil
  /\ Begin(c, [Idle EXCEPT !.cmd = "down by id", !.pod = p, !.at = "remove"])

-----------------------------------------------------------------------------
(* move reads the pod's labels back: its login among them, its policy not. *)
(* A pod it cannot inspect counts as one without labels.                   *)

Labels(p) == IF box[p] = Nil THEN {FALSE} ELSE {box[p].ident, FALSE}

PodInfo(c) ==
  /\ At(c, "info")
  /\ \E ident \in Labels(Pod(c)), conn \in Connectors :
       cli' = [cli EXCEPT ![c].ident = ident, ![c].conn = conn, ![c].named = Ambient,
                          ![c].at = "revoke"]
  /\ UNCHANGED <<engineVars, brokerVars, history>>

AfterRevoke(w) == IF w.cmd = "move" THEN Resolved(w) ELSE "remove"

(* Mutant: the pod's handles die and its policy stays bound.               *)
RevokePodHandlesOnly(c) ==
  /\ At(c, "revoke")
  /\ broker = "up"
  /\ owned' = [owned EXCEPT ![Pod(c)] = {}]
  /\ cli' = [cli EXCEPT ![c].reached = (@ \/ cli[c].cmd = "down"), ![c].at = AfterRevoke(cli[c])]
  /\ UNCHANGED <<engineVars, broker, bound, issued, history>>

(* RevokePod: the broker forgets the pod.  A call that does not get through *)
(* is ignored.                                                             *)
RevokePod(c) ==
  /\ At(c, "revoke")
  /\ \/ /\ broker = "up"
        /\ owned' = [owned EXCEPT ![Pod(c)] = {}]
        /\ bound' = [bound EXCEPT ![Pod(c)] = Nil]
        /\ cli' = [cli EXCEPT ![c].reached = (@ \/ cli[c].cmd = "down"), ![c].at = AfterRevoke(cli[c])]
     \/ GoTo(c, AfterRevoke(cli[c])) /\ UNCHANGED <<owned, bound>>
  /\ UNCHANGED <<engineVars, broker, issued, history>>

-----------------------------------------------------------------------------
(* buildSpec, from the point where the broker is needed.                   *)

(* The broker's network and container, which is created or started again.  *)
EnsureBroker == broker' = "up"

(* Health, and if need be the container; up waits until it answers, for a  *)
(* while.                                                                  *)
EnsureRunning(c) ==
  /\ At(c, "ensure")
  /\ EnsureBroker
  /\ GoTo(c, "lock") \/ (broker # "up" /\ Return(c))
  /\ UNCHANGED <<engineVars, owned, bound, issued, history>>

EnsurePodLockNetwork(c) ==
  /\ At(c, "lock")
  /\ nets' = nets \union {Pod(c)}
  /\ GoTo(c, "connect")
  /\ UNCHANGED <<box, vols, linked, brokerVars, history>>

(* Mutant: a broker that cannot be connected is gone on without.           *)
ConnectBestEffort(c) ==
  /\ At(c, "connect")
  /\ cli' = [cli EXCEPT ![c].net = (Pod(c) \in linked), ![c].at = "identity"]
  /\ UNCHANGED <<engineVars, brokerVars, history>>

(* The broker says which port its gateway and its datastores are on.       *)
GatewayKnown == broker = "up"

(* Then the broker's address there and its gateway's port, or an error.    *)
ConnectBrokerToPod(c) ==
  /\ At(c, "connect")
  /\ broker # "absent" /\ Pod(c) \in nets
  /\ linked' = linked \union {Pod(c)}
  /\ \/ /\ GatewayKnown
        /\ cli' = [cli EXCEPT ![c].net = TRUE, ![c].at = "identity"]
     \/ Return(c)
  /\ UNCHANGED <<box, vols, nets, brokerVars, history>>

(* Mutant: a token's number is used again.                                 *)
IssueUncounted(c, t) ==
  /\ owned' = [owned EXCEPT ![Pod(c)] = @ \union {t}]
  /\ UNCHANGED issued

Issue(c, t) ==
  /\ issued' = t
  /\ owned' = [owned EXCEPT ![Pod(c)] = @ \union {t}]

(* A handle for the login's or the connector's credential.  The answer may *)
(* be lost after the broker has issued it.                                 *)
IssueHandle(c, next) ==
  /\ broker = "up" /\ issued < MaxTokens
  /\ Issue(c, issued + 1)
  /\ \/ cli' = [cli EXCEPT ![c].env = @ \union {issued + 1}, ![c].at = next]
     \/ Return(c)
  /\ UNCHANGED <<engineVars, broker, bound, history>>

Skip(c, next) == GoTo(c, next) /\ UNCHANGED <<engineVars, brokerVars, history>>

ApplyIdentity(c) ==
  /\ At(c, "identity")
  /\ IF cli[c].ident THEN IssueHandle(c, "connector") ELSE Skip(c, "connector")

(* A connector of an MCP server takes the gateway's address with it.       *)
ApplyHTTP(c) == cli[c].conn = "http" /\ GatewayKnown /\ IssueHandle(c, "policy")

(* A datastore takes the address of its port.                              *)
ApplyDatastore(c) == cli[c].conn = "l4" /\ GatewayKnown /\ IssueHandle(c, "policy")

ApplyConnector(c) ==
  /\ At(c, "connector")
  /\ \/ cli[c].conn = "none" /\ Skip(c, "policy")
     \/ ApplyHTTP(c)
     \/ ApplyDatastore(c)

(* The policy that governs the pod.  A datastore's address is not a host   *)
(* to allow, so a pod with nothing else gets none.                         *)
Governing(w) ==
  IF w.named # Nil THEN w.named
  ELSE IF w.ident \/ w.conn = "http" THEN Derived ELSE Nil

(* Mutant: a derived policy becomes the pod's label and is not bound.      *)
SetPolicyNamedOnly(c) ==
  /\ broker = "up"
  /\ bound' = [bound EXCEPT ![Pod(c)] = IF cli[c].named # Nil THEN cli[c].named ELSE @]

SetPolicy(c) ==
  /\ broker = "up"
  /\ bound' = [bound EXCEPT ![Pod(c)] = Governing(cli[c])]

(* Mutant: an up that needs no policy clears the one that is bound.        *)
BindPolicyAlways(c) ==
  /\ At(c, "policy")
  /\ SetPolicy(c)
  /\ cli' = [cli EXCEPT ![c].label = Governing(cli[c]), ![c].at = "egress"]
  /\ UNCHANGED <<engineVars, broker, owned, issued, history>>

(* An intercepting policy needs the CA's certificate: without it the       *)
(* command fails with the policy bound.                                    *)
BindPolicy(c) ==
  /\ At(c, "policy")
  /\ IF Governing(cli[c]) = Nil THEN Skip(c, "egress")
     ELSE /\ SetPolicy(c)
          /\ \/ cli' = [cli EXCEPT ![c].label = Governing(cli[c]), ![c].at = "egress"]
             \/ cli[c].named # Nil /\ Return(c)
          /\ UNCHANGED <<engineVars, broker, owned, issued, history>>

AfterBuild(c) == IF cli[c].cmd = "move" THEN "remove" ELSE "create"

(* The egress token; a pod without one is created all the same.            *)
Egress(c) ==
  /\ At(c, "egress")
  /\ \/ /\ broker = "up" /\ issued < MaxTokens
        /\ Issue(c, issued + 1)
        /\ cli' = [cli EXCEPT ![c] = [Forget(cli[c]) EXCEPT !.env = cli[c].env \union {issued + 1},
                                                           !.at = AfterBuild(c)]]
     \/ /\ cli' = [cli EXCEPT ![c] = [Forget(cli[c]) EXCEPT !.at = AfterBuild(c)]]
        /\ UNCHANGED <<owned, issued>>
  /\ UNCHANGED <<engineVars, broker, bound, history>>

-----------------------------------------------------------------------------
(* The engine.                                                             *)

(* A pod with no policy is labelled with none.                             *)
Container(c) ==
  [label |-> cli[c].label, ident |-> cli[c].ident, net |-> cli[c].net, env |-> cli[c].env,
   alone |-> ~cli[c].crossed /\ cli[c].label # Nil]

WithVolumes(w) == w.cmd # "task"

(* Session volumes, which count as one, come first.  One that cannot be    *)
(* made with the pod's label is made without it by the engine when it runs *)
(* the container, and from then on nobody's: vols does not have it.        *)
CreateVolumes(c) ==
  vols' \in {vols, vols \union (IF WithVolumes(cli[c]) THEN {Pod(c)} ELSE {})}

(* A setup command that fails leaves the container running.  A one-shot    *)
(* task takes its pod down when the agent has finished, and leaves the     *)
(* pod's lock network where it is.                                         *)
Create(c) ==
  /\ At(c, "create")
  /\ CreateVolumes(c)
  /\ box[Pod(c)] = Nil /\ (cli[c].net => Pod(c) \in nets)
  /\ box' = [box EXCEPT ![Pod(c)] = Container(c)]
  /\ made' = IF Container(c).alone THEN made \union {Pod(c)} ELSE made
  /\ \/ Return(c)
     \/ cli[c].cmd = "task" /\ cli' = [cli EXCEPT ![c] = Torn(@)]
  /\ UNCHANGED <<nets, linked, brokerVars, downed>>

(* The volumes stay if the container cannot be run: its name is taken, its *)
(* network gone, or the engine fails.                                      *)
CreateFails(c) ==
  /\ At(c, "create")
  /\ CreateVolumes(c)
  /\ Return(c)
  /\ UNCHANGED <<box, nets, linked, brokerVars, history>>

AfterRemove == [move |-> "create", down |-> "volumes"]

(* An id is the container's, and not that of one made since.               *)
Remove(c) ==
  /\ At(c, "remove")
  /\ \/ box' = [box EXCEPT ![Pod(c)] = Nil]
     \/ cli[c].cmd = "down by id" /\ cli[c].crossed /\ UNCHANGED box
  /\ IF cli[c].cmd \in DOMAIN AfterRemove THEN GoTo(c, AfterRemove[cli[c].cmd]) ELSE Return(c)
  /\ UNCHANGED <<vols, nets, linked, brokerVars, history>>

(* The volumes labelled with the name.  One that is in use cannot be       *)
(* removed: down ends there, with an error.                                *)
RemoveVolumes(c) ==
  /\ At(c, "volumes")
  /\ box[Pod(c)] = Nil \/ Pod(c) \notin vols
  /\ vols' = vols \ {Pod(c)}
  /\ GoTo(c, "networks")
  /\ UNCHANGED <<box, nets, linked, brokerVars, history>>

(* Both are tried and their errors ignored; a network in use stays.        *)
RemoveNetwork(c) ==
  LET p == Pod(c)
  IN /\ At(c, "networks")
     /\ linked' \in {linked, linked \ {p}}
     /\ nets' \in {nets} \union (IF p \notin linked' /\ box[p] = Nil THEN {nets \ {p}} ELSE {})
     /\ downed' = IF cli[c].crossed \/ ~cli[c].reached THEN downed ELSE downed \union {p}
     /\ Return(c)
     /\ UNCHANGED <<box, vols, brokerVars, made>>

(* A call fails without effect, or the user interrupts the command.        *)
GiveUp(c) == ~At(c, "idle") /\ Fail(c)

-----------------------------------------------------------------------------
(* The broker's registry is in memory only.                                *)
BrokerCrash ==
  /\ broker = "up"
  /\ broker' = "stopped"
  /\ owned' = [p \in Pods |-> {}]
  /\ bound' = [p \in Pods |-> Nil]
  /\ cli' = [c \in Clis |-> [cli[c] EXCEPT !.crossed = ~At(c, "idle")]]
  /\ UNCHANGED <<engineVars, issued, history>>

Build(c) ==
  \/ EnsureRunning(c) \/ EnsurePodLockNetwork(c) \/ ConnectBrokerToPod(c)
  \/ ApplyIdentity(c) \/ ApplyConnector(c)
  \/ BindPolicy(c) \/ Egress(c)

Next ==
  \/ BrokerCrash
  \/ \E c \in Clis :
       \/ \E p \in Pods : Up(c, p) \/ Task(c, p) \/ Move(c, p) \/ Down(c, p) \/ DownById(c, p)
       \/ PodInfo(c) \/ RevokePod(c) \/ Build(c)
       \/ Create(c) \/ CreateFails(c) \/ Remove(c)
       \/ RemoveVolumes(c) \/ RemoveNetwork(c) \/ GiveUp(c)

Spec == Init /\ [][Next]_vars

-----------------------------------------------------------------------------
Places == {"idle", "info", "revoke", "ensure", "lock", "connect", "identity",
           "connector", "policy", "egress", "create", "remove", "volumes", "networks"}

Box == [label : Policies, ident : BOOLEAN, net : BOOLEAN, env : SUBSET Tokens, alone : BOOLEAN]

Work == [cmd : Commands \union {"none"}, pod : Pods \union {Nil}, at : Places,
         ident : BOOLEAN, conn : {"none", "http", "l4"}, named : Named \union {Nil},
         env : SUBSET Tokens, label : Policies, net : BOOLEAN,
         reached : BOOLEAN, crossed : BOOLEAN]

TypeOK ==
  /\ box \in [Pods -> Box \union {Nil}]
  /\ vols \subseteq Pods /\ nets \subseteq Pods /\ linked \subseteq Pods
  /\ broker \in {"absent", "stopped", "up"}
  /\ owned \in [Pods -> SUBSET Tokens]
  /\ bound \in [Pods -> Policies]
  /\ issued \in 0..MaxTokens
  /\ cli \in [Clis -> Work]
  /\ made \subseteq Pods /\ downed \subseteq Pods
  /\ linked \subseteq nets
  /\ \A p \in Pods : owned[p] \subseteq 1..issued
  /\ \A c \in Clis : At(c, "idle") <=> Pod(c) = Nil

Live(p) == box[p] # Nil /\ box[p].env \intersect owned[p] # {}

(* A pod that holds a live token is governed by the policy it is labelled  *)
(* with, whatever happened before it was made and to other pods since: as  *)
(* long as the command that made it had the pod and the broker's registry  *)
(* to itself, and no command has been at the pod since.                    *)
LivePodIsGoverned ==
  \A p \in made : Live(p) => bound[p] = box[p].label

(* A pod that was made under a policy, by a command that had it to itself, *)
(* never has a live token and no policy, which the broker takes for one    *)
(* that allows everything.  Moves that fail half-way, ups of a name in use *)
(* and crashes, however many come after, may put another policy in its     *)
(* place, or take the tokens with it, and nothing else.                    *)
NeverUngoverned ==
  \A p \in Pods : Live(p) /\ box[p].alone => bound[p] # Nil

(* A pod on the way out only through the broker stays so: its network is   *)
(* there as long as it is, and it has no token without it.                 *)
TokensAreBehindTheLock ==
  \A p \in Pods : box[p] # Nil /\ box[p].env # {} => box[p].net /\ p \in nets

(* A down by name that had the pod to itself and reached the broker leaves *)
(* nothing of what is kept under the name: no container, no volume that    *)
(* has its label, no policy and no live token.                             *)
DownLeavesNothing ==
  \A p \in downed : box[p] = Nil /\ p \notin vols /\ owned[p] = {} /\ bound[p] = Nil

(* move recreates the pod with everything but its size: when it is about to *)
(* remove the old container, what it will make keeps the policy and the    *)
(* lock network the old one has.                                           *)
MovePreservesGovernance ==
  \A c \in Clis :
    cli[c].cmd = "move" /\ At(c, "remove") /\ ~cli[c].crossed /\ box[Pod(c)] # Nil =>
      /\ Container(c).label = box[Pod(c)].label
      /\ Container(c).net = box[Pod(c)].net
=============================================================================
