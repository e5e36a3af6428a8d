--------------------------- MODULE LifecycleProofs ---------------------------
(***************************************************************************)
(* Proofs about up, task, move and down.  What a command may rely on of    *)
(* its pod, once it has seen to it, is what nobody else has touched: that  *)
(* is known as long as the command is uncrossed, and so the inductive      *)
(* invariant says of an uncrossed command that it is alone at its pod and  *)
(* what it has left there.                                                 *)
(***************************************************************************)
EXTENDS PodLifecycle, TLAPS

(* Which commands come to which place, and what they carry there.          *)
Building == {"identity", "connector", "policy", "egress"}

PlaceOK(w) ==
  /\ w.at = "info" => w.cmd = "move"
  /\ w.at = "revoke" => w.cmd \in {"move", "down", "task"}
  /\ w.at = "remove" => w.cmd \in {"move", "down", "task", "down by id"}
  /\ w.at \in {"volumes", "networks"} => w.cmd = "down"
  /\ w.reached => w.cmd = "down" /\ w.at \in {"remove", "volumes", "networks"}

CarryOK(w) ==
  /\ w.at \in Building => w.net
  /\ w.env # {} => w.net
  /\ w.label # Nil => w.at \in {"egress", "create", "remove", "volumes", "networks"}

(* Two commands at one pod have crossed each other.                        *)
CrossInv ==
  \A c, d \in Clis : c # d /\ Pod(c) = Pod(d) /\ Pod(c) # Nil => cli[c].crossed

(* No command is at a pod that is down, and only the task that made it, to *)
(* take it down again, at one that was made.                               *)
HistoryInv ==
  \A c \in Clis :
    /\ Pod(c) \notin downed
    /\ Pod(c) \in made => cli[c].cmd = "task" /\ cli[c].at \in {"revoke", "remove"}

(* What an uncrossed command has done to its pod is still so.              *)
WorkStands(c) ==
  ~cli[c].crossed =>
    /\ cli[c].label # Nil => bound[Pod(c)] = cli[c].label
    /\ cli[c].at \in {"volumes", "networks"} => box[Pod(c)] = Nil
    /\ cli[c].at = "networks" => Pod(c) \notin vols
    /\ cli[c].reached => owned[Pod(c)] = {} /\ bound[Pod(c)] = Nil

(* A token a pod or a command has was issued, so the next one is new to it. *)
EnvInv ==
  /\ \A p \in Pods : box[p] # Nil => box[p].env \subseteq 1..issued
  /\ \A c \in Clis : cli[c].env \subseteq 1..issued

IInv ==
  /\ TypeOK
  /\ EnvInv
  /\ \A c \in Clis : PlaceOK(cli[c]) /\ CarryOK(cli[c])
  /\ CrossInv
  /\ HistoryInv
  /\ \A c \in Clis : WorkStands(c)
  /\ TokensAreBehindTheLock
  /\ LivePodIsGoverned
  /\ NeverUngoverned
  /\ DownLeavesNothing

-----------------------------------------------------------------------------
(* A command's next step, once it has begun.                               *)

Act(c) ==
  \/ PodInfo(c) \/ RevokePod(c) \/ Build(c)
  \/ Create(c) \/ CreateFails(c) \/ Remove(c)
  \/ RemoveVolumes(c) \/ RemoveNetwork(c) \/ GiveUp(c)

(* What a command may become: nothing, or itself further on.               *)
Follows(c, w) ==
  /\ w \in Work /\ PlaceOK(w) /\ CarryOK(w)
  /\ w # Idle => w.pod = Pod(c) /\ w.at # "idle" /\ w.crossed = cli[c].crossed

Shape ==
  /\ box \in [Pods -> Box \union {Nil}]
  /\ issued \in 0..MaxTokens
  /\ cli \in [Clis -> Work]
  /\ \A c \in Clis : At(c, "idle") <=> Pod(c) = Nil
  /\ \A c \in Clis : PlaceOK(cli[c]) /\ CarryOK(cli[c])

LEMMA IdleFollows ==
  Idle \in Work /\ PlaceOK(Idle) /\ CarryOK(Idle) /\ Idle.pod = Nil /\ Idle.at = "idle"
BY DEF Idle, Work, PlaceOK, CarryOK, Places, Policies, Commands, Building

(* A command is at a pod from its first step to its last, and changes      *)
(* nobody else's work.                                                     *)
LEMMA ActMoves ==
  ASSUME Shape, NEW c \in Clis, Act(c)
  PROVE  /\ Pod(c) \in Pods
         /\ \E w : Follows(c, w) /\ cli' = [cli EXCEPT ![c] = w]
<1> DEFINE Goal == \E w : Follows(c, w) /\ cli' = [cli EXCEPT ![c] = w]
<1>0. /\ cli \in [Clis -> Work] /\ cli[c] \in Work
      /\ PlaceOK(cli[c]) /\ CarryOK(cli[c])
      /\ (At(c, "idle") <=> Pod(c) = Nil)
  BY DEF Shape
<1>a. ASSUME Return(c) PROVE Goal
  BY <1>a, IdleFollows DEF Return, Follows
<1>i. ~At(c, "idle")
  BY DEF Act, PodInfo, RevokePod, Build, EnsureRunning, EnsurePodLockNetwork, ConnectBrokerToPod,
     ApplyIdentity, ApplyConnector, BindPolicy, Egress, Create, CreateFails, Remove,
     RemoveVolumes, RemoveNetwork, GiveUp, At
<1>p. Pod(c) \in Pods
  BY <1>0, <1>i DEF Pod, At, Work
<1>b. ASSUME NEW w, cli' = [cli EXCEPT ![c] = w], w \in Work, PlaceOK(w), CarryOK(w),
             w.pod = Pod(c), w.at # "idle", w.crossed = cli[c].crossed
      PROVE  Goal
  BY <1>b DEF Follows
<1> USE LifecycleAssumption DEF At, Pod, GoTo
<1>g. SUFFICES Goal
  BY <1>p
<1> HIDE DEF Goal
<1>1. CASE PodInfo(c)
  <2>1. PICK ident \in Labels(Pod(c)), conn \in Connectors :
          cli' = [cli EXCEPT ![c].ident = ident, ![c].conn = conn, ![c].named = Ambient,
                             ![c].at = "revoke"]
    BY <1>1 DEF PodInfo
  <2>2. ident \in BOOLEAN
    BY <1>p DEF Labels, Shape, Box
  <2> DEFINE w == [cli[c] EXCEPT !.ident = ident, !.conn = conn, !.named = Ambient, !.at = "revoke"]
  <2>3. cli' = [cli EXCEPT ![c] = w]
    BY <2>1, <1>0
  <2>4. w \in Work /\ w.pod = Pod(c) /\ w.at = "revoke" /\ w.crossed = cli[c].crossed
    BY <1>0, <2>2 DEF Work, Places
  <2>5. PlaceOK(w) /\ CarryOK(w)
    BY <1>0, <1>1 DEF PodInfo, Work, PlaceOK, CarryOK, Building
  <2> HIDE DEF w
  <2> QED BY <1>b, <2>3, <2>4, <2>5
<1>2. CASE RevokePod(c)
  <2> DEFINE w(b) == [cli[c] EXCEPT !.reached = b, !.at = AfterRevoke(cli[c])]
  <2>1. AfterRevoke(cli[c]) \in {"ensure", "remove", "create"}
        /\ (cli[c].cmd \in {"down", "task"} => AfterRevoke(cli[c]) = "remove")
        /\ (AfterRevoke(cli[c]) = "remove" => cli[c].cmd \in {"move", "down", "task"})
    BY <1>0, <1>2 DEF AfterRevoke, Resolved, RevokePod, PlaceOK
  <2>2. cli[c].reached = FALSE
    BY <1>0, <1>2 DEF RevokePod, PlaceOK, Work
  <2>3. PICK b \in BOOLEAN : (b => cli[c].cmd = "down") /\ cli' = [cli EXCEPT ![c] = w(b)]
    <3>1. CASE GoTo(c, AfterRevoke(cli[c]))
      <4>0. w(FALSE) = [cli[c] EXCEPT !.at = AfterRevoke(cli[c])]
        BY <1>0, <2>2 DEF Work
      <4>1. cli' = [cli EXCEPT ![c] = w(FALSE)]
        BY <1>0, <3>1, <4>0
      <4> QED BY <4>1
    <3>2. CASE cli' = [cli EXCEPT ![c].reached = (@ \/ cli[c].cmd = "down"), ![c].at = AfterRevoke(cli[c])]
      <4>1. cli' = [cli EXCEPT ![c] = w(cli[c].cmd = "down")]
        BY <1>0, <2>2, <3>2 DEF Work
      <4> QED BY <4>1
    <3> QED BY <1>2, <3>1, <3>2 DEF RevokePod
  <2>4. w(b) \in Work /\ w(b).pod = Pod(c) /\ w(b).at # "idle" /\ w(b).crossed = cli[c].crossed
    <3>1. AfterRevoke(cli[c]) \in Places \ {"idle"}
      BY <2>1 DEF Places
    <3> QED BY <1>0, <3>1 DEF Work
  <2>5. PlaceOK(w(b)) /\ CarryOK(w(b))
    BY <1>0, <1>2, <2>1, <2>3 DEF RevokePod, Work, PlaceOK, CarryOK, Building
  <2> HIDE DEF w
  <2> QED BY <1>b, <2>3, <2>4, <2>5
<1>s. ASSUME NEW where \in Places \ {"idle"}, GoTo(c, where),
             ~cli[c].reached \/ (where = "networks" /\ cli[c].cmd = "down"),
             where \notin {"info", "revoke", "remove", "volumes"} \/ (where = "volumes" /\ cli[c].cmd = "down"),
             where = "networks" => cli[c].cmd = "down",
             where \in Building => cli[c].net,
             cli[c].label = Nil \/ where \in {"networks", "volumes"}
      PROVE  Goal
  <2> DEFINE w == [cli[c] EXCEPT !.at = where]
  <2>1. cli' = [cli EXCEPT ![c] = w]
    BY <1>0, <1>s
  <2>2. w \in Work /\ w.pod = Pod(c) /\ w.at = where /\ w.crossed = cli[c].crossed
    BY <1>0 DEF Work
  <2>3. PlaceOK(w) /\ CarryOK(w)
    BY <1>0, <1>s DEF Work, PlaceOK, CarryOK
  <2> HIDE DEF w
  <2> QED BY <1>b, <2>1, <2>2, <2>3
<1>3. CASE EnsureRunning(c) \/ EnsurePodLockNetwork(c)
  BY <1>0, <1>3, <1>a, <1>s DEF EnsureRunning, EnsurePodLockNetwork, Places, PlaceOK, CarryOK, Building
<1>4. CASE ConnectBrokerToPod(c)
  <2>1. CASE cli' = [cli EXCEPT ![c].net = TRUE, ![c].at = "identity"]
    <3> DEFINE w == [cli[c] EXCEPT !.net = TRUE, !.at = "identity"]
    <3>1. cli' = [cli EXCEPT ![c] = w]
      BY <1>0, <2>1
    <3>2. w \in Work /\ w.pod = Pod(c) /\ w.at = "identity" /\ w.crossed = cli[c].crossed
      BY <1>0 DEF Work, Places
    <3>3. PlaceOK(w) /\ CarryOK(w)
      BY <1>0, <1>4 DEF ConnectBrokerToPod, Work, PlaceOK, CarryOK
    <3> HIDE DEF w
    <3> QED BY <1>b, <3>1, <3>2, <3>3
  <2> QED BY <1>4, <1>a, <2>1 DEF ConnectBrokerToPod
<1>5. ASSUME NEW next \in {"connector", "policy"}, cli[c].at \in {"identity", "connector"},
             IssueHandle(c, next) \/ Skip(c, next)
      PROVE  Goal
  <2>0. cli[c].net /\ ~cli[c].reached /\ cli[c].label = Nil
    BY <1>0, <1>5 DEF PlaceOK, CarryOK, Building
  <2>1. CASE issued < MaxTokens /\ cli' = [cli EXCEPT ![c].env = @ \union {issued + 1}, ![c].at = next]
    <3> DEFINE w == [cli[c] EXCEPT !.env = @ \union {issued + 1}, !.at = next]
    <3>1. cli' = [cli EXCEPT ![c] = w]
      BY <1>0, <2>1
    <3>t. issued + 1 \in Tokens
      BY <2>1 DEF Tokens, Shape
    <3>2. w \in Work /\ w.pod = Pod(c) /\ w.at = next /\ w.crossed = cli[c].crossed
      BY <1>0, <3>t DEF Work, Places
    <3>3. PlaceOK(w) /\ CarryOK(w)
      BY <1>0, <2>0 DEF Work, PlaceOK, CarryOK
    <3> HIDE DEF w
    <3> QED BY <1>b, <3>1, <3>2, <3>3
  <2>2. CASE Skip(c, next)
    BY <1>s, <2>0, <2>2 DEF Skip, Places
  <2> QED BY <1>5, <1>a, <2>1, <2>2 DEF IssueHandle
<1>6. CASE ApplyIdentity(c) \/ ApplyConnector(c)
  BY <1>5, <1>6 DEF ApplyIdentity, ApplyConnector, ApplyHTTP, ApplyDatastore
<1>7. CASE BindPolicy(c)
  <2>0. cli[c].net /\ ~cli[c].reached /\ cli[c].label = Nil /\ Governing(cli[c]) \in Policies
    BY <1>0, <1>7 DEF BindPolicy, PlaceOK, CarryOK, Building, Governing, Policies, Work
  <2>1. CASE cli' = [cli EXCEPT ![c].label = Governing(cli[c]), ![c].at = "egress"]
    <3> DEFINE w == [cli[c] EXCEPT !.label = Governing(cli[c]), !.at = "egress"]
    <3>1. cli' = [cli EXCEPT ![c] = w]
      BY <1>0, <2>1
    <3>2. w \in Work /\ w.pod = Pod(c) /\ w.at = "egress" /\ w.crossed = cli[c].crossed
      BY <1>0, <2>0 DEF Work, Places
    <3>3. PlaceOK(w) /\ CarryOK(w)
      BY <1>0, <2>0 DEF Work, PlaceOK, CarryOK
    <3> HIDE DEF w
    <3> QED BY <1>b, <3>1, <3>2, <3>3
  <2>2. CASE Skip(c, "egress")
    BY <1>s, <2>0, <2>2 DEF Skip, Places
  <2> QED BY <1>7, <1>a, <2>1, <2>2 DEF BindPolicy
<1>8. CASE Egress(c)
  <2>0. cli[c].net /\ ~cli[c].reached
    BY <1>0, <1>8 DEF Egress, PlaceOK, CarryOK, Building
  <2> DEFINE w(e) == [Forget(cli[c]) EXCEPT !.env = e, !.at = AfterBuild(c)]
  <2>1. PICK e \in SUBSET Tokens : cli' = [cli EXCEPT ![c] = w(e)]
    <3>1. CASE cli' = [cli EXCEPT ![c] = [Forget(cli[c]) EXCEPT !.at = AfterBuild(c)]]
      <4>1. cli' = [cli EXCEPT ![c] = w(cli[c].env)]
        BY <1>0, <3>1 DEF Forget, Work
      <4>2. cli[c].env \in SUBSET Tokens
        BY <1>0 DEF Work
      <4> QED BY <4>1, <4>2
    <3>2. CASE /\ issued < MaxTokens
               /\ cli' = [cli EXCEPT ![c] = [Forget(cli[c]) EXCEPT !.env = cli[c].env \union {issued + 1},
                                                                  !.at = AfterBuild(c)]]
      <4>1. cli' = [cli EXCEPT ![c] = w(cli[c].env \union {issued + 1})]
        BY <3>2
      <4>2. cli[c].env \union {issued + 1} \in SUBSET Tokens
        BY <1>0, <3>2 DEF Work, Tokens, Shape
      <4> QED BY <4>1, <4>2
    <3> QED BY <1>8, <3>1, <3>2 DEF Egress
  <2>2. AfterBuild(c) \in {"remove", "create"} /\ (AfterBuild(c) = "remove" => cli[c].cmd = "move")
    BY DEF AfterBuild
  <2>3. w(e) \in Work /\ w(e).pod = Pod(c) /\ w(e).at # "idle" /\ w(e).crossed = cli[c].crossed
    BY <1>0, <2>2 DEF Work, Places, Forget
  <2>4. PlaceOK(w(e)) /\ CarryOK(w(e))
    BY <1>0, <2>0, <2>2 DEF Work, PlaceOK, CarryOK, Forget, Building
  <2> HIDE DEF w
  <2> QED BY <1>b, <2>1, <2>3, <2>4
<1>9. CASE Create(c)
  <2>1. CASE cli[c].cmd = "task" /\ cli' = [cli EXCEPT ![c] = Torn(@)]
    <3>1. cli' = [cli EXCEPT ![c] = Torn(cli[c])]
      BY <1>0, <2>1
    <3>2. /\ Torn(cli[c]) \in Work /\ Torn(cli[c]).pod = Pod(c)
          /\ Torn(cli[c]).at = "revoke" /\ Torn(cli[c]).crossed = cli[c].crossed
      BY <1>0, <1>p, ZenonT(40) DEF Torn, Idle, Work, Places, Policies, Commands
    <3>3. PlaceOK(Torn(cli[c])) /\ CarryOK(Torn(cli[c]))
      BY <2>1 DEF Torn, Idle, PlaceOK, CarryOK, Building
    <3> QED BY <1>b, <3>1, <3>2, <3>3
  <2> QED BY <1>9, <1>a, <2>1 DEF Create
<1>10. CASE CreateFails(c) \/ RemoveNetwork(c) \/ GiveUp(c)
  BY <1>10, <1>a DEF CreateFails, RemoveNetwork, GiveUp, Fail
<1>11. CASE Remove(c)
  <2>1. CASE cli[c].cmd \notin {"move", "down"}
    BY <1>11, <1>a, <2>1 DEF Remove, AfterRemove
  <2>2. CASE cli[c].cmd \in {"move", "down"}
    <3>1. /\ cli[c].cmd \in DOMAIN AfterRemove
          /\ AfterRemove[cli[c].cmd] = IF cli[c].cmd = "move" THEN "create" ELSE "volumes"
      BY <2>2 DEF AfterRemove
    <3> DEFINE w == [cli[c] EXCEPT !.at = IF cli[c].cmd = "move" THEN "create" ELSE "volumes"]
    <3>2. cli' = [cli EXCEPT ![c] = w]
      BY <1>0, <1>11, <3>1 DEF Remove
    <3>3. w \in Work /\ w.pod = Pod(c) /\ w.at \in {"create", "volumes"} /\ w.crossed = cli[c].crossed
      BY <1>0 DEF Work, Places
    <3>4. PlaceOK(w) /\ CarryOK(w)
      BY <1>0, <1>11, <2>2 DEF Remove, Work, PlaceOK, CarryOK, Building
    <3> HIDE DEF w
    <3> QED BY <1>b, <3>2, <3>3, <3>4
  <2> QED BY <2>1, <2>2
<1>12. CASE RemoveVolumes(c)
  <2>1. cli[c].cmd = "down" /\ GoTo(c, "networks")
    BY <1>0, <1>12 DEF RemoveVolumes, PlaceOK
  <2> QED BY <1>s, <2>1 DEF Places, Building
<1> QED
  BY <1>1, <1>2, <1>3, <1>4, <1>6, <1>7, <1>8, <1>9, <1>10, <1>11, <1>12 DEF Act, Build

-----------------------------------------------------------------------------
(* What the properties say of one pod.                                     *)

BehindTheLock(p) == box[p] # Nil /\ box[p].env # {} => box[p].net /\ p \in nets

Governed(p) == p \in made => (Live(p) => bound[p] = box[p].label)

Gone(p) == p \in downed => box[p] = Nil /\ p \notin vols /\ owned[p] = {} /\ bound[p] = Nil

StillUnderPolicy(p) ==
  Live(p) /\ box[p].alone => bound[p] # Nil

PodOK(p) == BehindTheLock(p) /\ Governed(p) /\ StillUnderPolicy(p) /\ Gone(p)

CliHistory(c) ==
  /\ Pod(c) \notin downed
  /\ Pod(c) \in made => cli[c].cmd = "task" /\ cli[c].at \in {"revoke", "remove"}

LEMMA IInvAs ==
  IInv => /\ TypeOK /\ Shape /\ EnvInv /\ CrossInv
          /\ \A c \in Clis : CliHistory(c) /\ WorkStands(c)
          /\ \A p \in Pods : PodOK(p)
BY DEF IInv, TypeOK, Shape, HistoryInv, CliHistory, PodOK, BehindTheLock, Governed, StillUnderPolicy, Gone,
       TokensAreBehindTheLock, LivePodIsGoverned, NeverUngoverned, DownLeavesNothing

LEMMA IInvAsPrimed ==
  TypeOK' /\ Shape' /\ EnvInv' /\ CrossInv' /\ (\A c \in Clis : CliHistory(c)' /\ WorkStands(c)')
     /\ (\A p \in Pods : PodOK(p)') => IInv'
BY DEF IInv, TypeOK, Shape, HistoryInv, CliHistory, PodOK, BehindTheLock, Governed, StillUnderPolicy, Gone,
       TokensAreBehindTheLock, LivePodIsGoverned, NeverUngoverned, DownLeavesNothing

(* A pod that a step leaves as it was.                                     *)
Untouched(q) ==
  /\ box'[q] = box[q] /\ owned'[q] = owned[q] /\ bound'[q] = bound[q]
  /\ q \in vols' <=> q \in vols
  /\ q \in nets' <=> q \in nets
  /\ q \in made' <=> q \in made
  /\ q \in downed' <=> q \in downed

LEMMA UntouchedPod ==
  ASSUME NEW q, Untouched(q), PodOK(q)
  PROVE  PodOK(q)'
BY DEF Untouched, PodOK, BehindTheLock, Governed, StillUnderPolicy, Gone, Live

LEMMA UntouchedWork ==
  ASSUME NEW d \in Clis, cli'[d] = cli[d], Untouched(Pod(d)), CliHistory(d), WorkStands(d)
  PROVE  CliHistory(d)' /\ WorkStands(d)'
BY DEF Untouched, CliHistory, WorkStands, Pod

(* A command works on its own pod only.                                    *)
LEMMA ActIsLocal ==
  ASSUME TypeOK, NEW c \in Clis, Act(c), NEW q \in Pods, q # Pod(c)
  PROVE  Untouched(q)
<1> USE DEF TypeOK, Untouched, engineVars, brokerVars, history
<1>1. CASE PodInfo(c) \/ GiveUp(c)
  BY <1>1 DEF PodInfo, GiveUp, Fail
<1>2. CASE RevokePod(c) \/ EnsureRunning(c)
  BY <1>2 DEF RevokePod, EnsureRunning
<1>3. CASE EnsurePodLockNetwork(c) \/ ConnectBrokerToPod(c)
  BY <1>3 DEF EnsurePodLockNetwork, ConnectBrokerToPod
<1>4. ASSUME NEW next, IssueHandle(c, next) \/ Skip(c, next) PROVE Untouched(q)
  BY <1>4 DEF IssueHandle, Issue, Skip
<1>5. CASE ApplyIdentity(c) \/ ApplyConnector(c)
  BY <1>4, <1>5 DEF ApplyIdentity, ApplyConnector, ApplyHTTP, ApplyDatastore
<1>6. CASE BindPolicy(c)
  BY <1>4, <1>6 DEF BindPolicy, SetPolicy
<1>7. CASE Egress(c)
  BY <1>7 DEF Egress, Issue
<1>8. CASE Create(c) \/ CreateFails(c)
  BY <1>8 DEF Create, CreateFails, CreateVolumes
<1>9. CASE Remove(c) \/ RemoveVolumes(c)
  BY <1>9 DEF Remove, RemoveVolumes
<1>10. CASE RemoveNetwork(c)
  BY <1>10 DEF RemoveNetwork
<1> QED
  BY <1>1, <1>2, <1>3, <1>5, <1>6, <1>7, <1>8, <1>9, <1>10 DEF Act, Build

-----------------------------------------------------------------------------
(* The types, over one step of a command.                                  *)

CliShape ==
  /\ cli \in [Clis -> Work]
  /\ \A c \in Clis : At(c, "idle") <=> Pod(c) = Nil
  /\ \A c \in Clis : PlaceOK(cli[c]) /\ CarryOK(cli[c])

LEMMA ActCliShape ==
  ASSUME TypeOK, Shape, NEW c \in Clis, Act(c)
  PROVE  CliShape'
<1>1. PICK w : Follows(c, w) /\ cli' = [cli EXCEPT ![c] = w]
  BY ActMoves
<1>2. cli' \in [Clis -> Work] /\ cli'[c] = w /\ \A d \in Clis \ {c} : cli'[d] = cli[d]
  BY <1>1 DEF Shape, Follows
<1>3. (w.at = "idle" <=> w.pod = Nil) /\ PlaceOK(w) /\ CarryOK(w)
  BY <1>1, ActMoves, IdleFollows, LifecycleAssumption DEF Follows
<1> QED
  BY <1>2, <1>3 DEF CliShape, Shape, At, Pod

LEMMA ActTypes ==
  ASSUME TypeOK, Shape, NEW c \in Clis, Act(c)
  PROVE  TypeOK' /\ Shape'
<1> DEFINE p == Pod(c)
<1>0. CliShape' /\ p \in Pods /\ cli[c] \in Work
  BY ActCliShape, ActMoves DEF Shape
<1>s. SUFFICES
        /\ (box \in [Pods -> Box \union {Nil}])'
        /\ (vols \subseteq Pods /\ nets \subseteq Pods /\ linked \subseteq nets)'
        /\ broker' \in {"absent", "stopped", "up"}
        /\ (bound \in [Pods -> Policies])'
        /\ (owned \in [Pods -> SUBSET Tokens] /\ issued \in 0..MaxTokens)'
        /\ (\A q \in Pods : owned[q] \subseteq 1..issued)'
        /\ (made \subseteq Pods /\ downed \subseteq Pods)'
  BY <1>0 DEF TypeOK, CliShape, Shape
<1> HIDE DEF p
<1> USE <1>0 DEF TypeOK, engineVars, brokerVars, history
<1>1. CASE PodInfo(c) \/ GiveUp(c)
  BY <1>1 DEF PodInfo, GiveUp, Fail
<1>2. CASE RevokePod(c)
  BY <1>2, LifecycleAssumption DEF RevokePod, Policies
<1>3. CASE EnsureRunning(c) \/ EnsurePodLockNetwork(c) \/ ConnectBrokerToPod(c)
  BY <1>3 DEF EnsureRunning, EnsureBroker, EnsurePodLockNetwork, ConnectBrokerToPod, p
<1>4. ASSUME issued < MaxTokens, Issue(c, issued + 1)
      PROVE  /\ (owned \in [Pods -> SUBSET Tokens] /\ issued \in 0..MaxTokens)'
             /\ (\A q \in Pods : owned[q] \subseteq 1..issued)'
  <2>1. issued' = issued + 1 /\ issued' \in 1..MaxTokens
    BY <1>4, LifecycleAssumption DEF Issue
  <2>2. owned' = [owned EXCEPT ![p] = owned[p] \union {issued + 1}]
    BY <1>4 DEF Issue, p
  <2>3. \A q \in Pods : owned'[q] \subseteq 1..issued'
    BY <2>1, <2>2
  <2>4. \A q \in Pods : owned'[q] \in SUBSET Tokens
    <3>1. 1..issued' \subseteq Tokens
      BY <2>1, LifecycleAssumption DEF Tokens
    <3> QED BY <2>3, <3>1
  <2> QED BY <2>1, <2>2, <2>3, <2>4
<1>5. ASSUME NEW next, IssueHandle(c, next) \/ Skip(c, next)
      PROVE  /\ UNCHANGED <<engineVars, broker, bound, history>>
             /\ (owned \in [Pods -> SUBSET Tokens] /\ issued \in 0..MaxTokens)'
             /\ (\A q \in Pods : owned[q] \subseteq 1..issued)'
  BY <1>4, <1>5 DEF IssueHandle, Skip
<1>6. CASE ApplyIdentity(c) \/ ApplyConnector(c)
  <2>1. /\ UNCHANGED <<engineVars, broker, bound, history>>
        /\ (owned \in [Pods -> SUBSET Tokens] /\ issued \in 0..MaxTokens)'
        /\ (\A q \in Pods : owned[q] \subseteq 1..issued)'
    BY <1>5, <1>6 DEF ApplyIdentity, ApplyConnector, ApplyHTTP, ApplyDatastore
  <2> QED BY <2>1
<1>7. CASE BindPolicy(c)
  <2>1. Governing(cli[c]) \in Policies
    BY DEF Governing, Work, Policies
  <2>2. CASE Skip(c, "egress")
    BY <2>2 DEF Skip
  <2>3. CASE SetPolicy(c) /\ UNCHANGED <<engineVars, broker, owned, issued, history>>
    BY <2>1, <2>3 DEF SetPolicy
  <2> QED BY <1>7, <2>2, <2>3 DEF BindPolicy
<1>8. CASE Egress(c)
  BY <1>4, <1>8 DEF Egress
<1>9. CASE Create(c) \/ CreateFails(c)
  <2>1. Container(c) \in Box
    BY DEF Container, Box, Work
  <2> QED BY <1>9, <2>1 DEF Create, CreateFails, CreateVolumes, p
<1>10. CASE Remove(c) \/ RemoveVolumes(c)
  BY <1>10 DEF Remove, RemoveVolumes
<1>11. CASE RemoveNetwork(c)
  BY <1>11 DEF RemoveNetwork, p
<1> QED
  BY <1>1, <1>2, <1>3, <1>6, <1>7, <1>8, <1>9, <1>10, <1>11 DEF Act, Build

-----------------------------------------------------------------------------
(* A command's own pod, over one step of it.                               *)

LEMMA ActOnOwnPod ==
  ASSUME IInv, NEW c \in Clis, Act(c), NEW p \in Pods, Pod(c) = p
  PROVE  CliHistory(c)' /\ WorkStands(c)' /\ PodOK(p)'
<1> DEFINE k == cli[c]
           Goal == CliHistory(c)' /\ WorkStands(c)' /\ PodOK(p)'
<1>0. /\ TypeOK /\ TypeOK' /\ cli \in [Clis -> Work]
      /\ CliHistory(c) /\ WorkStands(c) /\ PodOK(p)
      /\ k \in Work /\ PlaceOK(k) /\ CarryOK(k) /\ k.pod = p
      /\ EnvInv /\ issued \in Nat
  BY IInvAs, ActTypes DEF Shape, Pod
<1>1. ASSUME Return(c) PROVE CliHistory(c)' /\ WorkStands(c)'
  <2>1. cli'[c] = Idle
    BY <1>0, <1>1 DEF Return
  <2>2. Nil \notin made' /\ Nil \notin downed'
    BY <1>0, LifecycleAssumption DEF TypeOK
  <2> QED BY <2>1, <2>2 DEF CliHistory, WorkStands, Pod, Idle
<1>n. k.at \notin {"revoke", "remove"} => p \notin made
  BY <1>0 DEF CliHistory, Pod
<1>d. p \notin downed
  BY <1>0 DEF CliHistory, Pod
<1>t. ASSUME issued \in Nat, Issue(c, issued + 1) \/ owned' = owned, box'[p] = box[p]
      PROVE  Live(p)' => Live(p)
  <2>1. box[p] # Nil => issued + 1 \notin box[p].env
    BY <1>0, <1>t DEF EnvInv
  <2> QED BY <1>0, <1>t, <2>1 DEF Live, Issue, Pod, TypeOK
<1> USE <1>0 DEF At, Pod, engineVars, brokerVars
<1>3. CASE PodInfo(c)
  <2>1. UNCHANGED <<engineVars, brokerVars, history>> /\ k.at = "info"
    BY <1>3 DEF PodInfo
  <2>2. PICK ident \in Labels(Pod(c)), conn \in Connectors :
          cli' = [cli EXCEPT ![c].ident = ident, ![c].conn = conn, ![c].named = Ambient,
                             ![c].at = "revoke"]
    BY <1>3 DEF PodInfo
  <2>3. /\ cli'[c].label = k.label /\ cli'[c].at = "revoke" /\ cli'[c].reached = k.reached
        /\ cli'[c].pod = p
    BY <2>2 DEF Work
  <2>4. CliHistory(c)'
    BY <1>n, <1>d, <2>1, <2>3 DEF CliHistory, history
  <2>5. WorkStands(c)'
    BY <2>1, <2>3 DEF WorkStands, PlaceOK, CarryOK
  <2> QED BY <2>1, <2>4, <2>5 DEF PodOK, BehindTheLock, Governed, StillUnderPolicy, Gone, Live, history
<1>4. CASE RevokePod(c)
  <2>1. UNCHANGED <<engineVars, broker, issued, history>> /\ k.at = "revoke"
    BY <1>4 DEF RevokePod
  <2>2. k.label = Nil /\ ~k.reached /\ k.reached \in BOOLEAN
    BY <2>1 DEF PlaceOK, CarryOK, Building, Work
  <2>3. AfterRevoke(k) \in {"ensure", "remove", "create"} /\ (k.cmd = "task" => AfterRevoke(k) = "remove")
    BY DEF AfterRevoke, Resolved
  <2>4. /\ cli'[c].label = Nil /\ cli'[c].pod = p /\ cli'[c].at = AfterRevoke(k) /\ cli'[c].cmd = k.cmd
        /\ \/ owned'[p] = {} /\ bound'[p] = Nil
           \/ ~cli'[c].reached /\ UNCHANGED <<owned, bound>>
    <3>1. CASE GoTo(c, AfterRevoke(cli[c])) /\ UNCHANGED <<owned, bound>>
      BY <2>2, <3>1 DEF GoTo, Work
    <3>2. CASE /\ owned' = [owned EXCEPT ![Pod(c)] = {}]
               /\ bound' = [bound EXCEPT ![Pod(c)] = Nil]
               /\ cli' = [cli EXCEPT ![c].reached = (@ \/ cli[c].cmd = "down"), ![c].at = AfterRevoke(cli[c])]
      BY <2>2, <3>2 DEF Work, TypeOK
    <3> QED BY <1>4, <3>1, <3>2 DEF RevokePod
  <2>5. CliHistory(c)'
    BY <1>d, <2>1, <2>3, <2>4 DEF CliHistory, history
  <2>6. WorkStands(c)'
    BY <2>3, <2>4 DEF WorkStands
  <2>7. PodOK(p)'
    BY <2>1, <2>4 DEF PodOK, BehindTheLock, Governed, StillUnderPolicy, Gone, Live, history
  <2> QED BY <2>5, <2>6, <2>7
<1>5. CASE EnsureRunning(c) \/ EnsurePodLockNetwork(c) \/ ConnectBrokerToPod(c)
  <2>1. /\ UNCHANGED <<box, vols, owned, bound, issued, history>> /\ (p \in nets => p \in nets')
        /\ k.at \in {"ensure", "lock", "connect"}
    BY <1>5 DEF EnsureRunning, EnsurePodLockNetwork, ConnectBrokerToPod
  <2>2. k.label = Nil /\ ~k.reached
    BY <2>1 DEF PlaceOK, CarryOK
  <2>3. \/ Return(c)
        \/ /\ cli'[c].label = k.label /\ cli'[c].pod = p /\ cli'[c].reached = k.reached
           /\ cli'[c].at \in {"lock", "connect", "identity"}
    BY <1>5 DEF EnsureRunning, EnsurePodLockNetwork, ConnectBrokerToPod, GoTo, Work
  <2>4. CliHistory(c)' /\ WorkStands(c)'
    BY <1>1, <1>n, <1>d, <2>1, <2>2, <2>3 DEF CliHistory, WorkStands, history
  <2> QED BY <2>1, <2>4 DEF PodOK, BehindTheLock, Governed, StillUnderPolicy, Gone, Live, history
<1>6. CASE ApplyIdentity(c) \/ ApplyConnector(c)
  <2>1. UNCHANGED <<engineVars, bound, history>> /\ k.at \in {"identity", "connector"}
    BY <1>6 DEF ApplyIdentity, ApplyConnector, ApplyHTTP, ApplyDatastore, IssueHandle, Skip
  <2>2. k.label = Nil /\ ~k.reached
    BY <2>1 DEF PlaceOK, CarryOK
  <2>3. \/ Return(c)
        \/ /\ cli'[c].label = k.label /\ cli'[c].pod = p /\ cli'[c].reached = k.reached
           /\ cli'[c].at \in {"connector", "policy"}
    BY <1>6 DEF ApplyIdentity, ApplyConnector, ApplyHTTP, ApplyDatastore, IssueHandle, Skip, GoTo, Work
  <2>4. CliHistory(c)' /\ WorkStands(c)'
    BY <1>1, <1>n, <1>d, <2>1, <2>2, <2>3 DEF CliHistory, WorkStands, history
  <2>5. p \notin made' /\ p \notin downed'
    BY <1>n, <1>d, <2>1 DEF history
  <2>6. Issue(c, issued + 1) \/ owned' = owned
    BY <1>6 DEF ApplyIdentity, ApplyConnector, ApplyHTTP, ApplyDatastore, IssueHandle, Skip
  <2>7. StillUnderPolicy(p)'
    BY <1>t, <2>1, <2>6 DEF PodOK, StillUnderPolicy
  <2> QED BY <2>1, <2>4, <2>5, <2>7 DEF PodOK, BehindTheLock, Governed, Gone
<1>7. CASE BindPolicy(c)
  <2>1. UNCHANGED <<engineVars, broker, owned, issued, history>> /\ k.at = "policy"
    BY <1>7 DEF BindPolicy, Skip
  <2>2. k.label = Nil /\ ~k.reached
    BY <2>1 DEF PlaceOK, CarryOK, Building
  <2>3. \/ Return(c)
        \/ /\ cli'[c].pod = p /\ cli'[c].reached = k.reached /\ cli'[c].at = "egress"
           /\ cli'[c].label = k.label \/ bound'[p] = cli'[c].label
    <3>1. CASE Skip(c, "egress")
      BY <3>1 DEF Skip, GoTo, Work
    <3>2. CASE SetPolicy(c) /\ cli' = [cli EXCEPT ![c].label = Governing(cli[c]), ![c].at = "egress"]
      BY <3>2 DEF SetPolicy, Work, TypeOK
    <3> QED BY <1>7, <3>1, <3>2 DEF BindPolicy
  <2>4. CliHistory(c)' /\ WorkStands(c)'
    BY <1>1, <1>n, <1>d, <2>1, <2>2, <2>3 DEF CliHistory, WorkStands, history
  <2>5. p \notin made' /\ p \notin downed'
    BY <1>n, <1>d, <2>1 DEF history
  <2>6. bound'[p] = bound[p] \/ bound'[p] # Nil
    BY <1>7 DEF BindPolicy, Skip, SetPolicy, TypeOK
  <2>7. StillUnderPolicy(p)'
    BY <2>1, <2>6 DEF PodOK, StillUnderPolicy, Live
  <2> QED BY <2>1, <2>4, <2>5, <2>7 DEF PodOK, BehindTheLock, Governed, Gone
<1>8. CASE Egress(c)
  <2>1. UNCHANGED <<engineVars, broker, bound, history>> /\ k.at = "egress"
    BY <1>8 DEF Egress
  <2>2. ~k.reached
    BY <2>1 DEF PlaceOK
  <2>3. /\ cli'[c].pod = p /\ cli'[c].reached = k.reached /\ cli'[c].at \in {"remove", "create"}
        /\ cli'[c].label = k.label /\ cli'[c].crossed = k.crossed
    <3> DEFINE f == Forget(k)
    <3>1. /\ f.pod = p /\ f.reached = k.reached /\ f.label = k.label /\ f.crossed = k.crossed
          /\ f \in Work
      BY LifecycleAssumption DEF Forget, Work
    <3>2. AfterBuild(c) \in {"remove", "create"}
      BY DEF AfterBuild
    <3> HIDE DEF f
    <3>3. \/ cli'[c] = [f EXCEPT !.env = k.env \union {issued + 1}, !.at = AfterBuild(c)]
          \/ cli'[c] = [f EXCEPT !.at = AfterBuild(c)]
      BY <1>8 DEF Egress, f
    <3> QED BY <3>1, <3>2, <3>3 DEF Work
  <2>4. CliHistory(c)' /\ WorkStands(c)'
    BY <1>n, <1>d, <2>1, <2>2, <2>3 DEF CliHistory, WorkStands, history
  <2>5. p \notin made' /\ p \notin downed'
    BY <1>n, <1>d, <2>1 DEF history
  <2>6. Issue(c, issued + 1) \/ owned' = owned
    BY <1>8 DEF Egress
  <2>7. StillUnderPolicy(p)'
    BY <1>t, <2>1, <2>6 DEF PodOK, StillUnderPolicy
  <2> QED BY <2>1, <2>4, <2>5, <2>7 DEF PodOK, BehindTheLock, Governed, Gone
<1>9. CASE Create(c)
  <2>1. /\ UNCHANGED <<nets, linked, brokerVars, downed>> /\ k.at = "create"
        /\ k.net => p \in nets
        /\ box' = [box EXCEPT ![p] = Container(c)]
        /\ made' = IF Container(c).alone THEN made \union {p} ELSE made
    BY <1>9 DEF Create
  <2>2. p \notin made
    BY <1>n, <2>1
  <2>3. /\ box'[p].env = k.env /\ box'[p].net = k.net /\ box'[p].label = k.label
        /\ Container(c).alone => box'[p].label # Nil /\ ~k.crossed
        /\ box'[p].alone = Container(c).alone
    BY <2>1 DEF TypeOK, Container
  <2>4. CliHistory(c)' /\ WorkStands(c)'
    <3>1. CASE k.cmd = "task" /\ cli' = [cli EXCEPT ![c] = Torn(@)]
      <4>1. /\ cli'[c].pod = p /\ cli'[c].cmd = "task" /\ cli'[c].at = "revoke"
            /\ cli'[c].label = Nil /\ ~cli'[c].reached
        BY <3>1 DEF Torn, Idle
      <4> QED BY <1>d, <2>1, <4>1 DEF CliHistory, WorkStands
    <3> QED BY <1>1, <1>9, <3>1 DEF Create
  <2>5. BehindTheLock(p)'
    BY <2>1, <2>3 DEF BehindTheLock, CarryOK
  <2>a. Container(c).alone => bound'[p] = box'[p].label /\ bound'[p] # Nil
    BY <2>1, <2>3 DEF WorkStands
  <2>6. Governed(p)' /\ StillUnderPolicy(p)'
    BY <2>1, <2>2, <2>3, <2>a DEF Governed, StillUnderPolicy
  <2>7. Gone(p)'
    BY <1>d, <2>1 DEF Gone
  <2> QED BY <2>4, <2>5, <2>6, <2>7 DEF PodOK
<1>10. CASE CreateFails(c) \/ GiveUp(c)
  <2>1. UNCHANGED <<box, nets, linked, brokerVars, history>> /\ Return(c)
    BY <1>10 DEF CreateFails, GiveUp, Fail
  <2> QED BY <1>1, <1>d, <2>1 DEF PodOK, BehindTheLock, Governed, StillUnderPolicy, Gone, Live, history
<1>11. CASE Remove(c)
  <2>1. /\ UNCHANGED <<vols, nets, linked, brokerVars, history>> /\ k.at = "remove"
        /\ box'[p] = Nil \/ (k.crossed /\ UNCHANGED box)
    BY <1>11 DEF Remove, TypeOK
  <2>2. \/ Return(c)
        \/ /\ cli'[c].pod = p /\ cli'[c].reached = k.reached
           /\ cli'[c].at \in {"create", "volumes"}
           /\ cli'[c].label = k.label /\ cli'[c].crossed = k.crossed /\ k.cmd # "task"
    <3>1. CASE Return(c)
      BY <3>1
    <3>2. CASE k.cmd \in {"move", "down"} /\ GoTo(c, AfterRemove[k.cmd])
      BY <3>2 DEF AfterRemove, GoTo, Work
    <3> QED BY <1>11, <3>1, <3>2 DEF Remove, AfterRemove
  <2>3. CliHistory(c)' /\ WorkStands(c)'
    BY <1>1, <1>d, <2>1, <2>2 DEF CliHistory, WorkStands, history
  <2> QED BY <1>d, <2>1, <2>3 DEF PodOK, BehindTheLock, Governed, StillUnderPolicy, Gone, Live, history
<1>12. CASE RemoveVolumes(c)
  <2>1. /\ UNCHANGED <<box, nets, linked, brokerVars, history>> /\ k.at = "volumes"
        /\ vols' \subseteq vols /\ p \notin vols'
    BY <1>12 DEF RemoveVolumes
  <2>2. /\ cli'[c].pod = p /\ cli'[c].reached = k.reached
        /\ cli'[c].at = "networks"
        /\ cli'[c].label = k.label /\ cli'[c].crossed = k.crossed
    BY <1>12 DEF RemoveVolumes, GoTo, Work
  <2>3. CliHistory(c)' /\ WorkStands(c)'
    BY <1>n, <1>d, <2>1, <2>2 DEF CliHistory, WorkStands, history
  <2> QED BY <1>d, <2>1, <2>3 DEF PodOK, BehindTheLock, Governed, StillUnderPolicy, Gone, Live, history
<1>13. CASE RemoveNetwork(c)
  <2>1. /\ UNCHANGED <<box, vols, brokerVars, made>> /\ k.at = "networks" /\ Return(c)
        /\ nets' = nets \/ box[p] = Nil
        /\ p \in downed' => ~k.crossed /\ k.reached
    BY <1>13, <1>d DEF RemoveNetwork
  <2>2. BehindTheLock(p)' /\ Governed(p)' /\ StillUnderPolicy(p)'
    BY <2>1 DEF PodOK, BehindTheLock, Governed, StillUnderPolicy, Live
  <2>3. Gone(p)'
    BY <2>1 DEF Gone, WorkStands
  <2> QED BY <1>1, <2>1, <2>2, <2>3 DEF PodOK
<1> QED
  BY <1>3, <1>4, <1>5, <1>6, <1>7, <1>8, <1>9, <1>10, <1>11, <1>12, <1>13 DEF Act, Build

-----------------------------------------------------------------------------
(* The invariant, over each kind of step.                                  *)

(* A crossed command adds nothing to the history.                          *)
LEMMA CrossedKeepsHistory ==
  ASSUME TypeOK, NEW c \in Clis, Act(c), cli[c].crossed
  PROVE  UNCHANGED history
<1>1. CASE Create(c)
  <2>1. ~Container(c).alone
    BY DEF Container
  <2> QED BY <1>1, <2>1 DEF Create, history
<1>2. CASE ~Create(c)
  BY <1>2 DEF Act, Build, PodInfo, RevokePod, EnsureRunning, EnsurePodLockNetwork, ConnectBrokerToPod,
     ApplyIdentity, ApplyConnector, ApplyHTTP, ApplyDatastore, IssueHandle, Skip, BindPolicy, Egress,
     CreateFails, Remove, RemoveVolumes, RemoveNetwork, GiveUp, Fail, history
<1> QED BY <1>1, <1>2

(* What a pod or a command has, it has from the tokens issued so far.      *)
LEMMA ActEnv ==
  ASSUME TypeOK, Shape, EnvInv, NEW c \in Clis, Act(c)
  PROVE  EnvInv'
<1>0. /\ cli \in [Clis -> Work] /\ Pod(c) \in Pods /\ issued \in Nat
      /\ box \in [Pods -> Box \union {Nil}]
  BY ActMoves DEF Shape
<1>1. PICK w : cli' = [cli EXCEPT ![c] = w] /\ Follows(c, w)
  BY ActMoves
<1>2. cli'[c] = w /\ \A d \in Clis \ {c} : cli'[d] = cli[d]
  BY <1>0, <1>1
<1>i. Idle.env = {}
  BY DEF Idle
<1>r. ASSUME Return(c) PROVE cli'[c].env = {}
  BY <1>0, <1>i, <1>r DEF Return
<1>g. ASSUME NEW where, GoTo(c, where) PROVE cli'[c].env = cli[c].env
  BY <1>0, <1>g DEF GoTo, Work
<1>s. SUFFICES /\ issued' = issued \/ issued' = issued + 1
               /\ cli'[c].env \subseteq cli[c].env \union (IF issued' = issued THEN {} ELSE {issued + 1})
               /\ \A p \in Pods : box'[p] # Nil => box'[p] = box[p] \/ box'[p].env = cli[c].env
  BY <1>0, <1>2 DEF EnvInv
<1> USE <1>0 DEF engineVars, brokerVars
<1>3. CASE PodInfo(c)
  BY <1>3 DEF PodInfo, Work
<1>4. CASE RevokePod(c)
  BY <1>4, <1>g DEF RevokePod, Work
<1>5. CASE EnsureRunning(c) \/ EnsurePodLockNetwork(c) \/ ConnectBrokerToPod(c)
  BY <1>5, <1>r, <1>g DEF EnsureRunning, EnsurePodLockNetwork, ConnectBrokerToPod, Work
<1>6. CASE ApplyIdentity(c) \/ ApplyConnector(c)
  BY <1>6, <1>r, <1>g DEF ApplyIdentity, ApplyConnector, ApplyHTTP, ApplyDatastore, IssueHandle,
     Issue, Skip, Work
<1>7. CASE BindPolicy(c)
  BY <1>7, <1>r, <1>g DEF BindPolicy, Skip, Work
<1>8. CASE Egress(c)
  <2> DEFINE f == Forget(cli[c])
  <2>0. cli[c] \in Work
    OBVIOUS
  <2>1. f \in Work /\ f.env = cli[c].env
    BY <2>0 DEF Forget, Work
  <2> HIDE DEF f
  <2>2. CASE /\ Issue(c, issued + 1)
             /\ cli' = [cli EXCEPT ![c] = [f EXCEPT !.env = cli[c].env \union {issued + 1},
                                                     !.at = AfterBuild(c)]]
    BY <1>8, <2>1, <2>2 DEF Egress, Issue, Work
  <2>3. CASE cli' = [cli EXCEPT ![c] = [f EXCEPT !.at = AfterBuild(c)]] /\ issued' = issued
    BY <1>8, <2>1, <2>3 DEF Egress, Work
  <2> QED BY <1>8, <2>2, <2>3 DEF Egress, f
<1>9. CASE Create(c)
  <2>t. Torn(cli[c]).env = {}
    BY DEF Torn, Idle
  <2>1. cli'[c].env = {}
    BY <1>9, <1>r, <2>t DEF Create
  <2>2. Container(c).env = cli[c].env
    BY DEF Container
  <2> QED BY <1>9, <2>1, <2>2 DEF Create
<1>10. CASE CreateFails(c) \/ GiveUp(c) \/ RemoveNetwork(c)
  BY <1>10, <1>r DEF CreateFails, GiveUp, Fail, RemoveNetwork
<1>11. CASE Remove(c) \/ RemoveVolumes(c)
  BY <1>11, <1>r, <1>g DEF Remove, RemoveVolumes
<1> QED
  BY <1>3, <1>4, <1>5, <1>6, <1>7, <1>8, <1>9, <1>10, <1>11 DEF Act, Build

LEMMA ActPreserves ==
  ASSUME IInv, NEW c \in Clis, Act(c)
  PROVE  IInv'
<1>0. /\ TypeOK /\ Shape /\ EnvInv /\ CrossInv /\ Pod(c) \in Pods
      /\ \A d \in Clis : CliHistory(d) /\ WorkStands(d)
      /\ \A q \in Pods : PodOK(q)
  BY IInvAs, ActMoves
<1>1. TypeOK' /\ Shape' /\ EnvInv'
  BY <1>0, ActTypes, ActEnv
<1>2. PICK w : Follows(c, w) /\ cli' = [cli EXCEPT ![c] = w]
  BY <1>0, ActMoves
<1>3. cli'[c] = w /\ \A d \in Clis \ {c} : cli'[d] = cli[d]
  BY <1>0, <1>2 DEF Shape
<1>4. CrossInv'
  <2>1. w.pod \in {Pod(c), Nil} /\ (w.pod # Nil => w.crossed = cli[c].crossed)
    BY <1>2, IdleFollows DEF Follows
  <2> QED BY <1>0, <1>3, <2>1 DEF CrossInv, Pod
<1>5. PICK p \in Pods : Pod(c) = p
  BY <1>0
<1>6. CliHistory(c)' /\ WorkStands(c)' /\ PodOK(p)'
  BY <1>5, ActOnOwnPod
<1>7. ASSUME NEW q \in Pods PROVE PodOK(q)'
  BY <1>0, <1>5, <1>6, <1>7, ActIsLocal, UntouchedPod
<1>8. ASSUME NEW d \in Clis \ {c} PROVE CliHistory(d)' /\ WorkStands(d)'
  <2>1. cli'[d] = cli[d] /\ CliHistory(d) /\ WorkStands(d)
    BY <1>0, <1>3
  <2>2. CASE Pod(d) \in Pods \ {p}
    BY <1>0, <1>5, <2>1, <2>2, ActIsLocal, UntouchedWork
  <2>3. CASE Pod(d) = p
    <3>1. cli[c].crossed /\ cli[d].crossed
      BY <1>0, <1>5, <2>3, LifecycleAssumption DEF CrossInv
    <3>2. WorkStands(d)'
      BY <2>1, <3>1 DEF WorkStands
    <3>3. CliHistory(d)'
      BY <1>0, <1>5, <2>1, <2>3, <3>1, CrossedKeepsHistory DEF CliHistory, Pod, history
    <3> QED BY <3>2, <3>3
  <2>4. CASE Pod(d) = Nil
    <3>1. cli[d].at = "idle" /\ PlaceOK(cli[d]) /\ CarryOK(cli[d])
      BY <1>0, <2>4 DEF Shape, At
    <3>2. cli[d].label = Nil /\ ~cli[d].reached
      BY <3>1 DEF PlaceOK, CarryOK, Building
    <3>3. Nil \notin made' /\ Nil \notin downed'
      BY <1>1, LifecycleAssumption DEF TypeOK
    <3> QED BY <2>1, <2>4, <3>1, <3>2, <3>3 DEF WorkStands, CliHistory, Pod
  <2> QED BY <1>0, <2>2, <2>3, <2>4 DEF Shape, Work, Pod
<1> QED
  BY <1>1, <1>4, <1>5, <1>6, <1>7, <1>8, IInvAsPrimed

LEMMA BeginPreserves ==
  ASSUME IInv, NEW c \in Clis, NEW w \in Work, PlaceOK(w), CarryOK(w), w.pod \in Pods,
         w.at \notin {"idle", "volumes", "networks"}, w.label = Nil, w.env = {}, ~w.reached, Begin(c, w)
  PROVE  IInv'
<1> DEFINE others == {d \in Clis : Pod(d) = w.pod}
           n == [w EXCEPT !.crossed = (others # {})]
           o(d) == [cli[d] EXCEPT !.crossed = @ \/ d \in others]
<1>0. /\ TypeOK /\ Shape /\ EnvInv /\ CrossInv /\ w.pod # Nil
      /\ \A d \in Clis : CliHistory(d) /\ WorkStands(d)
      /\ \A q \in Pods : PodOK(q)
  BY IInvAs, LifecycleAssumption
<1>1. /\ Pod(c) = Nil /\ UNCHANGED <<engineVars, brokerVars>>
      /\ made' = made \ {w.pod} /\ downed' = downed \ {w.pod}
      /\ cli' = [d \in Clis |-> IF d = c THEN n ELSE o(d)]
  BY <1>0 DEF Begin, Shape
<1>2. /\ n \in Work /\ n.at = w.at /\ n.pod = w.pod /\ n.label = Nil /\ n.env = {} /\ ~n.reached /\ n.cmd = w.cmd
      /\ PlaceOK(n) /\ CarryOK(n) /\ n.crossed = (others # {})
  BY DEF Work, PlaceOK, CarryOK
<1>3. ASSUME NEW d \in Clis
      PROVE  /\ o(d) \in Work /\ PlaceOK(o(d)) /\ CarryOK(o(d))
             /\ o(d).at = cli[d].at /\ o(d).pod = cli[d].pod /\ o(d).label = cli[d].label
             /\ o(d).env = cli[d].env
             /\ o(d).cmd = cli[d].cmd /\ o(d).reached = cli[d].reached
             /\ o(d).crossed = (cli[d].crossed \/ d \in others)
  BY <1>0, ZenonT(40) DEF Shape, Work, PlaceOK, CarryOK
<1>4. cli'[c] = n /\ \A d \in Clis \ {c} : cli'[d] = o(d)
  BY <1>1
<1>o. \A d \in Clis : d \in others <=> cli[d].pod = w.pod
  BY DEF Pod
<1> HIDE DEF n, o, others
<1>5. cli' \in [Clis -> Work]
  BY <1>1, <1>2, <1>3
<1>6. TypeOK' /\ Shape'
  BY <1>0, <1>1, <1>2, <1>3, <1>4, <1>5 DEF TypeOK, Shape, At, Pod, engineVars, brokerVars
<1>7. CrossInv'
  <2>1. \A d \in Clis \ {c} : cli'[d].pod = cli[d].pod /\ (cli[d].crossed => cli'[d].crossed)
                              /\ (cli[d].pod = w.pod => cli'[d].crossed)
    BY <1>3, <1>4, <1>o, ZenonT(40)
  <2>2. cli'[c].pod = w.pod
    BY <1>2, <1>4
  <2>3. \A d \in Clis \ {c} : cli[d].pod = w.pod => cli'[c].crossed
    BY <1>2, <1>4, <1>o
  <2> QED BY <1>0, <2>1, <2>2, <2>3 DEF CrossInv, Pod
<1>8. ASSUME NEW d \in Clis PROVE CliHistory(d)' /\ WorkStands(d)'
  <2>1. CASE d = c
    BY <1>1, <1>2, <1>4, <2>1 DEF CliHistory, WorkStands, Pod
  <2>2. CASE d # c
    <3>1. /\ cli'[d].at = cli[d].at /\ cli'[d].pod = cli[d].pod /\ cli'[d].label = cli[d].label
          /\ cli'[d].cmd = cli[d].cmd
          /\ cli'[d].reached = cli[d].reached
          /\ (cli[d].crossed => cli'[d].crossed)
      BY <1>3, <1>4, <2>2
    <3>2. CliHistory(d)'
      BY <1>0, <1>1, <3>1 DEF CliHistory, Pod
    <3>3. WorkStands(d)'
      BY <1>0, <1>1, <3>1 DEF WorkStands, Pod, engineVars, brokerVars
    <3> QED BY <3>2, <3>3
  <2> QED BY <2>1, <2>2
<1>9. \A q \in Pods : PodOK(q)'
  BY <1>0, <1>1 DEF PodOK, BehindTheLock, Governed, StillUnderPolicy, Gone, Live, engineVars, brokerVars
<1>e. EnvInv'
  BY <1>0, <1>1, <1>2, <1>3, <1>4 DEF EnvInv, engineVars, brokerVars
<1> QED
  BY <1>6, <1>7, <1>8, <1>9, <1>e, IInvAsPrimed

(* What a command begins with.                                             *)
LEMMA Begins ==
  ASSUME IInv, NEW c \in Clis, NEW p \in Pods, Up(c, p) \/ Task(c, p) \/ Move(c, p) \/ Down(c, p) \/ DownById(c, p)
  PROVE  IInv'
<1> USE LifecycleAssumption
<1> DEFINE Fit(w) == /\ w \in Work /\ PlaceOK(w) /\ CarryOK(w) /\ w.pod \in Pods
                     /\ w.at \notin {"idle", "volumes", "networks"} /\ w.label = Nil /\ w.env = {} /\ ~w.reached
<1>1. ASSUME NEW cmd \in {"up", "task"}, NEW ident \in BOOLEAN, NEW conn \in Connectors,
             NEW named \in Named \union {Ambient, Nil}, NEW at \in {"ensure", "create"}
      PROVE  Fit([Idle EXCEPT !.cmd = cmd, !.pod = p, !.ident = ident, !.conn = conn,
                              !.named = named, !.at = at])
  BY DEF Idle, Work, PlaceOK, CarryOK, Places, Policies, Commands, Building
<1>2. CASE Up(c, p)
  <2>1. PICK ident \in BOOLEAN, conn \in Connectors, named \in Named \union {Ambient, Nil} :
          LET w == [Idle EXCEPT !.cmd = "up", !.pod = p, !.ident = ident, !.conn = conn,
                                !.named = named]
          IN Begin(c, [w EXCEPT !.at = Resolved(w)])
    BY <1>2 DEF Up
  <2> DEFINE w == [Idle EXCEPT !.cmd = "up", !.pod = p, !.ident = ident, !.conn = conn,
                               !.named = named]
  <2>2. Resolved(w) \in {"ensure", "create"}
    BY DEF Resolved, Idle
  <2>3. Fit([w EXCEPT !.at = Resolved(w)])
    <3>1. [w EXCEPT !.at = Resolved(w)] =
            [Idle EXCEPT !.cmd = "up", !.pod = p, !.ident = ident, !.conn = conn,
                         !.named = named, !.at = Resolved(w)]
      BY DEF Idle
    <3>2. Fit([Idle EXCEPT !.cmd = "up", !.pod = p, !.ident = ident, !.conn = conn,
                           !.named = named, !.at = Resolved(w)])
      <4> HIDE DEF w, Fit
      <4> QED BY <1>1, <2>2
    <3> HIDE DEF w, Fit
    <3> QED BY <3>1, <3>2
  <2>4. Begin(c, [w EXCEPT !.at = Resolved(w)])
    BY <2>1
  <2> QED BY <2>3, <2>4, BeginPreserves
<1>3. CASE Task(c, p)
  <2>1. PICK conn \in Connectors, named \in Named \union {Ambient, Nil}, cmd \in {"task", "up"} :
          Begin(c, [Idle EXCEPT !.cmd = cmd, !.pod = p, !.ident = TRUE, !.conn = conn,
                                !.named = named, !.at = "ensure"])
    BY <1>3 DEF Task
  <2> QED BY <1>1, <2>1, BeginPreserves
<1>4. CASE Move(c, p)
  <2>1. Fit([Idle EXCEPT !.cmd = "move", !.pod = p, !.at = "info"])
    BY DEF Idle, Work, PlaceOK, CarryOK, Places, Policies, Commands, Building
  <2> QED BY <1>4, <2>1, BeginPreserves DEF Move
<1>5. CASE Down(c, p)
  <2>1. Fit([Idle EXCEPT !.cmd = "down", !.pod = p, !.at = "revoke"])
    BY DEF Idle, Work, PlaceOK, CarryOK, Places, Policies, Commands, Building
  <2> QED BY <1>5, <2>1, BeginPreserves DEF Down
<1>6. CASE DownById(c, p)
  <2>1. Fit([Idle EXCEPT !.cmd = "down by id", !.pod = p, !.at = "remove"])
    BY DEF Idle, Work, PlaceOK, CarryOK, Places, Policies, Commands, Building
  <2> QED BY <1>6, <2>1, BeginPreserves DEF DownById
<1> QED BY <1>2, <1>3, <1>4, <1>5, <1>6

(* The broker falls: what it held is gone, and every command is crossed.   *)
LEMMA CrashPreserves ==
  ASSUME IInv, BrokerCrash
  PROVE  IInv'
<1> DEFINE o(d) == [cli[d] EXCEPT !.crossed = ~At(d, "idle")]
<1>0. /\ TypeOK /\ Shape /\ EnvInv /\ CrossInv
      /\ \A d \in Clis : CliHistory(d) /\ WorkStands(d)
      /\ \A q \in Pods : PodOK(q)
  BY IInvAs
<1>1. /\ UNCHANGED <<engineVars, issued, history>> /\ broker' = "stopped"
      /\ \A q \in Pods : owned'[q] = {} /\ bound'[q] = Nil
      /\ owned' \in [Pods -> SUBSET Tokens] /\ bound' \in [Pods -> Policies]
      /\ cli' = [d \in Clis |-> o(d)]
  BY DEF BrokerCrash, Policies
<1>2. ASSUME NEW d \in Clis
      PROVE  /\ o(d) \in Work /\ PlaceOK(o(d)) /\ CarryOK(o(d))
             /\ o(d).at = cli[d].at /\ o(d).pod = cli[d].pod /\ o(d).label = cli[d].label
             /\ o(d).cmd = cli[d].cmd /\ o(d).reached = cli[d].reached
             /\ o(d).env = cli[d].env
             /\ (Pod(d) # Nil => o(d).crossed = TRUE)
  <2>1. cli[d] \in Work /\ PlaceOK(cli[d]) /\ CarryOK(cli[d]) /\ (cli[d].at = "idle" <=> Pod(d) = Nil)
    BY <1>0 DEF Shape, At
  <2>2. (~At(d, "idle")) \in BOOLEAN /\ (Pod(d) # Nil => (~At(d, "idle")) = TRUE)
    BY <2>1, Zenon DEF At
  <2> DEFINE b == ~At(d, "idle")
  <2>3. /\ o(d) \in Work /\ o(d).at = cli[d].at /\ o(d).pod = cli[d].pod
        /\ o(d).label = cli[d].label /\ o(d).cmd = cli[d].cmd /\ o(d).reached = cli[d].reached
        /\ o(d).net = cli[d].net /\ o(d).env = cli[d].env /\ o(d).crossed = b
    <3> HIDE DEF b
    <3> QED BY <2>1, <2>2 DEF Work, b
  <2> HIDE DEF o
  <2> QED BY <2>1, <2>2, <2>3 DEF PlaceOK, CarryOK
<1>3. \A d \in Clis : cli'[d] = o(d)
  BY <1>1
<1> HIDE DEF o
<1>4. cli' \in [Clis -> Work]
  BY <1>1, <1>2
<1>5. TypeOK' /\ Shape'
  <2>1. \A d \in Clis : /\ (cli'[d].at = "idle" <=> cli'[d].pod = Nil)
                         /\ PlaceOK(cli'[d]) /\ CarryOK(cli'[d])
    <3> SUFFICES ASSUME NEW d \in Clis
                 PROVE  /\ (cli'[d].at = "idle" <=> cli'[d].pod = Nil)
                        /\ PlaceOK(cli'[d]) /\ CarryOK(cli'[d])
      OBVIOUS
    <3>1. cli'[d] = o(d) /\ (cli[d].at = "idle" <=> cli[d].pod = Nil)
      BY <1>0, <1>3 DEF Shape, At, Pod
    <3>2. PlaceOK(o(d)) /\ CarryOK(o(d)) /\ o(d).at = cli[d].at /\ o(d).pod = cli[d].pod
      BY <1>2
    <3> QED BY <3>1, <3>2
  <2>2. /\ box' = box /\ vols' = vols /\ nets' = nets /\ linked' = linked /\ issued' = issued
        /\ made' = made /\ downed' = downed /\ \A q \in Pods : owned'[q] \subseteq 1..issued
    BY <1>1 DEF engineVars, history
  <2> QED BY <1>0, <1>1, <1>4, <2>1, <2>2 DEF TypeOK, Shape, At, Pod
<1>6. CrossInv'
  BY <1>2, <1>3 DEF CrossInv, Pod
<1>7. ASSUME NEW d \in Clis PROVE CliHistory(d)' /\ WorkStands(d)'
  <2>1. CliHistory(d)'
    BY <1>0, <1>1, <1>2, <1>3 DEF CliHistory, Pod, history
  <2>2. CASE Pod(d) # Nil
    <3>1. cli'[d].crossed = TRUE
      BY <1>2, <1>3, <2>2
    <3> QED BY <2>1, <3>1 DEF WorkStands
  <2>3. CASE Pod(d) = Nil
    <3>1. cli[d].at = "idle" /\ PlaceOK(cli[d]) /\ CarryOK(cli[d])
      BY <1>0, <2>3 DEF Shape, At
    <3>2. cli'[d].label = Nil /\ ~cli'[d].reached /\ cli'[d].at = "idle"
      BY <1>2, <1>3, <3>1 DEF PlaceOK, CarryOK, Building
    <3> QED BY <2>1, <3>2 DEF WorkStands
  <2> QED BY <2>1, <2>2, <2>3
<1>8. ASSUME NEW q \in Pods PROVE PodOK(q)'
  BY <1>0, <1>1 DEF PodOK, BehindTheLock, Governed, StillUnderPolicy, Gone, Live, engineVars, history
<1>e. EnvInv'
  BY <1>0, <1>1, <1>2, <1>3 DEF EnvInv, engineVars
<1> QED
  BY <1>5, <1>6, <1>7, <1>8, <1>e, IInvAsPrimed

-----------------------------------------------------------------------------
LEMMA Initially == Init => IInv
<1> SUFFICES ASSUME Init PROVE IInv
  OBVIOUS
<1> USE LifecycleAssumption, IdleFollows DEF Init
<1>1. TypeOK
  BY DEF TypeOK, Policies, At, Pod
<1>2. \A c \in Clis : cli[c] = Idle
  OBVIOUS
<1>3. CrossInv /\ HistoryInv /\ \A c \in Clis : WorkStands(c)
  BY <1>2 DEF CrossInv, HistoryInv, WorkStands, Pod, Idle
<1>4. /\ TokensAreBehindTheLock /\ LivePodIsGoverned /\ NeverUngoverned
      /\ DownLeavesNothing /\ EnvInv
  BY DEF EnvInv, Idle, Live, TokensAreBehindTheLock, LivePodIsGoverned, NeverUngoverned, DownLeavesNothing
<1> QED
  BY <1>1, <1>2, <1>3, <1>4 DEF IInv

LEMMA StepPreserves == IInv /\ [Next]_vars => IInv'
<1> SUFFICES ASSUME IInv, [Next]_vars PROVE IInv'
  OBVIOUS
<1>1. CASE UNCHANGED vars
  BY <1>1 DEF vars, engineVars, brokerVars, history, IInv, TypeOK, EnvInv, CrossInv, HistoryInv, WorkStands,
     TokensAreBehindTheLock, LivePodIsGoverned, NeverUngoverned, DownLeavesNothing, Live, At, Pod
<1>2. CASE BrokerCrash
  BY <1>2, CrashPreserves
<1>3. ASSUME NEW c \in Clis, NEW p \in Pods, Up(c, p) \/ Task(c, p) \/ Move(c, p) \/ Down(c, p) \/ DownById(c, p)
      PROVE  IInv'
  BY <1>3, Begins
<1>4. ASSUME NEW c \in Clis, Act(c) PROVE IInv'
  BY <1>4, ActPreserves
<1> QED
  BY <1>1, <1>2, <1>3, <1>4 DEF Next, Act

(* What the theorems below rest on.                                   *)
THEOREM Inductive == Spec => []IInv
BY Initially, StepPreserves, PTL DEF Spec

(* Every variable of the commands, the engine and the broker keeps its     *)
(* type, and a command has a pod from its beginning to its end.            *)
THEOREM TypeCorrect == Spec => []TypeOK
<1>1. IInv => TypeOK
  BY DEF IInv
<1> QED BY Inductive, <1>1, PTL

(* A pod with a live token is under the policy on its label, if the        *)
(* command that made it was uncrossed and none has been at it since, for   *)
(* any number of commands and pods.                                        *)
THEOREM LivePodsGoverned == Spec => []LivePodIsGoverned
<1>1. IInv => LivePodIsGoverned
  BY DEF IInv
<1> QED BY Inductive, <1>1, PTL

(* A pod that an uncrossed command made under a policy never has a live    *)
(* token and no policy, whatever commands and crashes come after.          *)
THEOREM NeverWithoutPolicy == Spec => []NeverUngoverned
<1>1. IInv => NeverUngoverned
  BY DEF IInv
<1> QED BY Inductive, <1>1, PTL

(* A pod with a token has a lock network, which stays as long as it does,  *)
(* whoever takes networks down meanwhile.                                  *)
THEOREM TokensLocked == Spec => []TokensAreBehindTheLock
<1>1. IInv => TokensAreBehindTheLock
  BY DEF IInv
<1> QED BY Inductive, <1>1, PTL

(* A down by name that was alone at its pod and reached the broker leaves  *)
(* nothing under the name, and nothing comes back until a command begins   *)
(* on the pod.                                                             *)
THEOREM DownIsClean == Spec => []DownLeavesNothing
<1>1. IInv => DownLeavesNothing
  BY DEF IInv
<1> QED BY Inductive, <1>1, PTL
=============================================================================
