---------------------------- MODULE ComponentProofs ----------------------------
(***************************************************************************)
(* What is proved of the six components of MCComponents.  A datastore      *)
(* session's streams are joined where they begin, and only after both      *)
(* sides have been authenticated; the daemon does not end quietly when its *)
(* keeper has died; a policy of any size decides by names alone; the       *)
(* default that an up binds is the one in effect; a pod trusts the CA the  *)
(* broker signs with; and a pod is seeded with the newest token of its     *)
(* grant.                                                                  *)
(***************************************************************************)
EXTENDS MCComponents, SequenceTheorems, FiniteSetTheorems, TLAPS

-----------------------------------------------------------------------------
(* A datastore session.                                                    *)

Before == {"free", "startup", "password"}

(* What has been read of the pod's stream at each stage.                   *)
L4Position ==
  /\ l4at \in Stages4
  /\ pre \in Nat /\ podRead \in Nat /\ podBuf \in Nat /\ podSent \in Nat
  /\ l4at = "free" => podRead = 0
  /\ l4at = "startup" => podRead < pre - 1
  /\ l4at = "password" => podRead = pre - 1
  /\ l4at \notin Before \union {"closed"} => podRead = pre

(* Nothing is forwarded before the splice.                                 *)
L4Forwarded ==
  /\ toUp \in Seq(Nat) /\ toPod \in Seq(Nat)
  /\ l4at \notin {"splice", "closed"} => toUp = << >> /\ toPod = << >>

(* What has been established by each stage.                                *)
L4Established ==
  /\ admitted \in BOOLEAN /\ accepted \in BOOLEAN
  /\ l4at \notin Before \union {"resolve", "closed"} => admitted
  /\ l4at \in {"tell", "splice"} => accepted
  /\ l4at \notin {"splice", "closed"} => told = "nothing"

L4Inv == L4Position /\ L4Forwarded /\ L4Established /\ SpliceKeepsStream /\ SessionAuthenticated

USE DEF Before, Stages4

LEMMA L4InitInv == L4Init => L4Inv
<1> SUFFICES ASSUME L4Init PROVE L4Inv
  OBVIOUS
<1>1. L4Position /\ L4Forwarded /\ L4Established
  <2>1. L4Position
    BY DEF L4Init, L4Position
  <2>2. L4Forwarded
    BY DEF L4Init, L4Forwarded
  <2>3. L4Established
    BY DEF L4Init, L4Established
  <2> QED
    BY <2>1, <2>2, <2>3
<1>2. Len(toUp) = 0 /\ Len(toPod) = 0
  BY DEF L4Init
<1>3. SpliceKeepsStream
  BY <1>2 DEF SpliceKeepsStream
<1>4. SessionAuthenticated
  BY DEF L4Init, SessionAuthenticated
<1> QED
  BY <1>1, <1>3, <1>4 DEF L4Inv

LEMMA L4PositionStep ==
  ASSUME L4Inv, [L4Next]_l4vars
  PROVE  L4Position'
<1> USE DEF L4Inv, L4Position, l4vars, podStream, l4auth
<1>1. ASSUME NEW wire, NEW n \in 1..3, (wire = "redis") = (n = 1), Accept(wire, n) PROVE L4Position'
  BY <1>1 DEF Accept
<1>2. CASE FillPodBuffer
  BY <1>2 DEF FillPodBuffer
<1>3. CASE ReadStartup
  BY <1>3 DEF ReadStartup
<1>4. CASE ReadHandle \/ ReadFails \/ ResolveHandle \/ Dial
  BY <1>4 DEF ReadHandle, ReadFails, ResolveHandle, Dial, Close
<1>5. CASE Auth4
  BY <1>5 DEF Auth4, UpstreamAccepts, AsksSASL, ServerFirst, ServerFinal, UpstreamOK,
              UpstreamFails, TellPod, Close
<1>6. CASE UpstreamSends \/ ForwardUp \/ ForwardDown \/ SpliceEnds \/ L4Revoke \/ PodSends
  BY <1>6 DEF UpstreamSends, ForwardUp, ForwardDown, SpliceEnds, L4Revoke, PodSends
<1>7. CASE NextSession
  BY <1>7 DEF NextSession
<1>8. CASE UNCHANGED l4vars
  BY <1>8
<1> QED
  BY <1>1, <1>2, <1>3, <1>4, <1>5, <1>6, <1>7, <1>8 DEF L4Next

LEMMA L4ForwardedStep ==
  ASSUME L4Inv, [L4Next]_l4vars
  PROVE  L4Forwarded' /\ SpliceKeepsStream'
<1> USE DEF L4Inv, L4Position, L4Forwarded, SpliceKeepsStream, l4vars, podStream, l4auth
<1>1. ASSUME NEW wire, NEW n, Accept(wire, n) PROVE L4Forwarded' /\ SpliceKeepsStream'
  BY <1>1 DEF Accept
<1>2. CASE PodSends \/ FillPodBuffer \/ ReadStartup \/ ReadHandle \/ ReadFails \/ ResolveHandle \/ Dial
  BY <1>2 DEF PodSends, FillPodBuffer, ReadStartup, ReadHandle, ReadFails, ResolveHandle, Dial, Close
<1>3. CASE Auth4
  BY <1>3 DEF Auth4, UpstreamAccepts, AsksSASL, ServerFirst, ServerFinal, UpstreamOK,
              UpstreamFails, TellPod, Close
<1>4. CASE ForwardUp
  <2>1. podRead = pre /\ l4at' = l4at /\ pre' = pre /\ toPod' = toPod
    BY <1>4 DEF ForwardUp
  <2>2. toUp' = Append(toUp, pre + Len(toUp) + 1)
    BY <1>4, <2>1 DEF ForwardUp
  <2>3. L4Forwarded'
    BY <2>1, <2>2, <1>4 DEF ForwardUp
  <2>4. ASSUME NEW i \in 1..Len(toUp') PROVE toUp'[i] = pre' + i
    <3>1. Len(toUp') = Len(toUp) + 1
      BY <2>2
    <3>2. CASE i = Len(toUp) + 1
      BY <3>2, <2>1, <2>2
    <3>3. CASE i # Len(toUp) + 1
      BY <3>1, <3>3, <2>1, <2>2
    <3> QED
      BY <3>2, <3>3
  <2> QED
    BY <2>1, <2>3, <2>4
<1>5. CASE ForwardDown
  BY <1>5, SMTT(20) DEF ForwardDown
<1>6. CASE UpstreamSends \/ SpliceEnds \/ L4Revoke
  BY <1>6 DEF UpstreamSends, SpliceEnds, L4Revoke
<1>7. CASE NextSession
  BY <1>7 DEF NextSession
<1>8. CASE UNCHANGED l4vars
  BY <1>8
<1> QED
  BY <1>1, <1>2, <1>3, <1>4, <1>5, <1>6, <1>7, <1>8 DEF L4Next

LEMMA L4EstablishedStep ==
  ASSUME L4Inv, [L4Next]_l4vars
  PROVE  L4Established' /\ SessionAuthenticated'
<1> USE DEF L4Inv, L4Position, L4Forwarded, L4Established, SessionAuthenticated, l4vars,
            podStream, l4auth
<1>1. ASSUME NEW wire, NEW n, Accept(wire, n) PROVE L4Established' /\ SessionAuthenticated'
  BY <1>1 DEF Accept
<1>2. CASE PodSends \/ FillPodBuffer \/ ReadStartup \/ ReadHandle \/ ReadFails \/ ResolveHandle \/ Dial
  BY <1>2 DEF PodSends, FillPodBuffer, ReadStartup, ReadHandle, ReadFails, ResolveHandle, Dial, Close
<1>3. CASE Auth4
  BY <1>3 DEF Auth4, UpstreamAccepts, AsksSASL, ServerFirst, ServerFinal, UpstreamOK,
              UpstreamFails, TellPod, Close
<1>4. CASE UpstreamSends \/ ForwardUp \/ ForwardDown \/ SpliceEnds \/ L4Revoke
  BY <1>4 DEF UpstreamSends, ForwardUp, ForwardDown, SpliceEnds, L4Revoke
<1>5. CASE NextSession
  BY <1>5 DEF NextSession
<1>6. CASE UNCHANGED l4vars
  BY <1>6
<1> QED
  BY <1>1, <1>2, <1>3, <1>4, <1>5, <1>6 DEF L4Next

THEOREM L4Invariant == L4Spec => []L4Inv
<1>1. L4Inv /\ [L4Next]_l4vars => L4Inv'
  BY L4PositionStep, L4ForwardedStep, L4EstablishedStep DEF L4Inv
<1> QED
  BY L4InitInv, <1>1, PTL DEF L4Spec

(* What splice forwards, whatever the buffers held when the pod and the    *)
(* upstream had been answered, is each side's session from its beginning.  *)
THEOREM L4StreamsKept == L4Spec => []SpliceKeepsStream
<1>1. L4Inv => SpliceKeepsStream
  BY DEF L4Inv
<1> QED
  BY L4Invariant, <1>1, PTL

(* ServeRedis and ServePostgres forward nothing of the pod's session, and  *)
(* tell it nothing good, before handle and credential have been taken.     *)
THEOREM L4Authenticated == L4Spec => []SessionAuthenticated
<1>1. L4Inv => SessionAuthenticated
  BY DEF L4Inv
<1> QED
  BY L4Invariant, <1>1, PTL

HIDE DEF Before, Stages4

-----------------------------------------------------------------------------
(* Serve.                                                                  *)

(* The context ends by an interrupt, or after the keeper's death has been  *)
(* noted; and the server is closed only when it has ended.                 *)
ServeInv ==
  /\ watch = "reported" => notice
  /\ cancelled => signalled \/ notice
  /\ stage = "select" \/ (stage = "accept" /\ ~listening) => cancelled
  /\ exit = "zero" => signalled

LEMMA ServeInitial == ServeInit => ServeInv
  BY DEF ServeInit, ServeInv

LEMMA ServeStep == ServeInv /\ [ServeNext]_serveVars => ServeInv'
<1> SUFFICES ASSUME ServeInv, [ServeNext]_serveVars PROVE ServeInv'
  OBVIOUS
<1> USE DEF ServeInv
<1>1. CASE OpenStore \/ StartBroker \/ StartDaemon \/ Listen
  BY <1>1 DEF OpenStore, StartBroker, StartDaemon, Listen
<1>2. CASE AcceptEnds
  BY <1>2 DEF AcceptEnds
<1>3. CASE Select \/ ServeFails
  BY <1>3 DEF Select, ServeFails
<1>4. CASE Supervise
  BY <1>4 DEF Supervise, SeeDeath, Report, TearDown, StandDown
<1>5. CASE Shutdown
  BY <1>5 DEF Shutdown, CloseServer, StopBroker, Tidy
<1>6. CASE Interrupt \/ KeeperExits
  BY <1>6 DEF Interrupt, KeeperExits
<1>7. CASE UNCHANGED serveVars
  BY <1>7 DEF serveVars
<1> QED
  BY <1>1, <1>2, <1>3, <1>4, <1>5, <1>6, <1>7 DEF ServeNext

(* The daemon never says it ended well when nobody asked it to: whatever   *)
(* fails, and however the keeper's death, an interrupt and the two         *)
(* goroutines interleave.                                                  *)
THEOREM DeathComesOut == ServeSpec => []DeathIsReported
<1>1. ServeInv => DeathIsReported
  BY DEF ServeInv, DeathIsReported
<1> QED
  BY <1>1, ServeInitial, ServeStep, PTL DEF ServeSpec

-----------------------------------------------------------------------------
(* The rules of a policy.                                                  *)

(* A name ends, from the root down, in another exactly if it lies below.   *)
LEMMA SuffixIsBelow ==
  ASSUME NEW name \in Seq(Labels), NEW top \in Seq(Labels)
  PROVE  Len(top) <= Len(name) /\ SubSeq(name, 1, Len(top)) = top <=> LiesBelow(name, top)
<1>1. Len(name) \in Nat /\ Len(top) \in Nat
  BY LenProperties
<1>2. ASSUME Len(top) <= Len(name), SubSeq(name, 1, Len(top)) = top
      PROVE  LiesBelow(name, top)
  <2>1. Len(top) + 1 \in 1..(Len(name) + 1)
    BY <1>1, <1>2
  <2>2. name = top \o SubSeq(name, Len(top) + 1, Len(name))
    <3>1. /\ 1 \in 1..(Len(name) + 1) /\ Len(top) \in 0..Len(name)
          /\ Len(name) \in Len(top)..Len(name)
      BY <1>1, <1>2
    <3>2. 1 - 1 = 0
      OBVIOUS
    <3>3. SubSeq(name, 1, Len(top)) \o SubSeq(name, Len(top) + 1, Len(name)) = SubSeq(name, 1, Len(name))
      BY <3>1, <3>2, ConcatAdjacentSubSeq
    <3> QED
      BY <1>2, <3>3, SubSeqFull
  <2> QED
    BY <2>1, <2>2 DEF LiesBelow
<1>3. ASSUME LiesBelow(name, top)
      PROVE  Len(top) <= Len(name) /\ SubSeq(name, 1, Len(top)) = top
  <2>1. PICK i \in 1..(Len(name) + 1) : name = top \o SubSeq(name, i, Len(name))
    BY <1>3 DEF LiesBelow
  <2> DEFINE rest == SubSeq(name, i, Len(name))
  <2>2. rest \in Seq(Labels) /\ Len(rest) \in Nat
    <3>1. \A j \in i..Len(name) : name[j] \in Labels
      BY <1>1, ElementOfSeq
    <3>2. rest \in Seq(Labels)
      BY <1>1, <3>1, SubSeqProperties
    <3> QED
      BY <3>2, LenProperties
  <2> HIDE DEF rest
  <2>3. Len(name) = Len(top) + Len(rest) /\ \A j \in 1..Len(top) : name[j] = top[j]
    <3>1. name = top \o rest
      BY <2>1 DEF rest
    <3> QED
      BY <1>1, <2>2, <3>1, ConcatProperties
  <2>4. \A j \in 1..Len(top) : name[j] \in Labels
    BY <2>3, ElementOfSeq
  <2> DEFINE head == SubSeq(name, 1, Len(top))
  <2>5. /\ head \in Seq(Labels) /\ Len(head) = IF 1 <= Len(top) THEN Len(top) - 1 + 1 ELSE 0
        /\ \A j \in 1..(Len(top) - 1 + 1) : head[j] = name[1 + j - 1]
    BY <1>1, <2>4, SubSeqProperties
  <2> HIDE DEF head
  <2>6. head = top
    <3>1. Len(head) = Len(top)
      BY <1>1, <2>5
    <3>2. \A j \in 1..Len(head) : head[j] = top[j]
      BY <1>1, <2>3, <2>5, <3>1
    <3> QED
      BY <2>5, <3>1, <3>2, SeqEqual
  <2> QED
    BY <1>1, <2>2, <2>3, <2>6 DEF head
<1> QED
  BY <1>2, <1>3

LEMMA KeyTypes ==
  ASSUME NEW k \in Keys
  PROVE  k.of \in Seq(Labels) /\ k.sub \in BOOLEAN
<1>1. CASE k \in Patterns
  BY <1>1, RulesAssumption DEF Patterns
<1>2. CASE k = Star
  <2>1. Star.of = << >> /\ Star.sub
    BY DEF Star
  <2>2. << >> \in Seq(Labels)
    BY EmptySeq
  <2> QED
    BY <1>2, <2>1, <2>2
<1> QED
  BY <1>1, <1>2 DEF Keys

(* How a host and a rule are spelled does not matter to a match.           *)
LEMMA MatchIsCover ==
  ASSUME NEW host \in WrittenHosts, NEW p \in Keys
  PROVE  Matches(host, p) <=> Covers(p, host.of)
<1> DEFINE h == CanonicalHost(host)
           q == CanonicalHost(p)
<1>1. /\ h.of = host.of /\ h.as = Plain
      /\ q.of = p.of /\ q.as = Plain /\ q.sub = p.sub
  BY DEF CanonicalHost, WrittenHosts, Keys, Patterns, Star
<1>2. host.of \in Seq(Labels) /\ p.of \in Seq(Labels)
  BY RulesAssumption, KeyTypes DEF WrittenHosts
<1>3. p.sub \in BOOLEAN
  BY KeyTypes
<1>4. HasSuffix(h, q) <=> LiesBelow(host.of, p.of)
  BY <1>1, <1>2, SuffixIsBelow DEF HasSuffix
<1>5. Same(h, q) <=> host.of = p.of
  BY <1>1 DEF Same
<1> HIDE DEF h, q
<1>6. Matches(host, p) <=> (~q.sub /\ Same(h, q)) \/ (q.sub /\ HasSuffix(h, q))
  BY DEF Matches, h, q
<1> QED
  BY <1>1, <1>3, <1>4, <1>5, <1>6 DEF Covers

(* A policy as the store can hold it: any number of rules of every kind.   *)
PolicyRulesOf(policy) ==
  policy.deny \subseteq Keys /\ policy.allow \subseteq Keys /\ DOMAIN policy.methods \subseteq Keys

(* Whatever the policy: a verdict is the one the names call for.  An exact *)
(* rule outranks a suffix, and a suffix the catch-all.                     *)
THEOREM PolicyDecidesByName ==
  ASSUME NEW policy, PolicyRulesOf(policy), NEW host \in WrittenHosts, NEW verb,
         NEW verdict \in Verdicts(policy, host, verb)
  PROVE  verdict \in BOOLEAN /\ DecidedByName(policy, host.of, verb, verdict)
<1> DEFINE name == host.of
           m == policy.methods
           hit == {k \in DOMAIN m : Covers(k, name)}
           rank(k) == IF k = Star THEN 0 ELSE IF k.sub THEN 1 ELSE 2
           first == {k \in hit : \A o \in hit : rank(o) <= rank(k)}
           rules == DOMAIN m \ {Star}
           exact == {k \in rules : ~k.sub /\ Matches(host, k)}
           suffix == {k \in rules : k.sub /\ Matches(host, k)}
           best == IF exact # {} THEN exact ELSE IF suffix # {} THEN suffix
                   ELSE DOMAIN m \intersect {Star}
           denied == \E p \in policy.deny : Covers(p, name)
           listed == policy.allow = {} \/ \E p \in policy.allow : Covers(p, name)
<1>1. \A k \in DOMAIN m : k \in Keys /\ k.sub \in BOOLEAN /\ (Matches(host, k) <=> Covers(k, name))
  BY MatchIsCover, KeyTypes DEF PolicyRulesOf
<1>2. Star \in DOMAIN m => Star \in hit
  <2>1. Star \in Keys /\ Star.sub /\ Star.of = << >>
    BY DEF Keys, Star
  <2>2. name \in Seq(Labels) /\ << >> \in Seq(Labels) /\ Len(<< >>) = 0
    BY RulesAssumption, EmptySeq DEF WrittenHosts
  <2>3. Len(name) \in Nat /\ SubSeq(name, 1, 0) = << >>
    BY <2>2, LenProperties, SubSeqEmpty
  <2>4. Len(<< >>) <= Len(name) /\ SubSeq(name, 1, Len(<< >>)) = << >> <=> LiesBelow(name, << >>)
    BY <2>2, SuffixIsBelow
  <2>5. LiesBelow(name, << >>)
    BY <2>2, <2>3, <2>4
  <2> QED
    BY <2>1, <2>5 DEF Covers
<1>3. /\ exact = {k \in hit : k # Star /\ ~k.sub}
      /\ suffix = {k \in hit : k # Star /\ k.sub}
  BY <1>1
<1>4. DOMAIN m \intersect {Star} = hit \intersect {Star}
  BY <1>2
<1>5. \A k \in hit : rank(k) \in {0, 1, 2} /\ (k = Star \/ k \in exact \/ k \in suffix)
  BY <1>3
<1>6. /\ \A k \in exact : rank(k) = 2
      /\ \A k \in suffix : rank(k) = 1
      /\ rank(Star) = 0
  BY <1>3
<1>7. best = first
  <2>1. CASE exact # {}
    BY <2>1, <1>3, <1>5, <1>6
  <2>2. CASE exact = {} /\ suffix # {}
    BY <2>2, <1>3, <1>5, <1>6
  <2>3. CASE exact = {} /\ suffix = {}
    BY <2>3, <1>4, <1>5, <1>6
  <2> QED
    BY <2>1, <2>2, <2>3
<1>8. best = {} <=> hit = {}
  BY <1>3, <1>4, <1>5
<1>9. /\ MatchHost(host, policy.deny) <=> denied
      /\ MatchHost(host, policy.allow) <=> \E p \in policy.allow : Covers(p, name)
  BY MatchIsCover DEF MatchHost, PolicyRulesOf
<1>10. MethodsFor(m, host) = {m[k] : k \in best}
  BY DEF MethodsFor
<1>11. DecidedByName(policy, name, verb, verdict) <=>
         IF verdict
         THEN ~denied /\ listed /\ ((verb = "CONNECT" \/ hit = {}) \/ \E k \in first : verb \in m[k])
         ELSE denied \/ ~listed \/ (~(verb = "CONNECT" \/ hit = {}) /\ \E k \in first : verb \notin m[k])
  BY DEF DecidedByName
<1> HIDE DEF best, first, exact, suffix, rules, hit, denied, listed
<1>12. CASE denied
  BY <1>9, <1>11, <1>12 DEF Verdicts
<1>13. CASE ~denied /\ ~listed
  BY <1>9, <1>11, <1>13 DEF Verdicts, listed
<1>14. CASE ~denied /\ listed
  <2>1. verdict \in IF best = {} THEN {TRUE} ELSE {verb = "CONNECT" \/ verb \in m[k] : k \in best}
    BY <1>9, <1>10, <1>14 DEF Verdicts, listed
  <2>2. CASE best = {}
    BY <1>8, <1>11, <1>14, <2>1, <2>2
  <2>3. CASE best # {}
    <3>1. PICK k \in best : verdict = (verb = "CONNECT" \/ verb \in m[k])
      BY <2>1, <2>3
    <3>2. CASE verb = "CONNECT" \/ verb \in m[k]
      BY <1>7, <1>11, <1>14, <3>1, <3>2
    <3>3. CASE ~(verb = "CONNECT" \/ verb \in m[k])
      BY <1>7, <1>8, <1>11, <1>14, <2>3, <3>1, <3>3
    <3> QED
      BY <3>2, <3>3
  <2> QED
    BY <2>2, <2>3
<1> QED
  BY <1>12, <1>13, <1>14

(* Every request that is asked gets such a verdict.                        *)
THEOREM RulesDecideByName == RulesSpec => []DecideByName
<1> DEFINE Empty == [policy |-> [deny |-> {}, allow |-> {}, methods |-> << >>],
                     host |-> Nothing, verb |-> "CONNECT", verdict |-> TRUE]
<1>1. DOMAIN << >> = {}
  OBVIOUS
<1>2. asked = Empty => DecideByName
  BY <1>1 DEF DecideByName, DecidedByName
<1>3. RulesInit => DecideByName
  BY <1>2 DEF RulesInit
<1>4. DecideByName /\ [RulesNext]_asked => DecideByName'
  <2> SUFFICES ASSUME DecideByName, [RulesNext]_asked PROVE DecideByName'
    OBVIOUS
  <2>1. CASE UNCHANGED asked
    BY <2>1 DEF DecideByName
  <2>2. CASE AskAgain
    <3>1. asked' = Empty
      BY <2>2 DEF AskAgain
    <3> QED
      BY <1>1, <3>1 DEF DecideByName, DecidedByName
  <2>3. ASSUME NEW policy, PolicyRulesOf(policy), NEW host \in WrittenHosts, NEW verb, Ask(policy, host, verb)
        PROVE  DecideByName'
    <3>1. PICK v \in Verdicts(policy, host, verb) :
            asked' = [policy |-> policy, host |-> host, verb |-> verb, verdict |-> v]
      BY <2>3 DEF Ask
    <3>2. DecidedByName(policy, host.of, verb, v)
      BY <2>3, <3>1, PolicyDecidesByName
    <3> QED
      BY <3>1, <3>2 DEF DecideByName
  <2>4. ASSUME NEW host \in WrittenHosts, NEW verb, NEW d \in Small(Patterns), NEW l \in Small(Patterns),
               Ask([deny |-> d, allow |-> l, methods |-> << >>], host, verb)
        PROVE  DecideByName'
    <3>1. PolicyRulesOf([deny |-> d, allow |-> l, methods |-> << >>])
      BY <1>1 DEF PolicyRulesOf, Small, Keys
    <3> QED
      BY <2>3, <2>4, <3>1
  <2>5. ASSUME NEW host \in WrittenHosts, NEW verb, NEW m \in MethodRules,
               Ask([deny |-> {}, allow |-> {}, methods |-> m], host, verb)
        PROVE  DecideByName'
    <3>1. DOMAIN m \subseteq Keys
      BY DEF MethodRules
    <3>2. PolicyRulesOf([deny |-> {}, allow |-> {}, methods |-> m])
      BY <3>1 DEF PolicyRulesOf
    <3> QED
      BY <2>3, <2>5, <3>2
  <2> QED
    BY <2>1, <2>2, <2>4, <2>5 DEF RulesNext
<1> QED
  BY <1>3, <1>4, PTL DEF RulesSpec

-----------------------------------------------------------------------------
(* The policy store.                                                       *)

StoreTypes ==
  /\ file \in [Dirs -> [PsNames -> {"none", "good", "empty", "bad"}]]
  /\ mark \in [Dirs -> Maybe]
  /\ edit \in [Editors -> [at : {"idle", "put", "clear", "remove", "default"}, name : Maybe]]
  /\ \A e \in Editors : edit[e].at # "idle" => edit[e].name \in PsNames
  /\ excused \in BOOLEAN

LEMMA StoreBegins ==
  ASSUME PsInit
  PROVE  StoreTypes
<1>1. mark \in [Dirs -> Maybe]
  BY PsAssumption DEF PsInit, Dirs, Maybe
<1>2. file \in [Dirs -> [PsNames -> {"none", "good", "empty", "bad"}]]
  <2>1. PICK f \in Projects :
          file = [d \in Dirs |-> IF d = "project" THEN f ELSE [n \in PsNames |-> "none"]]
    BY DEF PsInit
  <2>2. f \in [PsNames -> {"none", "good", "empty", "bad"}]
    BY PsAssumption
  <2> QED
    BY <2>1, <2>2
<1>3. edit = [e \in Editors |-> [at |-> "idle", name |-> NoName]] /\ excused = FALSE
  BY DEF PsInit, NoEdit
<1> QED
  BY <1>1, <1>2, <1>3 DEF StoreTypes, Maybe

(* A policy whose file is about to go is not the default, or that was      *)
(* noticed.                                                                *)
MarkerInv ==
  /\ StoreTypes
  /\ \A e \in Editors : edit[e].at = "remove" /\ mark["global"] = edit[e].name => excused
  /\ NoDanglingDefault

LEMMA MarkerEdits ==
  ASSUME MarkerInv, NEW e \in Editors, Editing(e)
  PROVE  MarkerInv'
<1> USE PsAssumption DEF MarkerInv, StoreTypes, NoDanglingDefault, Dirs, Maybe, At, NoEdit
<1>1. ASSUME NEW n \in PsNames, PutCut(e, n) PROVE MarkerInv'
  BY <1>1 DEF PutCut
<1>2. CASE PutWrite(e)
  BY <1>2 DEF PutWrite
<1>3. ASSUME NEW n \in PsNames, Delete(e, n) PROVE MarkerInv'
  <2>1. CASE mark["global"] = n
    BY <1>3, <2>1 DEF Delete
  <2>2. CASE mark["global"] # n
    BY <1>3, <2>2 DEF Delete
  <2> QED
    BY <2>1, <2>2
<1>4. CASE DeleteClear(e)
  <2>1. CASE mark' = mark /\ excused' = TRUE
    BY <1>4, <2>1 DEF DeleteClear
  <2>2. CASE mark' = [mark EXCEPT !["global"] = NoName]
    BY <1>4, <2>2, ZenonT(40) DEF DeleteClear
  <2> QED
    BY <1>4, <2>1, <2>2 DEF DeleteClear
<1>5. CASE DeleteRemove(e)
  BY <1>5 DEF DeleteRemove
<1>6. CASE ClearDefault(e)
  BY <1>6 DEF ClearDefault
<1>7. ASSUME NEW n \in PsNames, SetDefaultCut(e, n) PROVE MarkerInv'
  BY <1>7 DEF SetDefaultCut
<1>8. CASE SetDefaultWrite(e)
  BY <1>8, ZenonT(40) DEF SetDefaultWrite
<1> QED
  BY <1>1, <1>2, <1>3, <1>4, <1>5, <1>6, <1>7, <1>8 DEF Editing, Edits

(* FileStore.Delete: a deletion leaves no marker behind that names what it *)
(* deleted, unless the default was set to it at the same time.             *)
THEOREM MarkerNamesAPolicy == PsSpec => []NoDanglingDefault
<1>1. PsInit => MarkerInv
  <2> SUFFICES ASSUME PsInit PROVE MarkerInv
    OBVIOUS
  <2>1. StoreTypes /\ mark["global"] = NoName
    BY StoreBegins DEF PsInit, Dirs
  <2>2. \A e \in Editors : edit[e].at = "idle"
    BY DEF PsInit, NoEdit
  <2> QED
    BY <2>1, <2>2 DEF MarkerInv, NoDanglingDefault
<1>2. MarkerInv /\ [PsNext]_psVars => MarkerInv'
  <2> SUFFICES ASSUME MarkerInv, [PsNext]_psVars PROVE MarkerInv'
    OBVIOUS
  <2>1. CASE UNCHANGED <<file, mark, edit, excused>>
    BY <2>1 DEF MarkerInv, StoreTypes, NoDanglingDefault
  <2> QED
    BY <2>1, MarkerEdits DEF PsNext, psVars, UpBegins, ReadDefault, ReadPolicy, UpEnds
<1>3. MarkerInv => NoDanglingDefault
  BY DEF MarkerInv
<1> QED
  BY <1>1, <1>2, <1>3, PTL DEF PsSpec

(* An up that began under a good default follows the layers as they are.   *)
LookOn(u) ==
  /\ look[u].at \in {"default", "get", "bind", "done"}
  /\ look[u].at = "default" /\ look[u].dir = "global" => mark["project"] = NoName
  /\ look[u].at \in {"get", "bind"} =>
       /\ look[u].def = EffectiveDefault
       /\ look[u].dir = "global" => ~Parses(file["project"][look[u].def])
  /\ look[u].at = "done" => look[u].def = EffectiveDefault /\ look[u].bound = "good"

Looks == [at : {"idle", "default", "get", "bind", "done", "failed"}, dir : Dirs, def : Maybe,
          bound : {"none", "good", "empty"}]

LookInv ==
  /\ StoreTypes
  /\ look \in [PsUps -> Looks]
  /\ \A u \in PsUps : look[u].at \in {"get", "bind"} => look[u].def \in PsNames
  /\ steady \subseteq PsUps
  /\ steady # {} => GoodDefault
  /\ \A u \in steady : LookOn(u)

LEMMA ProjectStays ==
  ASSUME StoreTypes, NEW e \in Editors, Editing(e)
  PROVE  /\ StoreTypes' /\ look' = look
         /\ file'["project"] = file["project"] /\ mark'["project"] = mark["project"]
<1> USE PsAssumption DEF StoreTypes, Dirs, Maybe, At, NoEdit
<1>1. ASSUME NEW n \in PsNames, PutCut(e, n) \/ Delete(e, n) \/ SetDefaultCut(e, n)
      PROVE  /\ StoreTypes' /\ look' = look
             /\ file'["project"] = file["project"] /\ mark'["project"] = mark["project"]
  <2>1. CASE PutCut(e, n)
    BY <2>1 DEF PutCut
  <2>2. CASE Delete(e, n)
    <3>1. CASE mark["global"] = n
      BY <2>2, <3>1 DEF Delete
    <3>2. CASE mark["global"] # n
      BY <2>2, <3>2 DEF Delete
    <3> QED
      BY <3>1, <3>2
  <2>3. CASE SetDefaultCut(e, n)
    BY <2>3 DEF SetDefaultCut
  <2> QED
    BY <1>1, <2>1, <2>2, <2>3
<1>2. CASE PutWrite(e)
  BY <1>2 DEF PutWrite
<1>3. CASE DeleteClear(e)
  <2>1. CASE mark' = mark /\ excused' = TRUE
    BY <1>3, <2>1 DEF DeleteClear
  <2>2. CASE mark' = [mark EXCEPT !["global"] = NoName] /\ excused' = FALSE
    BY <1>3, <2>2 DEF DeleteClear
  <2> QED
    BY <1>3, <2>1, <2>2 DEF DeleteClear
<1>4. CASE DeleteRemove(e)
  BY <1>4 DEF DeleteRemove
<1>5. CASE ClearDefault(e)
  BY <1>5 DEF ClearDefault
<1>6. CASE SetDefaultWrite(e)
  BY <1>6 DEF SetDefaultWrite
<1> QED
  BY <1>1, <1>2, <1>3, <1>4, <1>5, <1>6 DEF Editing, Edits

LEMMA LookEdits ==
  ASSUME LookInv, NEW e \in Editors, Editing(e)
  PROVE  LookInv'
<1>1. StoreTypes' /\ look' = look
  BY ProjectStays DEF LookInv
<1>2. file'["project"] = file["project"] /\ mark'["project"] = mark["project"]
  BY ProjectStays DEF LookInv
<1>3. CASE steady' = {}
  BY <1>1, <1>3 DEF LookInv
<1>4. CASE GoodDefault' /\ EffectiveDefault' = EffectiveDefault /\ steady' = steady
  <2>1. ASSUME NEW u \in steady' PROVE LookOn(u)'
    BY <1>1, <1>2, <1>4 DEF LookInv, LookOn, Parses
  <2> QED
    BY <1>1, <1>4, <2>1 DEF LookInv
<1> QED
  BY <1>3, <1>4 DEF Editing

LEMMA LookUps ==
  ASSUME LookInv, NEW u \in PsUps,
         UpBegins(u) \/ ReadDefault(u) \/ ReadPolicy(u) \/ UpEnds(u)
  PROVE  LookInv'
<1>1. file' = file /\ mark' = mark /\ edit' = edit /\ excused' = excused
  BY DEF UpBegins, ReadDefault, ReadPolicy, UpEnds
<1>2. StoreTypes' /\ (GoodDefault <=> GoodDefault') /\ EffectiveDefault' = EffectiveDefault
  BY <1>1 DEF LookInv, StoreTypes, GoodDefault, EffectiveDefault, EffectiveFile, Parses
<1>3. /\ look' = [look EXCEPT ![u] = look'[u]]
      /\ look'[u] \in Looks
      /\ look'[u].at \in {"get", "bind"} => look'[u].def \in PsNames
  <2> USE PsAssumption DEF LookInv, Looks, Dirs, Maybe
  <2>1. CASE UpBegins(u)
    BY <2>1 DEF UpBegins, NoLook
  <2>2. CASE ReadDefault(u)
    <3>1. look[u] \in Looks /\ mark[look[u].dir] \in Maybe
      BY DEF StoreTypes
    <3>2. CASE mark[look[u].dir] # NoName
      BY <2>2, <3>1, <3>2 DEF ReadDefault
    <3>3. CASE mark[look[u].dir] = NoName /\ look[u].dir = "project"
      BY <2>2, <3>1, <3>3 DEF ReadDefault
    <3>4. CASE mark[look[u].dir] = NoName /\ look[u].dir # "project"
      BY <2>2, <3>1, <3>4 DEF ReadDefault
    <3> QED
      BY <3>2, <3>3, <3>4
  <2>3. CASE ReadPolicy(u)
    <3> DEFINE l == look[u]
               f == file[l.dir][l.def]
    <3>1. l \in Looks /\ l.def \in PsNames /\ f \in {"none", "good", "empty", "bad"}
      BY <2>3 DEF ReadPolicy, StoreTypes
    <3>2. CASE Parses(f)
      BY <2>3, <3>1, <3>2 DEF ReadPolicy, Found, Parses
    <3>3. CASE ~Parses(f)
      BY <2>3, <3>1, <3>3 DEF ReadPolicy, NotFound
    <3> QED
      BY <3>2, <3>3
  <2>4. CASE UpEnds(u)
    BY <2>4 DEF UpEnds, NoLook
  <2> QED
    BY <2>1, <2>2, <2>3, <2>4
<1>4. /\ steady' \subseteq steady \union {u}
      /\ u \in steady' /\ u \notin steady => GoodDefault
  BY DEF UpBegins, ReadDefault, ReadPolicy, UpEnds
<1>5. ASSUME u \in steady' PROVE LookOn(u)'
  <2>1. CASE UpBegins(u)
    BY <2>1 DEF UpBegins, NoLook, LookOn, LookInv
  <2>2. CASE ReadDefault(u)
    <3>1. u \in steady /\ LookOn(u) /\ GoodDefault /\ look[u] \in Looks
      BY <2>2, <1>5 DEF ReadDefault, LookInv
    <3>2. look[u].dir = "global" => mark["project"] = NoName
      BY <2>2, <3>1 DEF ReadDefault, LookOn
    <3>3. CASE mark[look[u].dir] # NoName
      <4>1. mark[look[u].dir] = EffectiveDefault
        BY <3>1, <3>2, <3>3 DEF EffectiveDefault, Looks, Dirs
      <4>2. look'[u] = [look[u] EXCEPT !.at = "get", !.dir = "project", !.def = mark[look[u].dir]]
        BY <2>2, <3>3 DEF ReadDefault, LookInv
      <4> QED
        BY <3>1, <4>1, <4>2, <1>2 DEF LookOn, Looks
    <3>4. CASE mark[look[u].dir] = NoName
      <4>1. look[u].dir = "project"
        BY <3>1, <3>2, <3>4 DEF GoodDefault, EffectiveDefault, Looks, Dirs
      <4>2. look'[u] = [look[u] EXCEPT !.dir = "global"] /\ look[u].at = "default"
        BY <2>2, <3>4, <4>1 DEF ReadDefault, LookInv
      <4> QED
        BY <3>1, <3>4, <4>1, <4>2, <1>1 DEF LookOn, Looks
    <3> QED
      BY <3>3, <3>4
  <2>3. CASE ReadPolicy(u)
    <3> DEFINE l == look[u]
               f == file[l.dir][l.def]
    <3>1. u \in steady /\ LookOn(u) /\ GoodDefault /\ l \in Looks /\ l.at \in {"get", "bind"}
      BY <2>3, <1>5 DEF ReadPolicy, LookInv
    <3>2. l.def = EffectiveDefault /\ (l.dir = "global" => ~Parses(file["project"][l.def]))
      BY <3>1 DEF LookOn
    <3>3. CASE Parses(f)
      <4>1. f = "good"
        BY <3>1, <3>2, <3>3 DEF GoodDefault, EffectiveFile, Looks, Dirs
      <4>2. look'[u] = Found(l, f)
        BY <2>3, <3>3 DEF ReadPolicy, LookInv
      <4> QED
        BY <3>1, <3>2, <4>1, <4>2, <1>2 DEF LookOn, Looks, Found
    <3>4. CASE ~Parses(f)
      <4>1. l.dir = "project"
        BY <3>1, <3>2, <3>4 DEF GoodDefault, EffectiveFile, Looks, Dirs, Parses
      <4>2. look'[u] = [l EXCEPT !.dir = "global"]
        BY <2>3, <3>4, <4>1 DEF ReadPolicy, LookInv
      <4> QED
        BY <3>1, <3>2, <3>4, <4>1, <4>2, <1>1, <1>2 DEF LookOn, Looks
    <3> QED
      BY <3>3, <3>4
  <2>4. CASE UpEnds(u)
    BY <2>4, <1>5 DEF UpEnds
  <2> QED
    BY <2>1, <2>2, <2>3, <2>4
<1>6. ASSUME NEW w \in steady', w # u PROVE LookOn(w)'
  <2>1. w \in steady /\ LookOn(w) /\ w \in PsUps
    BY <1>4, <1>6 DEF LookInv
  <2>2. look'[w] = look[w]
    BY <1>3, <1>6, <2>1 DEF LookInv
  <2> QED
    BY <1>1, <1>2, <2>1, <2>2 DEF LookOn
<1>7. look' \in [PsUps -> Looks] /\ \A w \in PsUps : look'[w].at \in {"get", "bind"} => look'[w].def \in PsNames
  BY <1>3 DEF LookInv
<1>8. steady' \subseteq PsUps /\ (steady' # {} => GoodDefault')
  BY <1>2, <1>4 DEF LookInv
<1> QED
  BY <1>2, <1>5, <1>6, <1>7, <1>8 DEF LookInv

LEMMA LookInductive == PsSpec => []LookInv
<1>1. PsInit => LookInv
  <2> SUFFICES ASSUME PsInit PROVE LookInv
    OBVIOUS
  <2>1. StoreTypes
    BY StoreBegins
  <2>2. look = [u \in PsUps |-> NoLook] /\ steady = {}
    BY DEF PsInit
  <2> QED
    BY <2>1, <2>2 DEF LookInv, Looks, NoLook, Dirs, Maybe
<1>2. LookInv /\ [PsNext]_psVars => LookInv'
  <2> SUFFICES ASSUME LookInv, [PsNext]_psVars PROVE LookInv'
    OBVIOUS
  <2>1. CASE UNCHANGED psVars
    <3>1. StoreTypes' /\ (GoodDefault <=> GoodDefault') /\ \A u \in steady : LookOn(u)'
      BY <2>1 DEF psVars, LookInv, StoreTypes, GoodDefault, EffectiveDefault, EffectiveFile,
                  Parses, LookOn
    <3> QED
      BY <2>1, <3>1 DEF psVars, LookInv
  <2> QED
    BY <2>1, LookEdits, LookUps DEF PsNext
<1> QED
  BY <1>1, <1>2, PTL DEF PsSpec

(* buildSpec's default lookup: an up during which one good default was in  *)
(* effect all the time is governed by it, whatever is written meanwhile.   *)
THEOREM DefaultIsBound == PsSpec => []DefaultGoverns
<1>1. LookInv => DefaultGoverns
  BY DEF LookInv, LookOn, DefaultGoverns
<1> QED
  BY <1>1, LookInductive, PTL

-----------------------------------------------------------------------------
(* The interception CA.  While a pod counts that was mounted when the      *)
(* broker could sign, the files are the two of one CA, and no start that   *)
(* can read its key writes them again.                                     *)

FilesOK ==
  /\ newest \in 0..MaxCAs
  /\ certFile \in (1..newest) \union {Missing, Torn}
  /\ keyFile \in (1..newest) \union {Missing, Torn}
  /\ start \in {"down", "cert", "key", "up"}
  /\ start \in {"cert", "key"} => newest > 0
  /\ start = "key" => certFile = newest

LoadedOK ==
  /\ authority \in (0..MaxCAs) \union {Mismatch}
  /\ authority # 0 => start = "up" /\ Good(certFile) /\ Good(keyFile)
  /\ authority \in 1..MaxCAs => authority = certFile /\ certFile = keyFile

SoundOK ==
  /\ trust \in [CAPods -> Nat]
  /\ mounted \subseteq CAPods /\ sound \subseteq mounted
  /\ \A p \in CAPods : trust[p] # 0 => p \in mounted
  /\ \A p \in sound : trust[p] \in {0, certFile}
  /\ sound # {} => /\ Good(certFile) /\ certFile = keyFile
                   /\ start \in {"down", "up"}
                   /\ start = "up" => authority \in {0, certFile}

CAInv == FilesOK /\ LoadedOK /\ SoundOK

LEMMA CAStep ==
  ASSUME CAInv, [CANext]_caVars
  PROVE  CAInv'
<1> USE CAAssumption DEF CAInv, FilesOK, LoadedOK, SoundOK, Good, Missing, Torn, Mismatch, podVars, fileVars
<1>1. CASE LoadFiles
  BY <1>1 DEF LoadFiles, Up, Loaded
<1>2. CASE Generate
  BY <1>2 DEF Generate
<1>3. CASE WriteCert
  BY <1>3 DEF WriteCert, Up
<1>4. CASE WriteKey
  BY <1>4 DEF WriteKey, Up
<1>5. CASE CACrash
  BY <1>5 DEF CACrash
<1>6. ASSUME NEW p \in CAPods, InjectEgressCA(p) PROVE CAInv'
  BY <1>6 DEF InjectEgressCA
<1>7. ASSUME NEW p \in CAPods, TrustCopy(p) PROVE CAInv'
  BY <1>7 DEF TrustCopy
<1>8. ASSUME UNCHANGED <<fileVars, podVars>> PROVE CAInv'
  BY <1>8
<1>9. ASSUME NEW c \in Conns, Handshake(c) PROVE CAInv'
  BY <1>8, <1>9 DEF Handshake, FrontHit, FrontMiss, SignLeaf, FrontPut, Hangup
<1>10. CASE Age
  BY <1>8, <1>10 DEF Age
<1>11. CASE UNCHANGED caVars
  BY <1>8, <1>11 DEF caVars
<1> QED
  BY <1>1, <1>2, <1>3, <1>4, <1>5, <1>6, <1>7, <1>9, <1>10, <1>11 DEF CANext, CALoad

LEMMA CAInductive == CASpec => []CAInv
<1>1. CAInit => CAInv
  BY CAAssumption DEF CAInit, CAInv, FilesOK, LoadedOK, SoundOK, Good
<1> QED
  BY <1>1, CAStep, PTL DEF CASpec

(* Load, generate and injectEgressCA: a pod that was mounted while the     *)
(* broker could sign trusts what the broker signs with from then on, until *)
(* a start cannot read a key that is there, for any number of pods,        *)
(* crashes, failed writes and unreadable certificates.                     *)
THEOREM PodTrust == CASpec => []PodTrustsBroker
<1>1. CAInv => PodTrustsBroker
  BY DEF CAInv, SoundOK, PodTrustsBroker
<1> QED
  BY <1>1, CAInductive, PTL

-----------------------------------------------------------------------------
(* The copies of a connection's grant.  A token is trusted if it is its    *)
(* grant's newest, or the grant is one that something went wrong with.     *)

Trusted(t) == t \in Minted /\ grantOf[t] \notin doubtful => ~Consumed(t)

(* Its successor is about to be stored or mirrored.                        *)
Succeeded(t) ==
  \E q \in CnPods : \E u \in {unsaved[q], answer[q]} :
    u \in Minted /\ t \in Minted /\ grantOf[u] = grantOf[t]

MintedOnly ==
  /\ {disk.tok, mirror.tok, flow.tok} \subseteq Minted \union {NoToken}
  /\ disk.at <= stamps /\ mirror.at <= stamps
  /\ \A p \in CnPods :
       /\ seed[p].mir.at <= stamps /\ seed[p].use.at <= stamps
       /\ {seed[p].mir.tok, seed[p].use.tok, unsaved[p]} \subseteq Minted \union {NoToken}
       /\ holds[p] \in Minted \union {NoToken, Static}
       /\ seed[p].at = "idle" <=> seed[p] = NoSeed
       /\ seed[p] # NoSeed => holds[p] = NoToken

(* What the vault has yet to store succeeds what it has.                   *)
AnswersDue ==
  \A p \in CnPods : answer[p] # NoToken =>
    /\ answer[p] \in Minted /\ holds[p] \in Minted /\ unsaved[p] = NoToken
    /\ grantOf[answer[p]] = grantOf[holds[p]]
    /\ p \notin keyed => grantOf[answer[p]] \in doubtful

(* What a connect command has got and not saved is in nobody else's hands. *)
FlowOwns ==
  /\ flow.at = "idle" <=> flow.tok = NoToken
  /\ flow.tok # NoToken =>
       /\ grantOf[flow.tok] = flow.tok
       /\ flow.tok \notin {disk.tok, mirror.tok}
       /\ \A t \in Minted : grantOf[t] = flow.tok => t = flow.tok
       /\ \A p \in CnPods : flow.tok \notin {holds[p], unsaved[p], seed[p].mir.tok, seed[p].use.tok}

(* What pods and ups have is trusted, but for what is about to be replaced *)
(* in the vault; so is the host's copy unless the mirror is newer, and the *)
(* mirror unless it is about to be written.                                *)
CopiesTrusted ==
  /\ \A p \in CnPods : /\ Trusted(holds[p]) \/ answer[p] # NoToken
                       /\ Trusted(answer[p]) /\ Trusted(unsaved[p])
                       /\ Trusted(seed[p].mir.tok) /\ Trusted(seed[p].use.tok)
                       /\ seed[p].at = "drained" =>
                            Trusted(disk.tok) \/ seed[p].mir.at > disk.at
  /\ Trusted(disk.tok) \/ Succeeded(disk.tok) \/ mirror.at > disk.at
  /\ Trusted(mirror.tok) \/ Succeeded(mirror.tok)

ConnInv == ConnTypeOK /\ MintedOnly /\ AnswersDue /\ FlowOwns /\ CopiesTrusted

LEMMA TokensCounted ==
  ASSUME ConnTypeOK
  PROVE  /\ IsFiniteSet(Minted)
         /\ NextToken \in Nat \ {0}
         /\ NextToken \notin Minted
         /\ \A t \in Minted : t \in Tokens /\ t < NextToken /\ grantOf[t] \in Tokens /\ grantOf[t] <= t
         /\ NoToken \notin Minted /\ Static \notin Minted
<1>1. IsFiniteSet(Minted)
  <2>1. IsFiniteSet(Tokens)
    BY CnAssumption, FS_Interval DEF Tokens
  <2> QED
    BY <2>1, FS_Subset DEF Minted
<1>2. NextToken \in Nat \ {0}
  BY <1>1, FS_CardinalityType DEF NextToken
<1>3. \A t \in Minted : t \in Tokens /\ t < NextToken /\ grantOf[t] \in Tokens /\ grantOf[t] <= t
  BY CnAssumption DEF Minted, ConnTypeOK, Tokens
<1> QED
  BY <1>1, <1>2, <1>3 DEF Minted, Tokens, NoToken, Static

(* A token is minted, of grant g: only g's older tokens are consumed.      *)
LEMMA MintStep ==
  ASSUME ConnTypeOK, NEW g, g \in 1..NextToken, Mint(g)
  PROVE  /\ NextToken \in Tokens
         /\ grantOf' \in [Tokens -> 0..MaxMint]
         /\ Minted' = Minted \union {NextToken}
         /\ NextToken' = NextToken + 1
         /\ \A t \in Tokens : grantOf'[t] <= t /\ (t < NextToken' <=> grantOf'[t] # 0)
         /\ grantOf'[NextToken] = g
         /\ \A t \in Minted : grantOf'[t] = grantOf[t]
         /\ \A t \in Minted : Consumed(t)' => Consumed(t) \/ grantOf[t] = g
         /\ \A t : t = NextToken => ~Consumed(t)'
<1> USE CnAssumption
<1>1. /\ IsFiniteSet(Minted) /\ NextToken \in Nat \ {0} /\ NextToken \notin Minted
      /\ \A t \in Minted : t < NextToken
  BY TokensCounted
<1>2. NextToken \in Tokens /\ grantOf' = [grantOf EXCEPT ![NextToken] = g]
  BY DEF Mint
<1>3. grantOf' \in [Tokens -> 0..MaxMint]
  BY <1>1, <1>2 DEF ConnTypeOK, Tokens
<1>4. Minted' = Minted \union {NextToken}
  BY <1>1, <1>2 DEF Minted, ConnTypeOK
<1>5. NextToken' = NextToken + 1
  <2>1. Cardinality(Minted') = Cardinality(Minted) + 1
    BY <1>1, <1>4, FS_AddElement
  <2> QED
    BY <2>1 DEF NextToken
<1>6. \A t \in Tokens : grantOf'[t] <= t /\ (t < NextToken' <=> grantOf'[t] # 0)
  <2> TAKE t \in Tokens
  <2>1. CASE t = NextToken
    BY <2>1, <1>1, <1>2, <1>5 DEF ConnTypeOK, Tokens
  <2>2. CASE t # NextToken
    <3>1. grantOf'[t] = grantOf[t]
      BY <2>2, <1>2 DEF ConnTypeOK
    <3>2. t < NextToken' <=> t < NextToken
      BY <2>2, <1>1, <1>5 DEF Tokens
    <3> QED
      BY <3>1, <3>2 DEF ConnTypeOK
  <2> QED
    BY <2>1, <2>2
<1>7. /\ grantOf'[NextToken] = g
      /\ \A t \in Minted : grantOf'[t] = grantOf[t]
  BY <1>1, <1>2 DEF ConnTypeOK, Minted
<1>8. \A t \in Minted : Consumed(t)' => Consumed(t) \/ grantOf[t] = g
  BY <1>4, <1>7 DEF Consumed
<1>9. \A t : t = NextToken => ~Consumed(t)'
  BY <1>1, <1>4 DEF Consumed, Tokens, Minted
<1> QED
  BY <1>2, <1>3, <1>4, <1>5, <1>6, <1>7, <1>8, <1>9

LEMMA SameGrants ==
  ASSUME grantOf' = grantOf
  PROVE  /\ Minted' = Minted /\ NextToken' = NextToken
         /\ \A t : Consumed(t)' <=> Consumed(t)
BY DEF Minted, NextToken, Consumed

(* What was trusted stays so while nothing is minted.                      *)
LEMMA TrustKept ==
  ASSUME grantOf' = grantOf, doubtful \subseteq doubtful'
  PROVE  \A t : Trusted(t) => Trusted(t)'
BY SameGrants DEF Trusted

(* ... and when a new grant is.                                            *)
LEMMA NewGrantTrusted ==
  ASSUME ConnTypeOK, Mint(NextToken), doubtful' = doubtful
  PROVE  \A t : Trusted(t) => Trusted(t)'
<1>1. NextToken \in 1..NextToken
  BY TokensCounted
<1>2. /\ Minted' = Minted \union {NextToken}
      /\ \A t \in Minted : grantOf'[t] = grantOf[t]
      /\ \A t \in Minted : Consumed(t)' => Consumed(t) \/ grantOf[t] = NextToken
      /\ \A t : t = NextToken => ~Consumed(t)'
  BY <1>1, MintStep
<1>3. \A t \in Minted : grantOf[t] # NextToken
  BY TokensCounted DEF Tokens
<1> QED
  BY <1>2, <1>3 DEF Trusted

(* A host command.                                                         *)
LEMMA ConnectStep ==
  ASSUME ConnInv, Connect
  PROVE  ConnInv'
<1> USE CnAssumption DEF ConnInv, podCreds
<1>1. CASE AddStatic
  <2>1. grantOf' = grantOf /\ doubtful' = doubtful
    BY <1>1 DEF AddStatic
  <2>2. ConnTypeOK'
    BY <1>1, <2>1, SameGrants DEF AddStatic, ConnTypeOK, Tokens, Copies
  <2>3. MintedOnly' /\ AnswersDue' /\ FlowOwns'
    BY <1>1, <2>1, SameGrants DEF AddStatic, MintedOnly, AnswersDue, FlowOwns
  <2>4. CopiesTrusted'
    BY <1>1, <2>1, SameGrants, TrustKept DEF AddStatic, CopiesTrusted, Succeeded
  <2> QED
    BY <2>2, <2>3, <2>4
<1>2. CASE Create
  <2>1. grantOf' = grantOf /\ doubtful' = doubtful
    BY <1>2 DEF Create
  <2>2. ConnTypeOK'
    BY <1>2, <2>1, SameGrants DEF Create, ConnTypeOK
  <2>3. MintedOnly' /\ AnswersDue' /\ FlowOwns'
    BY <1>2, <2>1, SameGrants DEF Create, MintedOnly, AnswersDue, FlowOwns, ConnTypeOK
  <2>4. CopiesTrusted'
    BY <1>2, <2>1, SameGrants, TrustKept DEF Create, CopiesTrusted, Succeeded
  <2> QED
    BY <2>2, <2>3, <2>4
<1>3. ASSUME Mint(NextToken), flow = NoFlow, flow'.tok = NextToken,
             flow' \in [at : {"mcp", "http", "save"}, tok : Tokens],
             UNCHANGED <<kind, disk, mirror, stamps, seed, podCreds, answer, unsaved, doubtful>>
      PROVE  ConnInv'
  <2>1. NextToken \in 1..NextToken
    BY TokensCounted
  <2>2. /\ NextToken \in Tokens
        /\ grantOf' \in [Tokens -> 0..MaxMint]
        /\ Minted' = Minted \union {NextToken}
        /\ \A t \in Tokens : grantOf'[t] <= t /\ (t < NextToken' <=> grantOf'[t] # 0)
        /\ grantOf'[NextToken] = NextToken
        /\ \A t \in Minted : grantOf'[t] = grantOf[t]
    BY <1>3, <2>1, MintStep
  <2>3. /\ NextToken \notin Minted \union {NoToken, Static}
        /\ \A t \in Minted : grantOf[t] # NextToken
    BY TokensCounted DEF Tokens, NoToken, Static
  <2>4. ConnTypeOK'
    BY <1>3, <2>2 DEF ConnTypeOK
  <2>5. MintedOnly' /\ AnswersDue'
    BY <1>3, <2>2 DEF MintedOnly, AnswersDue
  <2>6. FlowOwns'
    <3>1. NextToken \notin {disk.tok, mirror.tok}
      BY <2>3 DEF MintedOnly
    <3>2. \A p \in CnPods : NextToken \notin {holds[p], unsaved[p], seed[p].mir.tok, seed[p].use.tok}
      BY <2>3 DEF MintedOnly
    <3>3. \A t \in Minted' : grantOf'[t] = NextToken => t = NextToken
      BY <2>2, <2>3
    <3> QED
      BY <1>3, <2>2, <2>3, <3>1, <3>2, <3>3 DEF FlowOwns
  <2>7. CopiesTrusted'
    <3>1. \A t : Trusted(t) => Trusted(t)'
      BY <1>3, NewGrantTrusted
    <3>2. \A t : Succeeded(t) => Succeeded(t)'
      BY <1>3, <2>2 DEF Succeeded
    <3> QED
      BY <1>3, <3>1, <3>2 DEF CopiesTrusted
  <2> QED
    BY <2>4, <2>5, <2>6, <2>7
<1>4. CASE \E k \in {"mcp", "http"} : AddViaOAuth(k)
  BY <1>3, <1>4 DEF AddViaOAuth, Mint
<1>5. CASE Reauth
  BY <1>3, <1>5 DEF Reauth, Mint
<1>6. CASE SaveOAuth
  <2>1. grantOf' = grantOf /\ doubtful' = doubtful
    BY <1>6 DEF SaveOAuth
  <2>2. flow.tok \in Minted
    BY <1>6 DEF SaveOAuth, FlowOwns, MintedOnly
  <2>3. ConnTypeOK'
    <3>1. flow.tok \in Tokens
      BY <2>2 DEF Minted
    <3>2. stamps + 1 \in 1..MaxStamp
      BY <1>6 DEF SaveOAuth, ConnTypeOK
    <3>3. disk' \in Copies
      BY <1>6, <3>1, <3>2 DEF SaveOAuth, Copies
    <3> QED
      BY <1>6, <2>1, <3>2, <3>3, SameGrants DEF SaveOAuth, ConnTypeOK, NoFlow
  <2>4. MintedOnly' /\ AnswersDue'
    <3>1. disk'.tok \in Minted /\ disk'.at = stamps + 1 /\ stamps' = stamps + 1 /\ flow'.tok = NoToken
      BY <1>6, <2>2 DEF SaveOAuth, NoFlow
    <3>2. /\ mirror.at \in Int /\ stamps \in Int
          /\ \A p \in CnPods : seed[p].mir.at \in Int /\ seed[p].use.at \in Int
      BY DEF ConnTypeOK, Copies, NoCopy
    <3> QED
      BY <1>6, <2>1, <3>1, <3>2, SameGrants DEF SaveOAuth, MintedOnly, AnswersDue
  <2>5. FlowOwns'
    BY <1>6 DEF SaveOAuth, FlowOwns, NoFlow
  <2>6. CopiesTrusted'
    <3>1. ~Consumed(flow.tok)
      BY <1>6, <2>2, TokensCounted DEF SaveOAuth, FlowOwns, Consumed, Tokens
    <3>2. disk'.tok = flow.tok
      BY <1>6 DEF SaveOAuth
    <3>3. Trusted(disk.tok)'
      BY <2>1, <3>1, <3>2, SameGrants DEF Trusted
    <3> QED
      BY <1>6, <2>1, <3>3, SameGrants, TrustKept DEF SaveOAuth, CopiesTrusted, Succeeded
  <2> QED
    BY <2>3, <2>4, <2>5, <2>6
<1>7. CASE FlowFails
  <2>1. grantOf' = grantOf /\ doubtful' = doubtful
    BY <1>7 DEF FlowFails
  <2>2. ConnTypeOK'
    BY <1>7, <2>1, SameGrants DEF FlowFails, ConnTypeOK, NoFlow
  <2>3. MintedOnly' /\ AnswersDue' /\ FlowOwns'
    BY <1>7, <2>1, SameGrants DEF FlowFails, MintedOnly, AnswersDue, FlowOwns, NoFlow
  <2>4. CopiesTrusted'
    BY <1>7, <2>1, SameGrants, TrustKept DEF FlowFails, CopiesTrusted, Succeeded
  <2> QED
    BY <2>2, <2>3, <2>4
<1>8. CASE RemoveConnection
  <2>1. grantOf' = grantOf /\ doubtful' = doubtful /\ disk' = NoCopy
    BY <1>8 DEF RemoveConnection
  <2>2. ConnTypeOK'
    BY <1>8, <2>1, SameGrants DEF RemoveConnection, ConnTypeOK, Copies
  <2>3. MintedOnly' /\ AnswersDue'
    BY <1>8, <2>1, SameGrants DEF RemoveConnection, MintedOnly, AnswersDue, NoCopy, ConnTypeOK
  <2>4. FlowOwns'
    BY <1>8, <2>1, SameGrants DEF RemoveConnection, FlowOwns, NoCopy
  <2>5. CopiesTrusted'
    <3>1. NoToken \notin Minted' /\ disk'.tok = NoToken
      BY <2>1, SameGrants, TokensCounted DEF NoCopy
    <3>2. Trusted(disk.tok)'
      BY <3>1 DEF Trusted
    <3> QED
      BY <1>8, <2>1, <3>2, SameGrants, TrustKept DEF RemoveConnection, CopiesTrusted, Succeeded
  <2> QED
    BY <2>2, <2>3, <2>4, <2>5
<1> QED
  BY <1>1, <1>2, <1>4, <1>5, <1>6, <1>7, <1>8 DEF Connect

LEMMA Emptiness ==
  /\ NoSeed.at = "idle" /\ NoSeed.mir = NoCopy /\ NoSeed.use = NoCopy
  /\ NoCopy.tok = NoToken /\ NoCopy.at = 0 /\ NoCopy \in Copies
  /\ NoSeed \in [at : {"idle", "drained", "loaded"}, mir : Copies, use : Copies,
                 adopt : BOOLEAN, key : BOOLEAN]
BY DEF NoSeed, NoCopy, Copies

(* A token whose successor is about to be mirrored is of a grant that is.  *)
LEMMA InFlightMirrored ==
  ASSUME ConnTypeOK, NEW t, Succeeded(t)
  PROVE  grantOf[t] \in Unmirrored
BY DEF Succeeded, Unmirrored

(* An up that is under way.                                                *)
LEMMA UpStep ==
  ASSUME ConnInv, NEW p \in CnPods,
         Drain(p) \/ LoadConnectorOAuth(p) \/ Seed(p) \/ SeedFails(p)
  PROVE  ConnInv'
<1> USE CnAssumption DEF ConnInv, podCreds
<1>1. /\ grantOf' = grantOf /\ flow' = flow /\ stamps' = stamps /\ doubtful \subseteq doubtful'
      /\ answer' = answer /\ unsaved' = unsaved /\ answer[p] = NoToken
  <2>1. holds[p] = NoToken
    BY DEF Drain, LoadConnectorOAuth, Seed, SeedFails, MintedOnly, NoSeed
  <2>2. answer[p] = NoToken
    BY <2>1, TokensCounted DEF AnswersDue
  <2> QED
    BY <2>2 DEF Drain, LoadConnectorOAuth, Seed, SeedFails
<1>2. /\ Minted' = Minted /\ NextToken' = NextToken
      /\ \A t : Trusted(t) => Trusted(t)'
  BY <1>1, SameGrants, TrustKept
<1>3. AnswersDue'
  <2>1. \A q \in CnPods : q # p => holds'[q] = holds[q] /\ (q \in keyed' <=> q \in keyed)
    BY DEF Drain, LoadConnectorOAuth, Seed, SeedFails, ConnTypeOK
  <2>2. \A q \in CnPods : q # p /\ answer[q] # NoToken =>
          /\ answer[q] \in Minted' /\ holds'[q] \in Minted' /\ unsaved'[q] = NoToken
          /\ grantOf'[answer[q]] = grantOf'[holds'[q]]
          /\ q \notin keyed' => grantOf'[answer[q]] \in doubtful'
    BY <1>1, <1>2, <2>1 DEF AnswersDue
  <2> QED
    BY <1>1, <2>2 DEF AnswersDue
<1>4. CASE Drain(p)
  <2>1. PICK m \in {mirror, NoCopy} :
          /\ seed' = [seed EXCEPT ![p] = [seed[p] EXCEPT !.at = "drained", !.mir = m]]
          /\ doubtful' = doubtful \union Unmirrored \union
               (IF m = mirror THEN {} ELSE {grantOf[t] : t \in Minted})
    BY <1>4 DEF Drain
  <2>2. /\ disk' = disk /\ mirror' = mirror /\ kind' = kind /\ holds' = holds
        /\ unsaved' = unsaved /\ keyed' = keyed /\ seed[p] = NoSeed /\ holds[p] = NoToken
    BY <1>4 DEF Drain
  <2>3. /\ seed'[p].at = "drained" /\ seed'[p].mir = m /\ seed'[p].use = NoCopy
        /\ seed'[p] # NoSeed
        /\ \A q \in CnPods : q # p => seed'[q] = seed[q]
    BY <2>1, <2>2, Emptiness DEF ConnTypeOK
  <2>4. Unmirrored \subseteq Tokens
    BY TokensCounted DEF Unmirrored, MintedOnly
  <2>5. ConnTypeOK'
    <3>1. doubtful' \subseteq Tokens
      BY <2>1, <2>4, TokensCounted DEF ConnTypeOK
    <3>2. m \in Copies /\ NoCopy \in Copies
      BY DEF ConnTypeOK, Copies
    <3>3. seed' \in [CnPods -> [at : {"idle", "drained", "loaded"}, mir : Copies, use : Copies,
                                adopt : BOOLEAN, key : BOOLEAN]]
      BY <2>1, <3>2, ZenonT(40) DEF ConnTypeOK
    <3> QED
      BY <1>1, <1>2, <2>2, <3>1, <3>3 DEF ConnTypeOK
  <2>6. MintedOnly'
    <3>1. m.tok \in Minted \union {NoToken} /\ m.at <= stamps
      BY DEF MintedOnly, NoCopy, ConnTypeOK
    <3>2. NoCopy.tok = NoToken /\ NoCopy.at <= stamps
      BY DEF NoCopy, ConnTypeOK
    <3> QED
      BY <1>1, <1>2, <2>2, <2>3, <3>1, <3>2 DEF MintedOnly
  <2>7. FlowOwns'
    <3>1. \A q \in CnPods : seed'[q].mir \in {seed[q].mir, mirror, NoCopy} /\ seed'[q].use \in {seed[q].use, NoCopy}
      BY <2>3
    <3> QED
      BY <1>1, <1>2, <2>2, <3>1 DEF FlowOwns, NoCopy
  <2>8. CopiesTrusted'
    <3>1. \A t : Succeeded(t) => Trusted(t)'
      BY <1>1, <2>1, InFlightMirrored DEF Trusted
    <3>2. Trusted(mirror.tok)' /\ (Trusted(disk.tok)' \/ mirror.at > disk.at)
      BY <1>2, <2>2, <3>1 DEF CopiesTrusted
    <3>3. Trusted(NoToken)'
      BY <1>2, TokensCounted DEF Trusted
    <3>4. \A t : m # mirror => Trusted(t)'
      BY <1>1, <1>2, <2>1 DEF Trusted
    <3>5. Trusted(disk.tok)' \/ m.at > disk.at
      BY <2>2, <3>2, <3>4
    <3>6. \A t : t = m.tok => Trusted(t)'
      BY <2>2, <3>2, <3>4
    <3> QED
      BY <1>1, <1>2, <2>2, <2>3, <3>2, <3>3, <3>5, <3>6, Emptiness DEF CopiesTrusted
  <2> QED
    BY <1>3, <2>5, <2>6, <2>7, <2>8
<1>5. CASE SeedFails(p)
  <2>1. /\ disk' = disk /\ mirror' = mirror /\ kind' = kind /\ holds' = holds /\ keyed' = keyed
        /\ unsaved' = unsaved /\ doubtful' = doubtful /\ seed' = [seed EXCEPT ![p] = NoSeed]
        /\ seed[p] # NoSeed
    BY <1>5 DEF SeedFails
  <2>2. ConnTypeOK'
    BY <1>1, <1>2, <2>1 DEF ConnTypeOK, NoSeed, Copies
  <2>3. MintedOnly' /\ FlowOwns'
    <3>1. \A q \in CnPods : seed'[q] = seed[q] \/ seed'[q] = NoSeed
      BY <2>1 DEF ConnTypeOK
    <3>2. 0 <= stamps
      BY DEF ConnTypeOK
    <3>3. MintedOnly'
      BY <1>1, <1>2, <2>1, <3>1, <3>2, Emptiness DEF MintedOnly
    <3>4. FlowOwns'
      BY <1>1, <1>2, <2>1, <3>1 DEF FlowOwns, NoSeed, NoCopy
    <3> QED
      BY <3>3, <3>4
  <2>4. Trusted(NoToken)'
    BY <1>2, TokensCounted DEF Trusted
  <2>5. CopiesTrusted'
    BY <1>1, <1>2, <2>1, <2>4 DEF CopiesTrusted, NoSeed, NoCopy, ConnTypeOK, Succeeded
  <2> QED
    BY <1>3, <2>2, <2>3, <2>5
<1>6. CASE LoadConnectorOAuth(p)
  <2> DEFINE r == ReconcileOAuth(disk, seed[p].mir)
  <2>1. /\ disk' = disk /\ mirror' = mirror /\ kind' = kind /\ holds' = holds /\ keyed' = keyed
        /\ unsaved' = unsaved /\ doubtful' = doubtful /\ seed[p].at = "drained"
        /\ \A q \in CnPods : q # p => seed'[q] = seed[q]
    BY <1>6 DEF LoadConnectorOAuth, ConnTypeOK
  <2>2. r.use \in {disk, seed[p].mir} /\ r.adopt \in BOOLEAN /\ Trusted(r.use.tok)
    <3>1. CASE seed[p].mir # NoCopy /\ (disk = NoCopy \/ seed[p].mir.at > disk.at)
      BY <3>1 DEF ReconcileOAuth, CopiesTrusted
    <3>2. CASE seed[p].mir = NoCopy
      <4>1. ~(seed[p].mir.at > disk.at)
        BY <3>2 DEF NoCopy, ConnTypeOK, Copies
      <4> QED
        BY <2>1, <3>2, <4>1 DEF ReconcileOAuth, CopiesTrusted
    <3>3. CASE seed[p].mir # NoCopy /\ disk # NoCopy /\ ~(seed[p].mir.at > disk.at)
      BY <2>1, <3>3 DEF ReconcileOAuth, CopiesTrusted
    <3> QED
      BY <3>1, <3>2, <3>3
  <2>3. seed' = [seed EXCEPT ![p] =
          IF kind = "none" THEN NoSeed
          ELSE [seed[p] EXCEPT !.at = "loaded", !.use = r.use, !.adopt = r.adopt,
                               !.key = kind = "mcp"]]
    BY <1>6 DEF LoadConnectorOAuth
  <2> HIDE DEF r
  <2>4. seed[p] # NoSeed /\ holds[p] = NoToken
    BY <2>1 DEF MintedOnly, NoSeed
  <2>5. seed'[p] = NoSeed \/ /\ seed'[p].at = "loaded" /\ seed'[p].use = r.use
                             /\ seed'[p].mir = seed[p].mir /\ seed'[p] # NoSeed
    BY <2>3 DEF ConnTypeOK, NoSeed
  <2>6. ConnTypeOK'
    <3>1. NoCopy \in Copies /\ r.use \in Copies
      BY <2>2 DEF ConnTypeOK, Copies
    <3>2. NoSeed \in [at : {"idle", "drained", "loaded"}, mir : Copies, use : Copies,
                      adopt : BOOLEAN, key : BOOLEAN]
      BY <3>1 DEF NoSeed
    <3>3. [seed[p] EXCEPT !.at = "loaded", !.use = r.use, !.adopt = r.adopt, !.key = kind = "mcp"]
            \in [at : {"idle", "drained", "loaded"}, mir : Copies, use : Copies,
                 adopt : BOOLEAN, key : BOOLEAN]
      BY <2>2, <3>1, ZenonT(40) DEF ConnTypeOK
    <3>4. seed' \in [CnPods -> [at : {"idle", "drained", "loaded"}, mir : Copies, use : Copies,
                                adopt : BOOLEAN, key : BOOLEAN]]
      BY <2>3, <3>2, <3>3 DEF ConnTypeOK
    <3> QED
      BY <1>1, <1>2, <2>1, <3>4 DEF ConnTypeOK
  <2>7. MintedOnly'
    <3>1. \A q \in CnPods : q # p =>
            /\ seed'[q].mir.at <= stamps /\ seed'[q].use.at <= stamps
            /\ {seed'[q].mir.tok, seed'[q].use.tok} \subseteq Minted \union {NoToken}
            /\ seed'[q].at = "idle" <=> seed'[q] = NoSeed
            /\ seed'[q] # NoSeed => holds[q] = NoToken
      BY <2>1 DEF MintedOnly
    <3>2. /\ seed'[p].mir.at <= stamps /\ seed'[p].use.at <= stamps
          /\ {seed'[p].mir.tok, seed'[p].use.tok} \subseteq Minted \union {NoToken}
          /\ seed'[p].at = "idle" <=> seed'[p] = NoSeed
      BY <2>2, <2>5 DEF MintedOnly, NoSeed, NoCopy, ConnTypeOK
    <3> QED
      BY <1>1, <1>2, <2>1, <2>4, <3>1, <3>2 DEF MintedOnly
  <2>8. FlowOwns'
    <3>1. \A q \in CnPods : seed'[q].mir \in {seed[q].mir, NoCopy} /\ seed'[q].use \in {seed[q].use, disk, seed[q].mir, NoCopy}
      BY <2>1, <2>2, <2>5 DEF NoSeed
    <3> QED
      BY <1>1, <1>2, <2>1, <3>1 DEF FlowOwns, NoCopy
  <2>9. CopiesTrusted'
    <3>1. Trusted(NoToken)'
      BY <1>2, TokensCounted DEF Trusted
    <3>2. \A t : t = r.use.tok \/ t = seed[p].mir.tok => Trusted(t)'
      BY <1>2, <2>2 DEF CopiesTrusted
    <3>3. \A t : t = seed'[p].mir.tok \/ t = seed'[p].use.tok => Trusted(t)'
      BY <2>5, <3>1, <3>2 DEF NoSeed, NoCopy
    <3>4. seed'[p].at # "drained"
      BY <2>5 DEF NoSeed
    <3> QED
      BY <1>1, <1>2, <2>1, <3>3, <3>4 DEF CopiesTrusted, Succeeded
  <2> QED
    BY <1>3, <2>6, <2>7, <2>8, <2>9
<1>7. CASE Seed(p)
  <2> DEFINE use == seed[p].use
  <2>1. /\ disk' \in {use, disk} /\ mirror' = mirror /\ kind' = kind
        /\ holds' = [holds EXCEPT ![p] = IF use = NoCopy THEN Static ELSE use.tok]
        /\ keyed' \subseteq CnPods /\ seed' = [seed EXCEPT ![p] = NoSeed]
        /\ unsaved' = unsaved /\ doubtful' = doubtful
    BY <1>7 DEF Seed, ConnTypeOK
  <2>2. use \in Copies /\ use.at <= stamps /\ use.tok \in Minted \union {NoToken} /\ Trusted(use.tok)
    BY DEF ConnTypeOK, MintedOnly, CopiesTrusted
  <2>3. /\ seed'[p] = NoSeed /\ holds'[p] \in {Static, use.tok}
        /\ \A q \in CnPods : q # p => seed'[q] = seed[q] /\ holds'[q] = holds[q]
    BY <2>1 DEF ConnTypeOK
  <2>4. ConnTypeOK'
    <3>1. disk' \in Copies
      BY <2>1, <2>2 DEF ConnTypeOK
    <3>2. holds' \in [CnPods -> Tokens \union {NoToken, Static}]
      BY <2>1, <2>2 DEF ConnTypeOK, Copies, NoCopy
    <3>3. NoSeed \in [at : {"idle", "drained", "loaded"}, mir : Copies, use : Copies,
                      adopt : BOOLEAN, key : BOOLEAN]
      BY DEF NoSeed, Copies
    <3> QED
      BY <1>1, <1>2, <2>1, <3>1, <3>2, <3>3 DEF ConnTypeOK
  <2> HIDE DEF use
  <2>5. MintedOnly'
    <3>1. disk'.tok \in Minted \union {NoToken} /\ disk'.at <= stamps
      BY <2>1, <2>2 DEF MintedOnly
    <3>2. \A q \in CnPods : seed'[q] = seed[q] \/ seed'[q] = NoSeed
      BY <2>3
    <3>3. 0 <= stamps
      BY DEF ConnTypeOK
    <3>4. \A q \in CnPods :
            /\ seed'[q].mir.at <= stamps /\ seed'[q].use.at <= stamps
            /\ {seed'[q].mir.tok, seed'[q].use.tok, unsaved[q]} \subseteq Minted \union {NoToken}
            /\ seed'[q].at = "idle" <=> seed'[q] = NoSeed
      BY <3>2, <3>3, Emptiness DEF MintedOnly
    <3>5. \A q \in CnPods : /\ holds'[q] \in Minted \union {NoToken, Static}
                            /\ seed'[q] # NoSeed => holds'[q] = NoToken
      BY <2>2, <2>3 DEF MintedOnly
    <3> QED
      BY <1>1, <1>2, <2>1, <3>1, <3>4, <3>5 DEF MintedOnly
  <2>6. FlowOwns'
    <3>1. flow.tok # NoToken => flow.tok # use.tok /\ flow.tok # Static
      BY TokensCounted DEF FlowOwns, MintedOnly, use
    <3>2. flow.tok # NoToken => flow.tok # disk'.tok
      BY <2>1, <3>1 DEF FlowOwns
    <3> QED
      BY <1>1, <1>2, <2>1, <2>3, <3>1, <3>2 DEF FlowOwns, NoSeed, NoCopy
  <2>7. CopiesTrusted'
    <3>1. Trusted(NoToken)' /\ Trusted(Static)'
      BY <1>2, TokensCounted DEF Trusted
    <3>2. disk' = disk \/ Trusted(disk.tok)'
      <4>1. \A t : t = use.tok => Trusted(t)'
        BY <1>2, <2>2
      <4> QED
        BY <2>1, <4>1
    <3>3. \A t : t = holds'[p] => Trusted(t)'
      BY <1>2, <2>2, <2>3, <3>1
    <3>4. \A q \in CnPods :
            /\ Trusted(holds[q])' \/ answer'[q] # NoToken
            /\ Trusted(answer[q])' /\ Trusted(unsaved[q])'
            /\ Trusted(seed[q].mir.tok)' /\ Trusted(seed[q].use.tok)'
      BY <1>1, <1>2, <2>1, <2>3, <3>1, <3>3 DEF CopiesTrusted, NoSeed, NoCopy
    <3>5. \A q \in CnPods : seed'[q].at = "drained" =>
            Trusted(disk.tok)' \/ seed'[q].mir.at > disk'.at
      BY <1>2, <2>3, <3>2 DEF CopiesTrusted, NoSeed
    <3>6. \A t : Succeeded(t) => Succeeded(t)'
      BY <1>1, <1>2, <2>1 DEF Succeeded
    <3>7. /\ Trusted(disk.tok)' \/ Succeeded(disk.tok)' \/ mirror'.at > disk'.at
          /\ Trusted(mirror.tok)' \/ Succeeded(mirror.tok)'
      BY <1>2, <2>1, <3>2, <3>6 DEF CopiesTrusted
    <3> QED
      BY <3>4, <3>5, <3>7 DEF CopiesTrusted
  <2> QED
    BY <1>3, <2>4, <2>5, <2>6, <2>7
<1> QED
  BY <1>4, <1>5, <1>6, <1>7

(* The provider takes a refresh: if nobody else has to do with the grant,  *)
(* its old copies are succeeded by what is about to be stored.             *)
LEMMA RotateStep ==
  ASSUME ConnInv, NEW p \in CnPods, Rotate(p)
  PROVE  ConnInv'
<1> USE CnAssumption DEF ConnInv, podCreds
<1> DEFINE g == grantOf[holds[p]]
           N == NextToken
<1>1. /\ holds[p] \in Minted /\ unsaved[p] = NoToken /\ answer[p] = NoToken /\ seed[p] = NoSeed
      /\ answer' = [answer EXCEPT ![p] = N]
      /\ doubtful' = IF Shared(p) \/ p \notin keyed THEN doubtful \union {g} ELSE doubtful
      /\ UNCHANGED <<kind, disk, mirror, stamps, flow, seed, holds, keyed, unsaved>>
  <2>1. holds[p] \in Tokens
    BY DEF Rotate
  <2>2. holds[p] \notin {NoToken, Static}
    BY <2>1 DEF Tokens, NoToken, Static
  <2> QED
    BY <2>2 DEF Rotate, MintedOnly
<1>2. g \in Tokens /\ g \in 1..N
  BY <1>1, TokensCounted DEF Tokens
<1>3. /\ N \in Tokens
      /\ grantOf' \in [Tokens -> 0..MaxMint]
      /\ Minted' = Minted \union {N}
      /\ \A t \in Tokens : grantOf'[t] <= t /\ (t < NextToken' <=> grantOf'[t] # 0)
      /\ grantOf'[N] = g
      /\ \A t \in Minted : grantOf'[t] = grantOf[t]
      /\ \A t \in Minted : Consumed(t)' => Consumed(t) \/ grantOf[t] = g
      /\ \A t : t = N => ~Consumed(t)'
  BY <1>2, MintStep DEF Rotate
<1>4. N \notin Minted \union {NoToken, Static} /\ NoToken \notin Minted /\ Static \notin Minted
  BY TokensCounted DEF NoToken, Static
<1>5. grantOf'[holds[p]] = g
  BY <1>1, <1>3
<1> HIDE DEF g, N
<1>6. answer'[p] = N /\ \A q \in CnPods : q # p => answer'[q] = answer[q]
  BY <1>1 DEF ConnTypeOK
<1>7. ConnTypeOK'
  BY <1>1, <1>2, <1>3 DEF ConnTypeOK
<1>8. MintedOnly'
  BY <1>1, <1>3 DEF MintedOnly
<1>9. AnswersDue'
  <2>1. \A q \in CnPods : q # p /\ answer'[q] # NoToken =>
          /\ answer'[q] \in Minted' /\ holds'[q] \in Minted' /\ unsaved'[q] = NoToken
          /\ grantOf'[answer'[q]] = grantOf'[holds'[q]]
          /\ q \notin keyed' => grantOf'[answer'[q]] \in doubtful'
    BY <1>1, <1>3, <1>6 DEF AnswersDue
  <2>2. /\ answer'[p] \in Minted' /\ holds'[p] \in Minted' /\ unsaved'[p] = NoToken
        /\ grantOf'[answer'[p]] = grantOf'[holds'[p]]
        /\ p \notin keyed' => grantOf'[answer'[p]] \in doubtful'
    BY <1>1, <1>3, <1>5, <1>6
  <2> QED
    BY <2>1, <2>2 DEF AnswersDue
<1>10. FlowOwns'
  <2>1. flow.tok # NoToken => flow.tok \in Minted /\ flow.tok # N /\ g # flow.tok
    BY <1>1, <1>4 DEF FlowOwns, MintedOnly, g
  <2> QED
    BY <1>1, <1>3, <2>1 DEF FlowOwns
<1>11. CopiesTrusted'
  <2>1. \A t : Trusted(t) /\ (t \in Minted => grantOf[t] # g \/ g \in doubtful') => Trusted(t)'
    BY <1>1, <1>3 DEF Trusted
  <2>2. \A t : t = N => Trusted(t)'
    BY <1>3 DEF Trusted
  <2>3. Trusted(NoToken)'
    BY <1>3, <1>4 DEF Trusted
  <2>4. \A t : Succeeded(t) => Succeeded(t)'
    <3> SUFFICES ASSUME NEW t, Succeeded(t) PROVE Succeeded(t)'
      OBVIOUS
    <3>1. PICK q \in CnPods : \E u \in {unsaved[q], answer[q]} :
            u \in Minted /\ t \in Minted /\ grantOf[u] = grantOf[t]
      BY DEF Succeeded
    <3>2. q # p
      BY <1>1, <1>4, <3>1
    <3> QED
      BY <1>1, <1>3, <1>6, <3>1, <3>2 DEF Succeeded
  <2>5. CASE g \in doubtful'
    <3>1. \A t : Trusted(t) => Trusted(t)'
      BY <2>1, <2>5
    <3>2. \A q \in CnPods : /\ Trusted(holds[q])' \/ answer'[q] # NoToken
                            /\ Trusted(answer[q])' /\ Trusted(unsaved[q])'
      BY <1>1, <1>6, <2>2, <3>1 DEF CopiesTrusted
    <3> QED
      BY <1>1, <2>4, <3>1, <3>2 DEF CopiesTrusted
  <2>6. CASE g \notin doubtful'
    <3>1. ~Shared(p)
      BY <1>1, <2>6 DEF ConnTypeOK
    <3>2. \A q \in CnPods \ {p} :
            /\ seed[q] = NoSeed
            /\ \A t \in {holds[q], unsaved[q], answer[q]} : t \in Minted => grantOf[t] # g
      BY <1>4, <3>1 DEF Shared, g, AnswersDue
    <3>3. \A q \in CnPods : /\ Trusted(holds[q])' \/ answer'[q] # NoToken
                            /\ Trusted(answer[q])' /\ Trusted(unsaved[q])'
      <4>1. \A q \in CnPods \ {p} : /\ Trusted(holds[q])' \/ answer'[q] # NoToken
                                    /\ Trusted(answer[q])' /\ Trusted(unsaved[q])'
        BY <1>1, <1>6, <2>1, <3>2 DEF CopiesTrusted
      <4>2. answer'[p] # NoToken /\ Trusted(answer[p])' /\ Trusted(unsaved[p])'
        BY <1>1, <1>4, <1>6, <2>2, <2>3
      <4> QED
        BY <4>1, <4>2
    <3>4. \A q \in CnPods : seed'[q] = NoSeed
      BY <1>1, <3>2
    <3>5. \A t : Trusted(t) => Trusted(t)' \/ Succeeded(t)'
      <4>1. \A t \in Minted : grantOf[t] = g => Succeeded(t)'
        BY <1>3, <1>6 DEF Succeeded
      <4>2. \A t : Trusted(t) /\ ~Succeeded(t)' => Trusted(t)'
        BY <2>1, <4>1
      <4> QED
        BY <4>2
    <3>6. /\ Trusted(disk.tok)' \/ Succeeded(disk.tok)' \/ mirror'.at > disk'.at
          /\ Trusted(mirror.tok)' \/ Succeeded(mirror.tok)'
      BY <1>1, <2>4, <3>5 DEF CopiesTrusted
    <3> QED
      BY <2>3, <3>3, <3>4, <3>6 DEF CopiesTrusted, NoSeed, NoCopy
  <2> QED
    BY <2>5, <2>6
<1> QED
  BY <1>7, <1>8, <1>9, <1>10, <1>11

(* The vault stores what the provider answered, or never sees it.          *)
LEMMA StoreStep ==
  ASSUME ConnInv, NEW p \in CnPods, ReplaceCred(p) \/ AnswerLost(p)
  PROVE  ConnInv'
<1> USE CnAssumption DEF ConnInv, podCreds
<1> DEFINE got == answer[p]
<1>1. /\ grantOf' = grantOf /\ flow' = flow /\ seed' = seed /\ disk' = disk /\ kind' = kind
      /\ mirror' = mirror /\ stamps' = stamps /\ keyed' = keyed /\ doubtful \subseteq doubtful'
      /\ got # NoToken /\ answer' = [answer EXCEPT ![p] = NoToken]
  BY DEF ReplaceCred, AnswerLost
<1>2. /\ Minted' = Minted /\ NextToken' = NextToken
      /\ \A t : Trusted(t) => Trusted(t)'
  BY <1>1, SameGrants, TrustKept
<1>3. /\ got \in Minted /\ holds[p] \in Minted /\ unsaved[p] = NoToken /\ Trusted(got)
      /\ grantOf[got] = grantOf[holds[p]] /\ grantOf[got] \in Tokens
      /\ p \notin keyed => grantOf[got] \in doubtful
  BY <1>1, TokensCounted DEF AnswersDue, CopiesTrusted
<1>4. Trusted(NoToken)'
  BY <1>2, TokensCounted DEF Trusted
<1>5. NoToken \notin Minted
  BY TokensCounted
<1> HIDE DEF got
<1>6. answer'[p] = NoToken /\ \A q \in CnPods : q # p => answer'[q] = answer[q]
  BY <1>1 DEF ConnTypeOK
<1>7. CASE ReplaceCred(p)
  <2>1. /\ holds' = [holds EXCEPT ![p] = got] /\ doubtful' = doubtful
        /\ unsaved' = [unsaved EXCEPT ![p] = IF p \in keyed THEN got ELSE NoToken]
    BY <1>7 DEF ReplaceCred, got
  <2>2. /\ holds'[p] = got /\ unsaved'[p] \in {got, NoToken} /\ (p \in keyed => unsaved'[p] = got)
        /\ \A q \in CnPods : q # p => holds'[q] = holds[q] /\ unsaved'[q] = unsaved[q]
    BY <2>1 DEF ConnTypeOK
  <2>3. ConnTypeOK'
    <3>1. got \in Tokens
      BY <1>3 DEF Minted
    <3> QED
      BY <1>1, <1>2, <2>1, <3>1 DEF ConnTypeOK
  <2>4. MintedOnly'
    <3>1. \A q \in CnPods : /\ unsaved'[q] \in Minted \union {NoToken}
                            /\ holds'[q] \in Minted \union {NoToken, Static}
                            /\ seed[q] # NoSeed => holds'[q] = NoToken
      BY <1>3, <1>5, <2>2 DEF MintedOnly
    <3> QED
      BY <1>1, <1>2, <3>1 DEF MintedOnly
  <2>5. AnswersDue'
    BY <1>1, <1>2, <1>6, <2>2 DEF AnswersDue
  <2>6. FlowOwns'
    <3>1. flow.tok # NoToken => got # flow.tok
      BY <1>3 DEF FlowOwns
    <3> QED
      BY <1>1, <1>2, <2>2, <3>1 DEF FlowOwns
  <2>7. CopiesTrusted'
    <3>1. \A t : Succeeded(t) => Succeeded(t)' \/ Trusted(t)'
      <4> SUFFICES ASSUME NEW t, Succeeded(t) PROVE Succeeded(t)' \/ Trusted(t)'
        OBVIOUS
      <4>1. PICK q \in CnPods : \E u \in {unsaved[q], answer[q]} :
              u \in Minted /\ t \in Minted /\ grantOf[u] = grantOf[t]
        BY DEF Succeeded
      <4>2. CASE q # p
        BY <1>1, <1>2, <1>6, <2>2, <4>1, <4>2 DEF Succeeded
      <4>3. CASE q = p /\ p \in keyed
        BY <1>1, <1>2, <1>3, <1>5, <2>2, <4>1, <4>3 DEF Succeeded, got
      <4>4. CASE q = p /\ p \notin keyed
        BY <1>1, <1>2, <1>3, <1>5, <4>1, <4>4 DEF Trusted, got
      <4> QED
        BY <4>2, <4>3, <4>4
    <3>2. \A t : t = got => Trusted(t)'
      BY <1>2, <1>3
    <3>3. \A q \in CnPods : /\ Trusted(holds[q])' \/ answer'[q] # NoToken
                            /\ Trusted(answer[q])' /\ Trusted(unsaved[q])'
      BY <1>2, <1>4, <1>6, <2>2, <3>2 DEF CopiesTrusted
    <3> QED
      BY <1>1, <1>2, <3>1, <3>3 DEF CopiesTrusted
  <2> QED
    BY <2>3, <2>4, <2>5, <2>6, <2>7
<1>8. CASE AnswerLost(p)
  <2>1. holds' = holds /\ unsaved' = unsaved /\ doubtful' = doubtful \union {grantOf[got]}
    BY <1>8 DEF AnswerLost, got
  <2>2. ConnTypeOK'
    BY <1>1, <1>2, <1>3, <2>1 DEF ConnTypeOK
  <2>3. MintedOnly' /\ AnswersDue' /\ FlowOwns'
    BY <1>1, <1>2, <1>6, <2>1 DEF MintedOnly, AnswersDue, FlowOwns
  <2>4. CopiesTrusted'
    <3>1. \A t : Succeeded(t) => Succeeded(t)' \/ Trusted(t)'
      BY <1>1, <1>2, <1>3, <1>5, <1>6, <2>1 DEF Succeeded, Trusted, got
    <3>2. \A t : t = holds[p] => Trusted(t)'
      BY <1>1, <1>3, <2>1 DEF Trusted
    <3>3. \A q \in CnPods : /\ Trusted(holds[q])' \/ answer'[q] # NoToken
                            /\ Trusted(answer[q])' /\ Trusted(unsaved[q])'
      BY <1>2, <1>4, <1>6, <2>1, <3>2 DEF CopiesTrusted
    <3> QED
      BY <1>1, <1>2, <3>1, <3>3 DEF CopiesTrusted
  <2> QED
    BY <2>2, <2>3, <2>4
<1> QED
  BY <1>7, <1>8

(* The broker writes a rotation back, fails to, loses a pod or restarts.   *)
LEMMA MirrorStep ==
  ASSUME ConnInv,
         BrokerRestarts \/ \E p \in CnPods : PersistRotation(p) \/ PersistFails(p) \/ PodDown(p)
  PROVE  ConnInv'
<1> USE CnAssumption DEF ConnInv, podCreds
<1>1. /\ grantOf' = grantOf /\ flow' = flow /\ seed' = seed /\ disk' = disk /\ kind' = kind
      /\ doubtful \subseteq doubtful'
  BY DEF BrokerRestarts, PersistRotation, PersistFails, PodDown
<1>2. /\ Minted' = Minted /\ NextToken' = NextToken
      /\ \A t : Trusted(t) => Trusted(t)'
  BY <1>1, SameGrants, TrustKept
<1>3. Trusted(NoToken)'
  BY <1>2, TokensCounted DEF Trusted
<1>4. ASSUME NEW p \in CnPods, PersistRotation(p) PROVE ConnInv'
  <2>1. /\ unsaved[p] # NoToken /\ stamps < MaxStamp /\ stamps' = stamps + 1
        /\ mirror' = [tok |-> unsaved[p], at |-> stamps + 1]
        /\ unsaved' = [unsaved EXCEPT ![p] = NoToken]
        /\ holds' = holds /\ keyed' = keyed /\ answer' = answer /\ doubtful' = doubtful
    BY <1>4 DEF PersistRotation
  <2>2. unsaved[p] \in Minted /\ unsaved[p] \in Tokens /\ Trusted(unsaved[p])
    BY <2>1 DEF MintedOnly, CopiesTrusted, Minted
  <2>3. unsaved'[p] = NoToken /\ \A q \in CnPods : q # p => unsaved'[q] = unsaved[q]
    BY <2>1 DEF ConnTypeOK
  <2>4. mirror'.tok = unsaved[p] /\ mirror'.at = stamps + 1
    BY <2>1
  <2>5. ConnTypeOK'
    <3>1. stamps + 1 \in 1..MaxStamp
      BY <2>1 DEF ConnTypeOK
    <3>2. mirror' \in Copies
      BY <2>1, <2>2, <3>1 DEF Copies
    <3> QED
      BY <1>1, <1>2, <2>1, <3>1, <3>2 DEF ConnTypeOK
  <2>6. MintedOnly' /\ AnswersDue'
    <3>1. /\ disk.at \in Int /\ stamps \in Int
          /\ \A q \in CnPods : seed[q].mir.at \in Int /\ seed[q].use.at \in Int
      BY DEF ConnTypeOK, Copies, NoCopy
    <3> QED
      BY <1>1, <1>2, <2>1, <2>2, <2>3, <2>4, <3>1 DEF MintedOnly, AnswersDue
  <2>7. FlowOwns'
    BY <1>1, <1>2, <2>1, <2>3, <2>4 DEF FlowOwns
  <2>8. CopiesTrusted'
    <3>1. mirror'.at > disk'.at
      BY <1>1, <2>4 DEF MintedOnly, ConnTypeOK, Copies, NoCopy
    <3>2. Trusted(mirror.tok)'
      BY <1>2, <2>2, <2>4
    <3> QED
      BY <1>1, <1>2, <1>3, <2>1, <2>3, <3>1, <3>2 DEF CopiesTrusted
  <2> QED
    BY <2>5, <2>6, <2>7, <2>8
<1>5. ASSUME NEW p \in CnPods, PersistFails(p) PROVE ConnInv'
  <2>1. /\ unsaved[p] # NoToken /\ doubtful' = doubtful \union {grantOf[unsaved[p]]}
        /\ unsaved' = [unsaved EXCEPT ![p] = NoToken]
        /\ holds' = holds /\ keyed' = keyed /\ answer' = answer
        /\ mirror' = mirror /\ stamps' = stamps
    BY <1>5 DEF PersistFails
  <2>2. unsaved[p] \in Minted /\ grantOf[unsaved[p]] \in Tokens
    BY <2>1, TokensCounted DEF MintedOnly
  <2>3. unsaved'[p] = NoToken /\ \A q \in CnPods : q # p => unsaved'[q] = unsaved[q]
    BY <2>1 DEF ConnTypeOK
  <2>4. ConnTypeOK'
    BY <1>1, <1>2, <2>1, <2>2 DEF ConnTypeOK
  <2>5. MintedOnly' /\ AnswersDue' /\ FlowOwns'
    BY <1>1, <1>2, <2>1, <2>3 DEF MintedOnly, AnswersDue, FlowOwns
  <2>6. CopiesTrusted'
    <3>1. \A t : Succeeded(t) => Succeeded(t)' \/ Trusted(t)'
      BY <1>1, <1>2, <2>1, <2>3 DEF Succeeded, Trusted
    <3> QED
      BY <1>1, <1>2, <1>3, <2>1, <2>3, <3>1 DEF CopiesTrusted
  <2> QED
    BY <2>4, <2>5, <2>6
<1>6. ASSUME NEW p \in CnPods, PodDown(p) PROVE ConnInv'
  <2>1. /\ holds' = [holds EXCEPT ![p] = NoToken] /\ keyed' = keyed \ {p}
        /\ answer' = [answer EXCEPT ![p] = NoToken]
        /\ unsaved' = unsaved /\ mirror' = mirror /\ stamps' = stamps
        /\ doubtful' = doubtful \union {grantOf[t] : t \in Minted \intersect {answer[p]}}
    BY <1>6 DEF PodDown
  <2>2. /\ holds'[p] = NoToken /\ answer'[p] = NoToken
        /\ \A q \in CnPods : q # p => holds'[q] = holds[q] /\ answer'[q] = answer[q]
    BY <2>1 DEF ConnTypeOK
  <2>3. ConnTypeOK'
    <3>1. doubtful' \subseteq Tokens
      BY <2>1, TokensCounted DEF ConnTypeOK
    <3> QED
      BY <1>1, <1>2, <2>1, <3>1 DEF ConnTypeOK
  <2>4. MintedOnly' /\ AnswersDue' /\ FlowOwns'
    BY <1>1, <1>2, <2>1, <2>2 DEF MintedOnly, AnswersDue, FlowOwns
  <2>5. CopiesTrusted'
    <3>1. \A t : Succeeded(t) => Succeeded(t)' \/ Trusted(t)'
      <4> SUFFICES ASSUME NEW t, Succeeded(t) PROVE Succeeded(t)' \/ Trusted(t)'
        OBVIOUS
      <4>1. PICK q \in CnPods : \E u \in {unsaved[q], answer[q]} :
              u \in Minted /\ t \in Minted /\ grantOf[u] = grantOf[t]
        BY DEF Succeeded
      <4>2. PICK u \in {unsaved[q], answer[q]} :
              u \in Minted /\ t \in Minted /\ grantOf[u] = grantOf[t]
        BY <4>1
      <4>3. CASE q # p \/ u = unsaved[q]
        BY <1>1, <1>2, <2>1, <2>2, <4>2, <4>3 DEF Succeeded
      <4>4. CASE q = p /\ u = answer[q]
        BY <1>1, <1>2, <2>1, <4>2, <4>4 DEF Trusted
      <4> QED
        BY <4>2, <4>3, <4>4
    <3>2. \A q \in CnPods : /\ Trusted(holds[q])' \/ answer'[q] # NoToken
                            /\ Trusted(answer[q])' /\ Trusted(unsaved[q])'
      BY <1>2, <1>3, <2>1, <2>2 DEF CopiesTrusted
    <3> QED
      BY <1>1, <1>2, <2>1, <3>1, <3>2 DEF CopiesTrusted
  <2> QED
    BY <2>3, <2>4, <2>5
<1>7. CASE BrokerRestarts
  <2>1. /\ holds' = [p \in CnPods |-> NoToken] /\ keyed' = {}
        /\ answer' = [p \in CnPods |-> NoToken] /\ unsaved' = [p \in CnPods |-> NoToken]
        /\ doubtful' = doubtful \union Unmirrored /\ mirror' = mirror /\ stamps' = stamps
    BY <1>7 DEF BrokerRestarts
  <2>2. Unmirrored \subseteq Tokens
    BY TokensCounted DEF Unmirrored, MintedOnly
  <2>3. ConnTypeOK'
    BY <1>1, <1>2, <2>1, <2>2 DEF ConnTypeOK
  <2>4. MintedOnly' /\ AnswersDue' /\ FlowOwns'
    BY <1>1, <1>2, <2>1 DEF MintedOnly, AnswersDue, FlowOwns
  <2>5. CopiesTrusted'
    <3>1. \A t : Succeeded(t) => Trusted(t)'
      BY <1>1, <2>1, InFlightMirrored DEF Trusted
    <3> QED
      BY <1>1, <1>2, <1>3, <2>1, <3>1 DEF CopiesTrusted
  <2> QED
    BY <2>3, <2>4, <2>5
<1> QED
  BY <1>4, <1>5, <1>6, <1>7

LEMMA ConnInductive == ConnSpec => []ConnInv
<1>1. ConnInit => ConnInv
  <2> SUFFICES ASSUME ConnInit PROVE ConnInv
    OBVIOUS
  <2>1. Minted = {}
    BY DEF ConnInit, Minted
  <2>2. NextToken = 1
    BY <2>1, FS_EmptySet DEF NextToken
  <2>3. ConnTypeOK
    BY CnAssumption, <2>2 DEF ConnInit, ConnTypeOK, NoFlow, NoSeed, NoCopy, Copies, Tokens
  <2>4. MintedOnly /\ AnswersDue /\ FlowOwns
    BY CnAssumption DEF ConnInit, MintedOnly, AnswersDue, FlowOwns, NoFlow, NoSeed, NoCopy
  <2>5. CopiesTrusted
    BY <2>1 DEF ConnInit, CopiesTrusted, Trusted, NoSeed
  <2> QED
    BY <2>3, <2>4, <2>5 DEF ConnInv
<1>2. ConnInv /\ [ConnNext]_connVars => ConnInv'
  <2> SUFFICES ASSUME ConnInv, [ConnNext]_connVars PROVE ConnInv'
    OBVIOUS
  <2>1. CASE UNCHANGED connVars
    BY <2>1, SameGrants DEF connVars, podCreds, ConnInv, ConnTypeOK, MintedOnly, AnswersDue, FlowOwns,
       CopiesTrusted, Trusted, Succeeded
  <2> QED
    BY <2>1, ConnectStep, UpStep, RotateStep, StoreStep, MirrorStep DEF ConnNext
<1> QED
  BY <1>1, <1>2, PTL DEF ConnSpec

(* The copies of a connection keep their types: tokens are minted in       *)
(* order, and a grant is named by the first of its own.                    *)
THEOREM ConnTypes == ConnSpec => []ConnTypeOK
BY ConnInductive, PTL DEF ConnInv

(* For any pods, and however often tokens are minted and copies stamped: a *)
(* pod is seeded with the newest token of its grant and keeps it once the  *)
(* vault has the answer, but for the sharing, the lost answers and the     *)
(* lost copies that doubtful names.                                        *)
THEOREM SeedsCurrent == ConnSpec => []SeedIsCurrent
<1>1. ConnInv => SeedIsCurrent
  BY DEF ConnInv, CopiesTrusted, Trusted, SeedIsCurrent
<1> QED
  BY <1>1, ConnInductive, PTL

-----------------------------------------------------------------------------
(* The types of the other components.                                      *)

L4Counts ==
  /\ l4at \in Stages4 /\ proto \in {"redis", "postgres"} /\ pre \in 1..3
  /\ podRead \in 0..podBuf /\ podBuf \in 0..podSent /\ podSent \in 0..(pre + Queries)
  /\ l4at = "free" => podSent = 0
  /\ upSent \in 0..Answers

L4Told ==
  /\ l4handle \in {"live", "dead"} /\ admitted \in BOOLEAN /\ accepted \in BOOLEAN
  /\ proof \in {"none", "due", "undue"} /\ told \in {"nothing", "ok", "error"}

(* A session's counters never run ahead of each other.                     *)
THEOREM L4Types == L4Spec => []L4TypeOK
<1> USE L4Assumption DEF podStream, l4auth
<1>1. L4Init => L4Counts /\ L4Told
  <2>1. L4Init => L4Counts
    BY DEF L4Init, L4Counts, Stages4
  <2>2. L4Init => L4Told
    BY DEF L4Init, L4Told
  <2> QED
    BY <2>1, <2>2
<1>2. L4Counts /\ [L4Next]_l4vars => L4Counts'
  <2> SUFFICES ASSUME L4Counts, [L4Next]_l4vars PROVE L4Counts'
    OBVIOUS
  <2> USE DEF L4Counts, Stages4
  <2>1. CASE Accept("redis", 1) \/ Accept("postgres", 2) \/ Accept("postgres", 3)
    BY <2>1 DEF Accept
  <2>2. CASE PodSends \/ FillPodBuffer
    BY <2>2 DEF PodSends, FillPodBuffer
  <2>3. CASE ReadStartup \/ ReadHandle
    BY <2>3 DEF ReadStartup, ReadHandle
  <2>4. CASE ReadFails \/ ResolveHandle \/ Dial
    BY <2>4 DEF ReadFails, ResolveHandle, Dial, Close
  <2>5. CASE UpstreamAccepts \/ AsksSASL \/ ServerFinal
    BY <2>5 DEF UpstreamAccepts, AsksSASL, ServerFinal, UpstreamOK
  <2>6. CASE UpstreamFails \/ TellPod
    BY <2>6 DEF UpstreamFails, TellPod, Close
  <2>7. ASSUME NEW nonce, NEW iters, ServerFirst(nonce, iters) PROVE L4Counts'
    BY <2>7 DEF ServerFirst, Close
  <2>8. CASE UpstreamSends \/ ForwardUp \/ ForwardDown \/ SpliceEnds \/ L4Revoke
    BY <2>8 DEF UpstreamSends, ForwardUp, ForwardDown, SpliceEnds, L4Revoke
  <2>9. CASE NextSession
    BY <2>9 DEF NextSession
  <2>10. CASE UNCHANGED l4vars
    BY <2>10 DEF l4vars
  <2> QED
    BY <2>1, <2>2, <2>3, <2>4, <2>5, <2>6, <2>7, <2>8, <2>9, <2>10 DEF L4Next, Auth4
<1>3. L4Told /\ [L4Next]_l4vars => L4Told'
  <2> SUFFICES ASSUME L4Told, [L4Next]_l4vars PROVE L4Told'
    OBVIOUS
  <2> USE DEF L4Told
  <2>1. CASE Accept("redis", 1) \/ Accept("postgres", 2) \/ Accept("postgres", 3)
    BY <2>1 DEF Accept
  <2>2. CASE PodSends \/ FillPodBuffer \/ ReadStartup \/ ReadHandle
    BY <2>2 DEF PodSends, FillPodBuffer, ReadStartup, ReadHandle
  <2>3. CASE ReadFails \/ ResolveHandle \/ Dial
    BY <2>3 DEF ReadFails, ResolveHandle, Dial, Close
  <2>4. CASE UpstreamAccepts \/ AsksSASL \/ ServerFinal
    BY <2>4 DEF UpstreamAccepts, AsksSASL, ServerFinal, UpstreamOK
  <2>5. CASE UpstreamFails \/ TellPod
    BY <2>5 DEF UpstreamFails, TellPod, Close
  <2>6. ASSUME NEW nonce, NEW iters, ServerFirst(nonce, iters) PROVE L4Told'
    BY <2>6 DEF ServerFirst, Close
  <2>7. CASE UpstreamSends \/ ForwardUp \/ ForwardDown \/ SpliceEnds \/ L4Revoke
    BY <2>7 DEF UpstreamSends, ForwardUp, ForwardDown, SpliceEnds, L4Revoke
  <2>8. CASE NextSession
    BY <2>8 DEF NextSession
  <2>9. CASE UNCHANGED l4vars
    BY <2>9 DEF l4vars
  <2> QED
    BY <2>1, <2>2, <2>3, <2>4, <2>5, <2>6, <2>7, <2>8, <2>9 DEF L4Next, Auth4
<1>4. L4Counts /\ L4Told => L4TypeOK
  BY DEF L4Counts, L4Told, L4TypeOK
<1> QED
  BY <1>1, <1>2, <1>3, <1>4, PTL DEF L4Spec

LEMMA ServeTypes == ServeSpec => []ServeTypeOK
<1>1. ServeInit => ServeTypeOK
  BY DEF ServeInit, ServeTypeOK
<1>2. ServeTypeOK /\ [ServeNext]_serveVars => ServeTypeOK'
  <2> SUFFICES ASSUME ServeTypeOK, [ServeNext]_serveVars PROVE ServeTypeOK'
    OBVIOUS
  <2> USE DEF ServeTypeOK
  <2>1. CASE OpenStore \/ StartBroker \/ StartDaemon \/ Listen
    BY <2>1 DEF OpenStore, StartBroker, StartDaemon, Listen
  <2>2. CASE AcceptEnds
    BY <2>2 DEF AcceptEnds
  <2>3. CASE Select \/ ServeFails
    BY <2>3 DEF Select, ServeFails, Leave
  <2>4. CASE Supervise
    BY <2>4 DEF Supervise, SeeDeath, Report, TearDown, StandDown
  <2>5. CASE Shutdown
    BY <2>5 DEF Shutdown, CloseServer, StopBroker, Tidy, Leave
  <2>6. CASE Interrupt \/ KeeperExits
    BY <2>6 DEF Interrupt, KeeperExits
  <2>7. CASE UNCHANGED serveVars
    BY <2>7 DEF serveVars
  <2> QED
    BY <2>1, <2>2, <2>3, <2>4, <2>5, <2>6, <2>7 DEF ServeNext
<1> QED
  BY <1>1, <1>2, PTL DEF ServeSpec

LEMMA PsTypes == PsSpec => []PsTypeOK
<1>1. LookInv => PsTypeOK
  BY DEF LookInv, StoreTypes, Looks, PsTypeOK
<1> QED
  BY <1>1, LookInductive, PTL

LeafRec == [host : Hosts, left : Lefts]

ShakeRec == [at : {"idle", "asked", "given", "shown"}, host : Hosts, given : Lefts, shown : Lefts]

(* The certificate's file is there for good once a pod has mounted it.     *)
MountedOK ==
  /\ mounted # {} => certFile # Missing
  /\ trust \in [CAPods -> (0..MaxCAs) \union {Torn}]

LeavesOK ==
  /\ lru \in Seq(LeafRec) /\ Len(lru) <= LeafCap
  /\ front \in [Hosts -> Lefts]
  /\ shake \in [Conns -> ShakeRec]

LEMMA CachedPlace ==
  ASSUME NEW h, Cached(h)
  PROVE  Place(h) \in 1..Len(lru)
BY DEF Cached, Place

LEMMA PutBounded ==
  ASSUME LeavesOK, NEW h \in Hosts, NEW left \in Lefts
  PROVE  Put(h, left) \in Seq(LeafRec) /\ Len(Put(h, left)) <= LeafCap
<1> DEFINE new == <<[host |-> h, left |-> left]>> \o Others(h)
           n == IF Len(new) < LeafCap THEN Len(new) ELSE LeafCap
<1>1. lru \in Seq(LeafRec) /\ Len(lru) \in Nat
  BY DEF LeavesOK
<1>2. Others(h) \in Seq(LeafRec)
  <2>1. CASE Cached(h)
    <3>1. Place(h) \in 1..Len(lru)
      BY <2>1, CachedPlace
    <3>2. SubSeq(lru, 1, Place(h) - 1) \in Seq(LeafRec) /\ SubSeq(lru, Place(h) + 1, Len(lru)) \in Seq(LeafRec)
      <4>1. \A i \in 1..Len(lru) : lru[i] \in LeafRec
        BY <1>1, ElementOfSeq
      <4>2. \A i \in 1..(Place(h) - 1) : lru[i] \in LeafRec
        BY <1>1, <3>1, <4>1
      <4>3. \A i \in (Place(h) + 1)..Len(lru) : lru[i] \in LeafRec
        BY <1>1, <3>1, <4>1
      <4>4. /\ 1 \in Int /\ Place(h) - 1 \in Int
            /\ Place(h) + 1 \in Int /\ Len(lru) \in Int
        BY <1>1, <3>1
      <4>5. SubSeq(lru, 1, Place(h) - 1) \in Seq(LeafRec)
        BY <4>2, <4>4, SubSeqProperties
      <4>6. SubSeq(lru, Place(h) + 1, Len(lru)) \in Seq(LeafRec)
        BY <4>3, <4>4, SubSeqProperties
      <4> QED
        BY <4>5, <4>6
    <3> QED
      BY <2>1, <3>2, ConcatProperties DEF Others, RemoveAt
  <2>2. CASE ~Cached(h)
    BY <1>1, <2>2 DEF Others
  <2> QED
    BY <2>1, <2>2
<1>3. [host |-> h, left |-> left] \in LeafRec
  BY DEF LeafRec
<1>4. <<[host |-> h, left |-> left]>> \in Seq(LeafRec)
  BY <1>3
<1>5. new \in Seq(LeafRec) /\ Len(new) \in Nat
  BY <1>2, <1>4, ConcatProperties, LenProperties
<1> HIDE DEF new
<1>6. n \in Nat /\ n <= LeafCap /\ n <= Len(new)
  BY <1>5, CAAssumption
<1>7. Put(h, left) = SubSeq(new, 1, n)
  BY DEF Put, new
<1> HIDE DEF n
<1>8. \A i \in 1..n : new[i] \in LeafRec
  BY <1>5, <1>6, ElementOfSeq
<1>9. /\ SubSeq(new, 1, n) \in Seq(LeafRec)
      /\ Len(SubSeq(new, 1, n)) = IF 1 <= n THEN n - 1 + 1 ELSE 0
  BY <1>6, <1>8, SubSeqProperties
<1> QED
  BY <1>6, <1>7, <1>9

LEMMA MountedStep ==
  ASSUME CAInv, MountedOK, [CANext]_caVars
  PROVE  MountedOK'
<1> USE CAAssumption DEF CAInv, FilesOK, MountedOK, Missing, Torn, podVars, fileVars
<1>1. CASE CALoad
  BY <1>1 DEF CALoad, LoadFiles, Generate, WriteCert, WriteKey
<1>2. CASE CACrash
  BY <1>2 DEF CACrash
<1>3. ASSUME NEW p \in CAPods, InjectEgressCA(p) PROVE MountedOK'
  BY <1>3 DEF InjectEgressCA
<1>4. ASSUME NEW p \in CAPods, TrustCopy(p) PROVE MountedOK'
  <2>1. certFile \in (0..MaxCAs) \union {Torn}
    BY <1>4 DEF TrustCopy
  <2> QED
    BY <1>4, <2>1 DEF TrustCopy
<1>5. ASSUME UNCHANGED <<fileVars, podVars>> PROVE MountedOK'
  BY <1>5
<1>6. CASE Age \/ \E c \in Conns : Handshake(c)
  BY <1>5, <1>6 DEF Age, Handshake, FrontHit, FrontMiss, SignLeaf, FrontPut, Hangup
<1>7. CASE UNCHANGED caVars
  BY <1>5, <1>7 DEF caVars
<1> QED
  BY <1>1, <1>2, <1>3, <1>4, <1>6, <1>7 DEF CANext

LEMMA LeavesStep ==
  ASSUME LeavesOK, [CANext]_caVars
  PROVE  LeavesOK'
<1> USE CAAssumption DEF LeavesOK
<1>1. NoLeaf \in Lefts /\ 0 \in Lefts /\ LeafTTL \in Lefts /\ \A n \in Lefts : Older(n) \in Lefts
  BY DEF Lefts, NoLeaf, Older
<1>2. NoShake \in ShakeRec
  BY <1>1 DEF NoShake, ShakeRec
<1>3. ASSUME UNCHANGED leafVars PROVE LeavesOK'
  BY <1>3 DEF leafVars
<1>4. CASE CACrash
  BY <1>1, <1>2, <1>4 DEF CACrash
<1>5. CASE Age
  <2>1. \A i \in 1..Len(lru) : lru[i] \in LeafRec
    BY ElementOfSeq
  <2>2. \A i \in 1..Len(lru) : [lru[i] EXCEPT !.left = Older(lru[i].left)] \in LeafRec
    BY <1>1, <2>1 DEF LeafRec
  <2>3. lru' = [i \in 1..Len(lru) |-> [lru[i] EXCEPT !.left = Older(lru[i].left)]]
    BY <1>5 DEF Age
  <2>4. lru' \in Seq(LeafRec) /\ Len(lru') = Len(lru)
    BY <2>2, <2>3
  <2>5. front' \in [Hosts -> Lefts]
    BY <1>1, <1>5 DEF Age
  <2> QED
    BY <1>5, <2>4, <2>5 DEF Age
<1>6. ASSUME NEW c \in Conns, NEW h \in Hosts, FrontHit(c, h) \/ FrontMiss(c, h) PROVE LeavesOK'
  <2>1. lru' = lru /\ front' = front
    BY <1>6 DEF FrontHit, FrontMiss
  <2>2. shake[c] \in ShakeRec /\ front[h] \in Lefts
    OBVIOUS
  <2>3. CASE FrontHit(c, h)
    <3>1. [shake[c] EXCEPT !.host = h, !.at = "shown", !.shown = front[h]] \in ShakeRec
      BY <2>2 DEF ShakeRec
    <3>2. shake' = [shake EXCEPT ![c] = [shake[c] EXCEPT !.host = h, !.at = "shown", !.shown = front[h]]]
      BY <2>3 DEF FrontHit
    <3> QED
      BY <2>1, <3>1, <3>2
  <2>4. CASE FrontMiss(c, h)
    <3>1. [shake[c] EXCEPT !.host = h, !.at = "asked"] \in ShakeRec
      BY <2>2 DEF ShakeRec
    <3>2. shake' = [shake EXCEPT ![c] = [shake[c] EXCEPT !.host = h, !.at = "asked"]]
      BY <2>4 DEF FrontMiss
    <3> QED
      BY <2>1, <3>1, <3>2
  <2> QED
    BY <1>6, <2>3, <2>4
<1>7. ASSUME NEW c \in Conns, SignLeaf(c) PROVE LeavesOK'
  <2> DEFINE h == shake[c].host
             left == IF Fresh(h) THEN LeftOf(h) ELSE LeafTTL
  <2>1. h \in Hosts
    BY DEF ShakeRec
  <2>2. left \in Lefts
    <3>1. CASE Fresh(h)
      <4>1. Place(h) \in 1..Len(lru)
        BY <3>1, CachedPlace DEF Fresh
      <4>2. lru[Place(h)] \in LeafRec
        BY <4>1, ElementOfSeq
      <4> QED
        BY <3>1, <4>2 DEF LeftOf, LeafRec
    <3>2. CASE ~Fresh(h)
      BY <1>1, <3>2
    <3> QED
      BY <3>1, <3>2
  <2>3. /\ lru' = Put(h, left) /\ front' = front
        /\ shake' = [shake EXCEPT ![c].at = "given", ![c].given = left]
    BY <1>7 DEF SignLeaf
  <2> HIDE DEF h, left
  <2>4. lru' \in Seq(LeafRec) /\ Len(lru') <= LeafCap
    BY <2>1, <2>2, <2>3, PutBounded
  <2>5. shake' \in [Conns -> ShakeRec]
    BY <2>2, <2>3 DEF ShakeRec
  <2> QED
    BY <2>3, <2>4, <2>5
<1>8. ASSUME NEW c \in Conns, FrontPut(c) PROVE LeavesOK'
  <2>1. shake[c].host \in Hosts /\ shake[c].given \in Lefts
    BY DEF ShakeRec
  <2>2. shake' \in [Conns -> ShakeRec]
    BY <1>8, <2>1 DEF FrontPut, ShakeRec
  <2> QED
    BY <1>8, <2>1, <2>2 DEF FrontPut
<1>9. ASSUME NEW c \in Conns, Hangup(c) PROVE LeavesOK'
  BY <1>2, <1>9 DEF Hangup
<1>10. CASE CALoad \/ \E p \in CAPods : InjectEgressCA(p) \/ TrustCopy(p)
  BY <1>3, <1>10 DEF CALoad, LoadFiles, Generate, WriteCert, WriteKey, InjectEgressCA, TrustCopy
<1>11. CASE UNCHANGED caVars
  BY <1>3, <1>11 DEF caVars
<1> QED
  BY <1>4, <1>5, <1>6, <1>7, <1>8, <1>9, <1>10, <1>11 DEF CANext, Handshake

(* A CA in use is one that was generated, and the keeper never caches more *)
(* leaves than its capacity, however they age and whatever is asked for.   *)
THEOREM CATypes == CASpec => []CATypeOK
<1>1. CAInit => MountedOK /\ LeavesOK
  <2>1. CAInit => MountedOK
    BY CAAssumption DEF CAInit, MountedOK
  <2>2. NoLeaf \in Lefts /\ NoShake \in ShakeRec
    BY CAAssumption DEF NoLeaf, Lefts, NoShake, ShakeRec
  <2>3. CAInit => LeavesOK
    BY CAAssumption, <2>2 DEF CAInit, LeavesOK
  <2> QED
    BY <2>1, <2>3
<1>2. CAInv /\ MountedOK /\ [CANext]_caVars => MountedOK'
  BY MountedStep
<1>3. LeavesOK /\ [CANext]_caVars => LeavesOK'
  BY LeavesStep
<1>4. CAInv /\ MountedOK /\ LeavesOK => CATypeOK
  BY CAAssumption DEF CAInv, FilesOK, LoadedOK, SoundOK, MountedOK, LeavesOK, LeafRec, ShakeRec,
     Good, Missing, Torn, Mismatch, CATypeOK
<1> QED
  BY <1>1, <1>2, <1>3, <1>4, CAInductive, PTL DEF CASpec

-----------------------------------------------------------------------------
(* The six, side by side.                                                  *)

(* A behaviour of the composition is one of each component: what is proved *)
(* of a component's own specification holds of the composition.            *)
THEOREM EachPartKept ==
  Spec => CASpec /\ ConnSpec /\ L4Spec /\ RulesSpec /\ PsSpec /\ ServeSpec
<1>1. Init => CAInit /\ ConnInit /\ L4Init /\ RulesInit /\ PsInit /\ ServeInit
  BY DEF Init
<1>2. [Next]_allVars => /\ [CANext]_caVars /\ [ConnNext]_connVars /\ [L4Next]_l4vars
                        /\ [RulesNext]_asked /\ [PsNext]_psVars /\ [ServeNext]_serveVars
  BY DEF Next, allVars
<1> QED
  BY <1>1, <1>2, PTL DEF Spec, CASpec, ConnSpec, L4Spec, RulesSpec, PsSpec, ServeSpec

(* Every component's variables have their types.                           *)
THEOREM PartTypes == Spec => []TypeOK
<1>1. CATypeOK /\ ConnTypeOK /\ L4TypeOK /\ PsTypeOK /\ ServeTypeOK => TypeOK
  BY DEF TypeOK
<1> QED
  BY <1>1, EachPartKept, CATypes, ConnTypes, L4Types, PsTypes, ServeTypes, PTL
=============================================================================
