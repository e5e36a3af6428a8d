------------------------------ MODULE HostProofs ------------------------------
(***************************************************************************)
(* What is proved of the commands that wait: the autoscaler, and the OAuth *)
(* flow of a connect command; and that beside the keeper each is what its  *)
(* own module says.                                                        *)
(***************************************************************************)
EXTENDS MCLiveness, TLAPS

-----------------------------------------------------------------------------
(* The autoscaler's lock.                                                  *)

LockInv ==
  /\ lockFile \in Ups \union {"free", "auto"}
  /\ ensure \in [Ups -> {"idle", "probe", "spawn", "done"}]
  /\ starting \in Nat
  /\ \A u \in Ups : lockFile = u => ensure[u] = "probe"
  /\ owed => \/ lockFile = "auto" \/ starting > 0
             \/ \E u \in Ups : ensure[u] \in {"probe", "spawn"}

LEMMA LockStep ==
  ASSUME LockInv, [AutoNext]_autoVars
  PROVE  LockInv'
<1> USE AutoAssumption DEF LockInv, lockVars, loopVars, autoVars
<1>1. ASSUME NEW u \in Ups, Ensure(u) PROVE LockInv'
  <2>1. CASE EnsureProbe(u)
    <3>1. CASE lockFile = "free"
      BY <2>1, <3>1 DEF EnsureProbe
    <3>2. CASE lockFile = "auto"
      BY <2>1, <3>2 DEF EnsureProbe
    <3>3. ASSUME NEW w \in Ups, lockFile = w PROVE LockInv'
      <4>1. lockFile # "free" /\ ensure[w] = "probe" /\ w # u
        BY <2>1, <3>3 DEF EnsureProbe
      <4>2. lockFile' = lockFile /\ ensure' = [ensure EXCEPT ![u] = "done"] /\ starting' = starting
        BY <2>1, <4>1 DEF EnsureProbe
      <4>3. ensure'[w] = "probe"
        BY <4>1, <4>2
      <4> QED
        BY <3>3, <4>1, <4>2, <4>3
    <3> QED
      BY <3>1, <3>2, <3>3
  <2>2. CASE EnsureRelease(u)
    BY <2>2 DEF EnsureRelease
  <2>3. CASE EnsureSpawn(u)
    BY <2>3 DEF EnsureSpawn
  <2>4. CASE EnsureFails(u)
    BY <2>4 DEF EnsureFails
  <2>5. CASE UpAgain(u)
    BY <2>5 DEF UpAgain
  <2> QED
    BY <1>1, <2>1, <2>2, <2>3, <2>4, <2>5 DEF Ensure
<1>2. CASE AutoStart
  <2>1. CASE lockFile \in Ups
    BY <1>2, <2>1 DEF AutoStart
  <2>2. CASE lockFile \in {"free", "auto"}
    BY <1>2, <2>2 DEF AutoStart
  <2> QED
    BY <2>1, <2>2
<1>3. CASE AutoExit
  BY <1>3 DEF AutoExit
<1>4. CASE Tick
  BY <1>4 DEF Tick
<1>5. ASSUME NEW p \in AutoPods, Loop(p) \/ Change(p) PROVE LockInv'
  <2>1. UNCHANGED lockVars
    BY <1>5 DEF Loop, Calm, Wait, Grow, GrowFails, Leave, Act, Change
  <2> QED
    BY <2>1
<1>6. CASE UNCHANGED autoVars
  BY <1>6
<1> QED
  BY <1>1, <1>2, <1>3, <1>4, <1>5, <1>6 DEF AutoNext

(* EnsureHostAutoscaler: when everything has settled after an up that did  *)
(* not fail, an autoscaler runs, whoever took whose probe for one.         *)
THEOREM AutoscalerIsThere == AutoSpec => []AutoscalerRuns
<1>1. AutoInit => LockInv
  BY AutoAssumption DEF AutoInit, LockInv
<1>2. LockInv /\ [AutoNext]_autoVars => LockInv'
  BY LockStep
<1>3. LockInv => AutoscalerRuns
  BY DEF LockInv, AutoscalerRuns
<1> QED
  BY <1>1, <1>2, <1>3, PTL DEF AutoSpec

LEMMA AutoTypesStep ==
  ASSUME LockInv, LockInv', AutoTypeOK, [AutoNext]_autoVars
  PROVE  AutoTypeOK'
<1> USE AutoAssumption DEF AutoTypeOK, Machines, NoPod
<1>1. /\ lockFile' \in Ups \union {"free", "auto"}
      /\ ensure' \in [Ups -> {"idle", "probe", "spawn", "done"}]
      /\ starting' \in Nat
      /\ \A u \in Ups : lockFile' = u => ensure'[u] = "probe"
  BY DEF LockInv
<1>2. ASSUME NEW u \in Ups, Ensure(u) PROVE AutoTypeOK'
  BY <1>1, <1>2 DEF Ensure, EnsureProbe, EnsureRelease, EnsureSpawn, EnsureFails, UpAgain, loopVars
<1>3. CASE AutoStart \/ AutoExit
  <2>1. machine' = machine /\ owed' \in BOOLEAN
    BY <1>3 DEF AutoStart, AutoExit
  <2>2. /\ todo' \in [AutoPods -> Machines \union {NoPod}]
        /\ streak' \in [AutoPods -> 0..Sustain] /\ quiet' \in [AutoPods -> 0..CoolTicks]
    <3>1. CASE Fresh0
      BY <3>1 DEF Fresh0
    <3>2. CASE UNCHANGED loopVars
      BY <3>2 DEF loopVars
    <3> QED
      BY <1>3, <3>1, <3>2 DEF AutoStart, AutoExit
  <2> QED
    BY <1>1, <2>1, <2>2
<1>4. CASE Tick
  <2>1. PICK d \in 1..CoolTicks :
          quiet' = [p \in AutoPods |-> IF machine[p] = NoPod THEN 0 ELSE Less(quiet[p], d)]
    BY <1>4 DEF Tick
  <2>2. \A p \in AutoPods : Less(quiet[p], d) \in 0..CoolTicks
    BY DEF Less
  <2>3. UNCHANGED <<lockVars, machine>> /\ todo' = machine
        /\ streak' = [p \in AutoPods |-> IF machine[p] = NoPod THEN 0 ELSE streak[p]]
    BY <1>4 DEF Tick
  <2> QED
    BY <1>1, <2>1, <2>2, <2>3 DEF lockVars
<1>5. ASSUME NEW p \in AutoPods, Loop(p) PROVE AutoTypeOK'
  <2>1. Longer(p) \in 0..Sustain
    BY DEF Longer, Capped
  <2>2. UNCHANGED lockVars /\ Done(p)
    BY <1>5 DEF Loop, Calm, Wait, Grow, GrowFails, Leave, Act
  <2>3. streak' \in [AutoPods -> 0..Sustain] /\ quiet' \in [AutoPods -> 0..CoolTicks]
    BY <1>5, <2>1 DEF Loop, Calm, Wait, Grow, GrowFails, Leave, Act
  <2>4. machine' \in [AutoPods -> Machines \union {NoPod}]
    <3>1. [machine[p] EXCEPT !.size = "strong"] \in Machines
      <4>1. machine[p] \in [mode : {"headless", "interactive", "none"},
                            size : {"weak", "strong", "none"}, hot : BOOLEAN]
        <5>1. machine[p] \in Machines \/ machine[p] = NoPod
          OBVIOUS
        <5>2. /\ Machines \subseteq [mode : {"headless", "interactive", "none"},
                                     size : {"weak", "strong", "none"}, hot : BOOLEAN]
              /\ NoPod \in [mode : {"headless", "interactive", "none"},
                            size : {"weak", "strong", "none"}, hot : BOOLEAN]
          BY ONLY DEF Machines, NoPod
        <5> QED
          BY ONLY <5>1, <5>2
      <4> QED
        BY ONLY <4>1 DEF Machines
    <3>2. CASE Grow(p)
      BY <3>1, <3>2 DEF Grow
    <3>3. CASE GrowFails(p)
      BY <3>3 DEF GrowFails
    <3>4. CASE UNCHANGED machine
      BY <3>4
    <3> QED
      BY <1>5, <3>2, <3>3, <3>4 DEF Loop, Calm, Wait, Leave
  <2> QED
    BY <1>1, <2>2, <2>3, <2>4 DEF lockVars, Done
<1>6. ASSUME NEW p \in AutoPods, Change(p) PROVE AutoTypeOK'
  BY <1>1, <1>6 DEF Change, lockVars, loopVars
<1>7. CASE UNCHANGED autoVars
  BY <1>7 DEF autoVars, lockVars, loopVars
<1> QED
  BY <1>2, <1>3, <1>4, <1>5, <1>6, <1>7 DEF AutoNext

(* The autoscaler's state is well formed: a streak never exceeds Sustain,  *)
(* no quiet time the cooldown, and a lock held by an up is a probe's.      *)
THEOREM AutoTypes == AutoSpec => []AutoTypeOK
<1>1. AutoInit => AutoTypeOK /\ LockInv
  <2> SUFFICES ASSUME AutoInit PROVE AutoTypeOK /\ LockInv
    OBVIOUS
  <2>1. LockInv /\ owed = FALSE
    BY AutoAssumption DEF AutoInit, LockInv
  <2>2. /\ todo \in [AutoPods -> Machines \union {NoPod}]
        /\ machine \in [AutoPods -> Machines \union {NoPod}]
        /\ streak \in [AutoPods -> 0..Sustain] /\ quiet \in [AutoPods -> 0..CoolTicks]
    BY AutoAssumption DEF AutoInit
  <2> QED
    BY <2>1, <2>2 DEF AutoTypeOK, LockInv
<1>2. AutoTypeOK /\ LockInv /\ [AutoNext]_autoVars => AutoTypeOK' /\ LockInv'
  BY LockStep, AutoTypesStep
<1> QED
  BY <1>1, <1>2, PTL DEF AutoSpec

-----------------------------------------------------------------------------
(* The autoscaler's loop.  The history of each pod is never behind its     *)
(* streak and its quiet time.                                              *)

PaceOf(p) ==
  /\ lastAct.over[p] \in Nat /\ lastAct.gap[p] \in Nat
  /\ streak[p] \in Nat /\ quiet[p] \in Nat
  /\ streak[p] <= Sustain
  /\ lastAct.over[p] >= streak[p]
  /\ lastAct.gap[p] + quiet[p] >= CoolTicks

PaceInv ==
  /\ lastAct \in [over : [AutoPods -> Nat], gap : [AutoPods -> Nat], due : BOOLEAN]
  /\ streak \in [AutoPods -> Nat] /\ quiet \in [AutoPods -> Nat]
  /\ \A p \in AutoPods : PaceOf(p)
  /\ lastAct.due

LEMMA PaceFresh ==
  ASSUME Fresh0
  PROVE  PaceInv'
  BY AutoAssumption DEF Fresh0, NoAct, PaceInv, PaceOf

LEMMA PaceTick ==
  ASSUME PaceInv, Tick
  PROVE  PaceInv'
<1> USE AutoAssumption DEF PaceInv, PaceOf
<1>1. PICK d \in 1..CoolTicks :
        /\ quiet' = [p \in AutoPods |-> IF machine[p] = NoPod THEN 0 ELSE Less(quiet[p], d)]
        /\ lastAct' = [lastAct EXCEPT
             !.over = [p \in AutoPods |-> IF machine[p] = NoPod THEN 0 ELSE @[p]],
             !.gap = [p \in AutoPods |-> IF machine[p] = NoPod THEN CoolTicks
                                         ELSE Capped(@[p] + d, CoolTicks)]]
  BY DEF Tick
<1>2. streak' = [p \in AutoPods |-> IF machine[p] = NoPod THEN 0 ELSE streak[p]]
  BY DEF Tick
<1>3. ASSUME NEW p \in AutoPods
      PROVE  Less(quiet[p], d) \in Nat /\ Capped(lastAct.gap[p] + d, CoolTicks) \in Nat
  <2>1. quiet[p] \in Nat /\ lastAct.gap[p] \in Nat /\ d \in Nat /\ CoolTicks \in Nat
    OBVIOUS
  <2> QED
    BY ONLY <2>1 DEF Less, Capped
<1>4. /\ lastAct'.over = [p \in AutoPods |-> IF machine[p] = NoPod THEN 0 ELSE lastAct.over[p]]
      /\ lastAct'.gap = [p \in AutoPods |-> IF machine[p] = NoPod THEN CoolTicks
                                            ELSE Capped(lastAct.gap[p] + d, CoolTicks)]
      /\ lastAct'.due = lastAct.due
  BY <1>1
<1>5. /\ lastAct' \in [over : [AutoPods -> Nat], gap : [AutoPods -> Nat], due : BOOLEAN]
      /\ streak' \in [AutoPods -> Nat] /\ quiet' \in [AutoPods -> Nat]
  BY <1>1, <1>2, <1>3
<1>6. ASSUME NEW p \in AutoPods PROVE PaceOf(p)'
  BY <1>1, <1>2, <1>4 DEF Less, Capped
<1> QED
  BY <1>4, <1>5, <1>6

LEMMA PaceLoop ==
  ASSUME PaceInv, NEW p \in AutoPods, Loop(p)
  PROVE  PaceInv'
<1> USE AutoAssumption DEF PaceInv, PaceOf
<1>1. CASE Calm(p)
  BY <1>1 DEF Calm
<1>2. CASE Wait(p)
  <2>1. lastAct.over[p] + 1 \in Nat /\ Longer(p) \in Nat /\ Capped(lastAct.over[p] + 1, Sustain) \in Nat
    BY DEF Longer, Capped
  <2>2. Longer(p) <= Sustain /\ Capped(lastAct.over[p] + 1, Sustain) >= Longer(p)
    BY DEF Longer, Capped
  <2>3. /\ streak' = [streak EXCEPT ![p] = Longer(p)]
        /\ lastAct' = [lastAct EXCEPT !.over[p] = Capped(lastAct.over[p] + 1, Sustain)]
        /\ quiet' = quiet
    BY <1>2 DEF Wait
  <2> QED
    BY <2>1, <2>2, <2>3
<1>3. CASE Act(p)
  <2>1. Longer(p) >= Sustain /\ quiet[p] = 0
    BY <1>3 DEF Act, Due
  <2>2. streak[p] + 1 >= Sustain
    BY <2>1 DEF Longer, Capped
  <2>3. lastAct.over[p] + 1 >= Sustain /\ lastAct.gap[p] >= CoolTicks
    BY <2>1, <2>2
  <2>4. /\ streak' = [streak EXCEPT ![p] = 0] /\ quiet' = [quiet EXCEPT ![p] = CoolTicks]
        /\ lastAct'.over = [lastAct.over EXCEPT ![p] = 0]
        /\ lastAct'.gap = [lastAct.gap EXCEPT ![p] = 0]
        /\ lastAct'.due
        /\ lastAct' \in [over : [AutoPods -> Nat], gap : [AutoPods -> Nat], due : BOOLEAN]
    BY <1>3, <2>3 DEF Act
  <2> QED
    BY <2>4
<1> QED
  BY <1>1, <1>2, <1>3 DEF Loop, Grow, GrowFails, Leave

(* tick and act: a pod is acted on after Sustain readings in a row over    *)
(* the mark and outside the quiet time of the last action.                 *)
THEOREM AutoscalerPaced == AutoSpec => []ActsOnlyWhenDue
<1>1. AutoInit => PaceInv
  BY AutoAssumption DEF AutoInit, NoAct, PaceInv, PaceOf
<1>2. PaceInv /\ [AutoNext]_autoVars => PaceInv'
  <2> SUFFICES ASSUME PaceInv, [AutoNext]_autoVars PROVE PaceInv'
    OBVIOUS
  <2> USE DEF loopVars, autoVars
  <2>1. ASSUME NEW p \in AutoPods, Change(p) PROVE PaceInv'
    BY <2>1 DEF Change, PaceInv, PaceOf
  <2>2. ASSUME NEW u \in Ups, Ensure(u) PROVE PaceInv'
    BY <2>2 DEF Ensure, EnsureProbe, EnsureRelease, EnsureSpawn, EnsureFails, UpAgain, PaceInv, PaceOf
  <2>3. CASE AutoStart \/ AutoExit
    <3>1. CASE Fresh0
      BY <3>1, PaceFresh
    <3>2. CASE UNCHANGED loopVars
      BY <3>2 DEF PaceInv, PaceOf
    <3> QED
      BY <2>3, <3>1, <3>2 DEF AutoStart, AutoExit
  <2>4. CASE UNCHANGED autoVars
    BY <2>4 DEF PaceInv, PaceOf
  <2> QED
    BY <2>1, <2>2, <2>3, <2>4, PaceTick, PaceLoop DEF AutoNext
<1>3. PaceInv => ActsOnlyWhenDue
  BY DEF PaceInv, ActsOnlyWhenDue
<1> QED
  BY <1>1, <1>2, <1>3, PTL DEF AutoSpec

-----------------------------------------------------------------------------
(* The OAuth flow.  While it polls, the timer makes up for what is missing *)
(* of the interval the server wants.                                       *)

FlowInv ==
  /\ timer \in Nat /\ interval \in Nat /\ wanted \in Nat /\ since \in Nat
  /\ stage = "poll" => interval = wanted /\ since <= wanted /\ since + timer >= wanted
  /\ result = "code" => consent = "granted"
  /\ stage = "exchange" => result = "code"
  /\ tooSoon = FALSE /\ genuine = TRUE
  /\ stage = "token" => consent = "granted"

LEMMA FlowPolls ==
  ASSUME FlowInv, PollPending \/ PollSlowDown \/ PollToken
  PROVE  FlowInv'
<1>1. Polls
  BY DEF PollPending, PollSlowDown, PollToken
<1>2. stage = "poll" /\ timer = 0 /\ since' = 0
  BY <1>1 DEF Polls
<1>3. ~(since < wanted)
  BY <1>2 DEF FlowInv
<1>4. tooSoon' = FALSE
  <2>1. tooSoon' = (tooSoon \/ since < wanted)
    BY <1>1 DEF Polls
  <2>2. tooSoon = FALSE
    BY DEF FlowInv
  <2> QED
    BY <2>1, <2>2, <1>3, Zenon
<1> USE <1>2, <1>4 DEF FlowInv
<1>5. CASE PollPending
  BY <1>5 DEF PollPending
<1>6. CASE PollSlowDown
  BY <1>6 DEF PollSlowDown
<1>7. CASE PollToken
  BY <1>7 DEF PollToken, Fails
<1> QED
  BY <1>5, <1>6, <1>7

LEMMA FlowTime ==
  ASSUME FlowInv, TimePasses
  PROVE  FlowInv'
<1> USE DEF FlowInv
<1>1. /\ timer' = Left(timer) /\ Left(timer) \in Nat /\ Left(timer) + 1 >= timer
      /\ since' = IF since < wanted THEN since + 1 ELSE since
      /\ UNCHANGED <<stage, device, interval, wanted, tooSoon, consent, result, genuine>>
  BY DEF TimePasses, Left
<1> QED
  BY <1>1

LEMMA FlowStep ==
  ASSUME FlowInv, [FlowNext]_flowVars
  PROVE  FlowInv'
<1> USE FlowAssumption DEF FlowInv, flowVars, pollVars, Fails, DefaultInterval
<1>1. ASSUME NEW d \in BOOLEAN, BeginFlow(d) PROVE FlowInv'
  BY <1>1 DEF BeginFlow
<1>2. CASE Discover \/ Register
  BY <1>2 DEF Discover, Register
<1>3. CASE InitiateDeviceAuth
  <2>1. PICK i \in Intervals :
          /\ interval' = IF i > 0 THEN i ELSE 1
          /\ wanted' = IF i > 0 THEN i ELSE 1
          /\ timer' = IF i > 0 THEN i ELSE 1
    BY <1>3 DEF InitiateDeviceAuth
  <2>2. i \in Nat
    OBVIOUS
  <2>3. stage' = "poll" /\ since' = 0 /\ UNCHANGED <<elapsed, device, tooSoon, consent, result, genuine>>
    BY <1>3 DEF InitiateDeviceAuth
  <2> QED
    BY <2>1, <2>2, <2>3
<1>4. CASE InitiateFails \/ DeadlineArm \/ CtxDone
  BY <1>4 DEF InitiateFails, DeadlineArm, CtxDone
<1>5. CASE OpenBrowser \/ TakeResult
  BY <1>5 DEF OpenBrowser, TakeResult
<1>6. CASE Exchange
  BY <1>6 DEF Exchange
<1>7. ASSUME NEW c \in Callbacks, Callback(c) PROVE FlowInv'
  BY <1>7 DEF Callback, Callbacks, Possible
<1>8. CASE UserAnswers
  BY <1>8 DEF UserAnswers
<1>9. CASE FlowAgain
  BY <1>9 DEF FlowAgain
<1>10. CASE UNCHANGED flowVars
  BY <1>10
<1> QED
  BY <1>1, <1>2, <1>3, <1>4, <1>5, <1>6, <1>7, <1>8, <1>9, <1>10, FlowPolls, FlowTime DEF FlowNext

(* DeviceFlow and AuthCodeFlow: no poll comes before the server wants it,  *)
(* whatever it asks for, and a token is one the user granted to this flow. *)
THEOREM FlowIsHonest == FlowSpec => []FlowHonest
<1>1. FlowInit => FlowInv
  BY DEF FlowInit, FlowInv, DefaultInterval
<1>2. FlowInv /\ [FlowNext]_flowVars => FlowInv'
  BY FlowStep
<1>3. FlowInv => FlowHonest
  BY DEF FlowInv, FlowHonest
<1> QED
  BY <1>1, <1>2, <1>3, PTL DEF FlowSpec

LEMMA FlowTypesStep ==
  ASSUME FlowTypeOK, [FlowNext]_flowVars
  PROVE  FlowTypeOK'
<1> USE FlowAssumption DEF FlowTypeOK, flowVars, pollVars, Fails, DefaultInterval, Stages, Over, Callbacks, Never
<1>1. ASSUME NEW d \in BOOLEAN, BeginFlow(d) PROVE FlowTypeOK'
  BY <1>1 DEF BeginFlow
<1>2. CASE Discover \/ Register
  BY <1>2 DEF Discover, Register
<1>3. CASE InitiateDeviceAuth
  <2>1. PICK i \in Intervals, e \in CodeLives :
          /\ interval' = (IF i > 0 THEN i ELSE 1)
          /\ wanted' = (IF i > 0 THEN i ELSE 1)
          /\ timer' = (IF i > 0 THEN i ELSE 1)
          /\ deadline' = (IF e > 0 THEN e ELSE FlowTimeout + 1)
    BY <1>3 DEF InitiateDeviceAuth
  <2>2. i \in Nat /\ e \in Nat
    OBVIOUS
  <2>3. stage' = "poll" /\ since' = 0 /\ UNCHANGED <<elapsed, device, tooSoon, consent, result, genuine>>
    BY <1>3 DEF InitiateDeviceAuth
  <2> QED
    BY <2>1, <2>2, <2>3
<1>4. CASE InitiateFails \/ DeadlineArm \/ CtxDone
  BY <1>4 DEF InitiateFails, DeadlineArm, CtxDone
<1>5. CASE OpenBrowser \/ TakeResult
  BY <1>5 DEF OpenBrowser, TakeResult
<1>6. CASE Exchange
  <2>1. genuine' \in BOOLEAN
    BY <1>6, Zenon DEF Exchange
  <2> QED
    BY <1>6, <2>1 DEF Exchange
<1>7. ASSUME NEW c \in Callbacks, Callback(c) PROVE FlowTypeOK'
  BY <1>7 DEF Callback
<1>8. CASE UserAnswers
  BY <1>8 DEF UserAnswers
<1>9. CASE FlowAgain
  <2>1. device' \in BOOLEAN /\ tooSoon' \in BOOLEAN /\ genuine' \in BOOLEAN
    BY <1>9, Zenon DEF FlowAgain
  <2>2. deadline' \in Nat
    BY <1>9 DEF FlowAgain
  <2>3. /\ stage' = "idle" /\ elapsed' = 0 /\ timer' = 0 /\ interval' = 1
        /\ wanted' = 1 /\ since' = 0 /\ consent' = "none" /\ result' = "none"
    BY <1>9, Zenon DEF FlowAgain
  <2> QED
    BY <2>1, <2>2, <2>3
<1>10. CASE PollPending \/ PollSlowDown \/ PollToken
  <2>1. tooSoon' \in BOOLEAN
    BY <1>10, Zenon DEF PollPending, PollSlowDown, PollToken, Polls
  <2> QED
    BY <1>10, <2>1 DEF PollPending, PollSlowDown, PollToken, Polls
<1>11. CASE TimePasses
  BY <1>11 DEF TimePasses, Left
<1>12. CASE UNCHANGED flowVars
  BY <1>12
<1> QED
  BY <1>1, <1>2, <1>3, <1>4, <1>5, <1>6, <1>7, <1>8, <1>9, <1>10, <1>11, <1>12 DEF FlowNext

(* The flow's state is well formed: no timer exceeds the interval it was   *)
(* set to, whatever the server asks for.                                   *)
THEOREM FlowTypes == FlowSpec => []FlowTypeOK
<1>1. FlowInit => FlowTypeOK
  <2> SUFFICES ASSUME FlowInit PROVE FlowTypeOK
    OBVIOUS
  <2>1. device \in BOOLEAN /\ tooSoon \in BOOLEAN /\ genuine \in BOOLEAN
    BY Zenon DEF FlowInit
  <2>2. deadline \in Nat
    BY FlowAssumption DEF FlowInit, Never
  <2>3. /\ stage = "idle" /\ elapsed = 0 /\ timer = 0 /\ interval = 1
        /\ wanted = 1 /\ since = 0 /\ consent = "none" /\ result = "none"
    BY Zenon DEF FlowInit, DefaultInterval
  <2> QED
    BY <2>1, <2>2, <2>3, FlowAssumption DEF FlowTypeOK, Stages, Over, Callbacks
<1> QED
  BY <1>1, FlowTypesStep, PTL DEF FlowSpec

-----------------------------------------------------------------------------
(* A fair behaviour of the three side by side is one of each of them, so   *)
(* that what is proved of one by itself holds beside the others.           *)
THEOREM EachCarriesOn == AllFairSpec => Spec /\ AutoSpec /\ FlowSpec
<1>1. AllInit => Init /\ AutoInit /\ FlowInit
  BY DEF AllInit
<1>2. [AllNext]_<<vars, autoVars, flowVars, part>> =>
        [Next]_vars /\ [AutoNext]_autoVars /\ [FlowNext]_flowVars
  BY DEF AllNext
<1> QED
  BY <1>1, <1>2, PTL DEF AllFairSpec, Spec, AutoSpec, FlowSpec
=============================================================================
