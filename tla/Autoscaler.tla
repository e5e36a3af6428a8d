------------------------------ MODULE Autoscaler ------------------------------
(***************************************************************************)
(* The host's autoscaler: the lock that keeps it single, the ups that make *)
(* sure it runs, and its loop over the pods' memory readings, which moves  *)
(* a pod under lasting pressure to the next size while users go on with    *)
(* their pods.                                                             *)
(*                                                                         *)
(* Time is counted in ticks, and relative to the last reading: what is     *)
(* left of a cooldown.  A reading that fails is no reading: the next one   *)
(* comes later.                                                            *)
(***************************************************************************)
EXTENDS Naturals

CONSTANTS
  AutoPods,  \* pods that opted in
  Ups,       \* command lines that want the autoscaler to run
  Sustain,   \* readings over the mark before it acts
  CoolTicks, \* its quiet time after that, in ticks
  MaxStarting \* bound: autoscalers about to start when an up comes again

ASSUME AutoAssumption ==
  /\ Sustain \in Nat \ {0} /\ CoolTicks \in Nat \ {0} /\ MaxStarting \in Nat
  /\ "free" \notin Ups /\ "auto" \notin Ups

VARIABLES
  lockFile, \* who holds the lock file: free, an up that probes it, auto
  ensure,   \* where each up is
  starting, \* autoscalers spawned that have not tried the lock yet
  owed,     \* history: an up has ended well, nothing has died since
  machine,  \* pod -> what it is, as its labels and the engine have it
  todo,     \* the reading the loop is at work on: pod -> what it was
  streak, quiet, \* the loop's state of each pod
  lastAct   \* history: of the last action, the readings over the mark and
            \* the ticks that lie between it and the one before
lockVars == <<lockFile, ensure, starting, owed>>
loopVars == <<todo, streak, quiet, lastAct>>
autoVars == <<lockVars, machine, loopVars>>

NoPod == [mode |-> "none", size |-> "none", hot |-> FALSE]

Machines == [mode : {"headless", "interactive", "none"}, size : {"weak", "strong"},
             hot : BOOLEAN]

NoAct == [over |-> [p \in AutoPods |-> 0], gap |-> [p \in AutoPods |-> CoolTicks],
          due |-> TRUE]

Fresh0 ==
  /\ todo' = [p \in AutoPods |-> NoPod]
  /\ streak' = [p \in AutoPods |-> 0] /\ quiet' = [p \in AutoPods |-> 0]
  /\ lastAct' = NoAct

AutoInit ==
  /\ lockFile = "free" /\ ensure = [u \in Ups |-> "idle"] /\ starting = 0 /\ owed = FALSE
  /\ machine = [p \in AutoPods |-> NoPod]
  /\ todo = [p \in AutoPods |-> NoPod]
  /\ streak = [p \in AutoPods |-> 0] /\ quiet = [p \in AutoPods |-> 0]
  /\ lastAct = NoAct

-----------------------------------------------------------------------------
(* One autoscaler.                                                         *)

(* The lock is free, or somebody has it and is taken for an autoscaler.    *)
EnsureProbe(u) ==
  /\ ensure[u] = "idle"
  /\ IF lockFile = "free"
     THEN lockFile' = u /\ ensure' = [ensure EXCEPT ![u] = "probe"] /\ UNCHANGED owed
     ELSE ensure' = [ensure EXCEPT ![u] = "done"] /\ owed' = TRUE /\ UNCHANGED lockFile
  /\ UNCHANGED <<starting, machine, loopVars>>

EnsureRelease(u) ==
  /\ ensure[u] = "probe"
  /\ lockFile' = "free" /\ ensure' = [ensure EXCEPT ![u] = "spawn"]
  /\ UNCHANGED <<starting, owed, machine, loopVars>>

EnsureSpawn(u) ==
  /\ ensure[u] = "spawn"
  /\ starting' = starting + 1
  /\ ensure' = [ensure EXCEPT ![u] = "done"] /\ owed' = TRUE
  /\ lockFile' = IF lockFile = u THEN "free" ELSE lockFile
  /\ UNCHANGED <<machine, loopVars>>

(* It cannot be spawned, or the up is killed.                              *)
EnsureFails(u) ==
  /\ ensure[u] \in {"probe", "spawn"}
  /\ lockFile' = IF lockFile = u THEN "free" ELSE lockFile
  /\ ensure' = [ensure EXCEPT ![u] = "done"] /\ owed' = FALSE
  /\ UNCHANGED <<starting, machine, loopVars>>

UpAgain(u) ==
  /\ ensure[u] = "done" /\ starting < MaxStarting
  /\ ensure' = [ensure EXCEPT ![u] = "idle"]
  /\ UNCHANGED <<lockFile, starting, owed, machine, loopVars>>

(* A spawned one that finds the lock taken ends.                           *)
AutoStart ==
  /\ starting > 0
  /\ starting' = starting - 1
  /\ IF lockFile = "free" THEN lockFile' = "auto" /\ Fresh0 ELSE UNCHANGED <<lockFile, loopVars>>
  /\ UNCHANGED <<ensure, owed, machine>>

(* The kernel drops the lock of a process that ends.                       *)
AutoExit ==
  /\ lockFile = "auto"
  /\ lockFile' = "free" /\ owed' = FALSE
  /\ Fresh0
  /\ UNCHANGED <<ensure, starting, machine>>

-----------------------------------------------------------------------------
(* Its loop.                                                               *)

Idling == \A p \in AutoPods : todo[p] = NoPod

Less(n, d) == IF n > d THEN n - d ELSE 0

Capped(n, cap) == IF n < cap THEN n ELSE cap

(* A reading, one or more ticks after the last one.  A pod that is not in  *)
(* it is forgotten.                                                        *)
Tick ==
  /\ lockFile = "auto" /\ Idling
  /\ todo' = machine
  /\ streak' = [p \in AutoPods |-> IF machine[p] = NoPod THEN 0 ELSE streak[p]]
  /\ \E d \in 1..CoolTicks :
       /\ quiet' = [p \in AutoPods |-> IF machine[p] = NoPod THEN 0 ELSE Less(quiet[p], d)]
       /\ lastAct' = [lastAct EXCEPT
            !.over = [p \in AutoPods |-> IF machine[p] = NoPod THEN 0 ELSE @[p]],
            !.gap = [p \in AutoPods |-> IF machine[p] = NoPod THEN CoolTicks
                                        ELSE Capped(@[p] + d, CoolTicks)]]
  /\ UNCHANGED <<lockVars, machine>>

Done(p) == todo' = [todo EXCEPT ![p] = NoPod]

Read(p) == lockFile = "auto" /\ todo[p] # NoPod

(* Mutant: only a move starts a streak over.                               *)
CalmKept(p) ==
  /\ Read(p) /\ ~todo[p].hot
  /\ Done(p)
  /\ lastAct' = [lastAct EXCEPT !.over[p] = 0]
  /\ UNCHANGED <<lockVars, machine, streak, quiet>>

Calm(p) ==
  /\ Read(p) /\ ~todo[p].hot
  /\ Done(p)
  /\ streak' = [streak EXCEPT ![p] = 0]
  /\ lastAct' = [lastAct EXCEPT !.over[p] = 0]
  /\ UNCHANGED <<lockVars, machine, quiet>>

(* Streaks from Sustain on are alike.                                      *)
Longer(p) == Capped(streak[p] + 1, Sustain)

Due(p) == Longer(p) >= Sustain /\ quiet[p] = 0

(* Mutant: pressure in the quiet time starts it over.                      *)
WaitRestarting(p) ==
  /\ Read(p) /\ todo[p].hot /\ ~Due(p)
  /\ Done(p)
  /\ streak' = [streak EXCEPT ![p] = Longer(p)]
  /\ quiet' = [quiet EXCEPT ![p] = IF quiet[p] > 0 THEN CoolTicks ELSE 0]
  /\ lastAct' = [lastAct EXCEPT !.over[p] = Capped(@ + 1, Sustain)]
  /\ UNCHANGED <<lockVars, machine>>

Wait(p) ==
  /\ Read(p) /\ todo[p].hot /\ ~Due(p)
  /\ Done(p)
  /\ streak' = [streak EXCEPT ![p] = Longer(p)]
  /\ lastAct' = [lastAct EXCEPT !.over[p] = Capped(@ + 1, Sustain)]
  /\ UNCHANGED <<lockVars, machine, quiet>>

(* Whatever comes of it, the pod's streak and its quiet time start over.   *)
Act(p) ==
  /\ Read(p) /\ todo[p].hot /\ Due(p)
  /\ Done(p)
  /\ streak' = [streak EXCEPT ![p] = 0]
  /\ quiet' = [quiet EXCEPT ![p] = CoolTicks]
  /\ lastAct' = [over |-> [lastAct.over EXCEPT ![p] = 0],
                 gap |-> [lastAct.gap EXCEPT ![p] = 0],
                 due |-> lastAct.over[p] + 1 >= Sustain /\ lastAct.gap[p] >= CoolTicks]
  /\ UNCHANGED lockVars

Grows(p) == todo[p].mode = "headless" /\ todo[p].size = "weak"

(* The move works on the pod as it is by now, and makes one that is gone.  *)
Grow(p) ==
  /\ Grows(p)
  /\ Act(p)
  /\ machine' = [machine EXCEPT ![p] = [@ EXCEPT !.size = "strong"]]

(* The move fails, perhaps with the old shell removed.                     *)
GrowFails(p) ==
  /\ Grows(p)
  /\ Act(p)
  /\ machine' \in {machine, [machine EXCEPT ![p] = NoPod]}

(* A user is warned, or the pod is as large as it gets.                    *)
Leave(p) == ~Grows(p) /\ Act(p) /\ UNCHANGED machine

Loop(p) == Calm(p) \/ Wait(p) \/ Grow(p) \/ GrowFails(p) \/ Leave(p)

(* Users make, move and take down pods, and memory use changes.            *)
Change(p) ==
  /\ machine' \in {[machine EXCEPT ![p] = m] : m \in Machines \union {NoPod}}
  /\ UNCHANGED <<lockVars, loopVars>>

(* Mutant: it is spawned first, and the probe's lock released then.        *)
EnsureSpawningFirst(u) ==
  \/ EnsureProbe(u) \/ EnsureFails(u) \/ UpAgain(u)
  \/ /\ ensure[u] = "probe"
     /\ starting' = starting + 1 /\ ensure' = [ensure EXCEPT ![u] = "spawn"]
     /\ UNCHANGED <<lockFile, owed, machine, loopVars>>
  \/ /\ ensure[u] = "spawn"
     /\ lockFile' = IF lockFile = u THEN "free" ELSE lockFile
     /\ ensure' = [ensure EXCEPT ![u] = "done"] /\ owed' = TRUE
     /\ UNCHANGED <<starting, machine, loopVars>>

Ensure(u) ==
  EnsureProbe(u) \/ EnsureRelease(u) \/ EnsureSpawn(u) \/ EnsureFails(u) \/ UpAgain(u)

AutoNext ==
  \/ AutoStart \/ AutoExit \/ Tick
  \/ \E u \in Ups : Ensure(u)
  \/ \E p \in AutoPods : Loop(p) \/ Change(p)

AutoFairness ==
  /\ WF_autoVars(Tick)
  /\ \A p \in AutoPods : WF_autoVars(Loop(p)) /\ SF_autoVars(Grow(p))

AutoSpec == AutoInit /\ [][AutoNext]_autoVars /\ AutoFairness

-----------------------------------------------------------------------------
AutoTypeOK ==
  /\ lockFile \in Ups \union {"free", "auto"}
  /\ ensure \in [Ups -> {"idle", "probe", "spawn", "done"}]
  /\ starting \in Nat /\ owed \in BOOLEAN
  /\ todo \in [AutoPods -> Machines \union {NoPod}]
  /\ machine \in [AutoPods -> Machines \union {NoPod}]
  /\ streak \in [AutoPods -> 0..Sustain] /\ quiet \in [AutoPods -> 0..CoolTicks]
  /\ \A u \in Ups : lockFile = u => ensure[u] = "probe"

(* When everything has settled after an up that did not fail, and nothing  *)
(* has been killed since, an autoscaler holds the lock: a probe that keeps *)
(* a spawned one out is always followed by a spawn of its own.             *)
AutoscalerRuns ==
  owed /\ starting = 0 /\ (\A u \in Ups : ensure[u] \in {"idle", "done"}) => lockFile = "auto"

(* A pod is acted on after Sustain readings in a row over the mark, and    *)
(* not within the quiet time of the last action, however readings, moves   *)
(* and users' doings interleave.                                           *)
ActsOnlyWhenDue == lastAct.due

(* A headless pod under lasting pressure grows, or the autoscaler ends.    *)
Starving(p) == lockFile = "auto" /\ machine[p] = [mode |-> "headless", size |-> "weak", hot |-> TRUE]

GrowsUnderPressure == \A p \in AutoPods : ~<>[]Starving(p)
=============================================================================
