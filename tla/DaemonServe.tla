----------------------------- MODULE DaemonServe -----------------------------
(***************************************************************************)
(* The broker's process: Serve starts the parts one after the other,       *)
(* beside a goroutine that watches the keeper's process and one that takes *)
(* everything down when the context ends.  Serve returns once its listener *)
(* is closed, and the process ends with it, whatever is still to be done.  *)
(***************************************************************************)

VARIABLES
  stage,     \* Serve: audit, broker, start, listen, accept, select, failed, gone
  child,     \* the keeper's process: none (or in-process), alive, left (its
             \* socket is closed, so it will end), dead
  watch,     \* superviseKeeper: off, waiting, saw, reported, over
  sweep,     \* the shutdown goroutine: off, waiting, stop, tidy, over
  signalled, \* the command was interrupted
  cancelled, \* the context has ended
  listening, \* the control API's server is open
  notice,    \* a message is in keeperDied
  exit       \* how Serve returned: none, zero, error

serveVars == <<stage, child, watch, sweep, signalled, cancelled, listening, notice, exit>>

ServeInit ==
  /\ stage = "audit" /\ child = "none" /\ watch = "off" /\ sweep = "off"
  /\ signalled = FALSE /\ cancelled = FALSE /\ listening = FALSE /\ notice = FALSE
  /\ exit = "none"

-----------------------------------------------------------------------------
(* Serve, step by step.  Each may fail.                                    *)

OpenStore ==
  /\ stage = "audit"
  /\ stage' \in {"broker", "failed"}
  /\ UNCHANGED <<child, watch, sweep, signalled, cancelled, listening, notice, exit>>

(* In two-process mode the keeper is spawned and watched.                  *)
StartBroker ==
  /\ stage = "broker"
  /\ \/ stage' = "start" /\ child' = "alive" /\ watch' = "waiting"
     \/ stage' \in {"start", "failed"} /\ UNCHANGED <<child, watch>>
  /\ UNCHANGED <<sweep, signalled, cancelled, listening, notice, exit>>

StartDaemon ==
  /\ stage = "start"
  /\ stage' \in {"listen", "failed"}
  /\ UNCHANGED <<child, watch, sweep, signalled, cancelled, listening, notice, exit>>

Listen ==
  /\ stage = "listen"
  /\ \/ stage' = "accept" /\ listening' = TRUE /\ sweep' = "waiting"
     \/ stage' = "failed" /\ UNCHANGED <<listening, sweep>>
  /\ UNCHANGED <<child, watch, signalled, cancelled, notice, exit>>

(* The control API's server is closed, or cannot go on accepting.          *)
AcceptEnds ==
  /\ stage = "accept"
  /\ stage' = IF listening THEN "failed" ELSE "select"
  /\ UNCHANGED <<child, watch, sweep, signalled, cancelled, listening, notice, exit>>

(* The process ends, which closes the keeper's socket.                     *)
Leave == IF child = "alive" THEN "left" ELSE child

Select ==
  /\ stage = "select"
  /\ stage' = "gone" /\ exit' = IF notice THEN "error" ELSE "zero"
  /\ child' = Leave
  /\ UNCHANGED <<watch, sweep, signalled, cancelled, listening, notice>>

(* An error return stops the broker, and so the keeper, on its way.        *)
ServeFails ==
  /\ stage = "failed"
  /\ stage' = "gone" /\ exit' = "error"
  /\ child' = Leave
  /\ UNCHANGED <<watch, sweep, signalled, cancelled, listening, notice>>

-----------------------------------------------------------------------------
(* superviseKeeper.                                                        *)

(* A death it learns of when the context has ended says nothing.           *)
SeeDeath ==
  /\ stage # "gone"
  /\ watch = "waiting" /\ child = "dead"
  /\ watch' = IF cancelled THEN "over" ELSE "saw"
  /\ UNCHANGED <<stage, child, sweep, signalled, cancelled, listening, notice, exit>>

(* Mutant: it ends the context and does not say why.                       *)
ReportLate ==
  /\ stage # "gone"
  /\ watch = "saw"
  /\ watch' = "reported" /\ cancelled' = TRUE
  /\ UNCHANGED <<stage, child, sweep, signalled, listening, notice, exit>>

Report ==
  /\ stage # "gone"
  /\ watch = "saw"
  /\ watch' = "reported" /\ notice' = TRUE
  /\ UNCHANGED <<stage, child, sweep, signalled, cancelled, listening, exit>>

TearDown ==
  /\ stage # "gone"
  /\ watch = "reported"
  /\ watch' = "over" /\ cancelled' = TRUE
  /\ UNCHANGED <<stage, child, sweep, signalled, listening, notice, exit>>

StandDown ==
  /\ stage # "gone"
  /\ watch = "waiting" /\ cancelled
  /\ watch' = "over"
  /\ UNCHANGED <<stage, child, sweep, signalled, cancelled, listening, notice, exit>>

-----------------------------------------------------------------------------
(* The shutdown goroutine.                                                 *)

CloseServer ==
  /\ stage # "gone"
  /\ sweep = "waiting" /\ cancelled
  /\ sweep' = "stop" /\ listening' = FALSE
  /\ UNCHANGED <<stage, child, watch, signalled, cancelled, notice, exit>>

(* Stop: the listeners, the gateway once its requests are done, and the    *)
(* keeper's socket.                                                        *)
StopBroker ==
  /\ stage # "gone"
  /\ sweep = "stop"
  /\ sweep' = "tidy"
  /\ child' = Leave
  /\ UNCHANGED <<stage, watch, signalled, cancelled, listening, notice, exit>>

(* The audit log is closed, then the control socket's file removed.        *)
Tidy ==
  /\ stage # "gone"
  /\ sweep = "tidy"
  /\ sweep' = "over"
  /\ UNCHANGED <<stage, child, watch, signalled, cancelled, listening, notice, exit>>

-----------------------------------------------------------------------------
Interrupt ==
  /\ stage # "gone"
  /\ signalled' = TRUE /\ cancelled' = TRUE
  /\ UNCHANGED <<stage, child, watch, sweep, listening, notice, exit>>

(* The keeper crashes, is killed, or finds its socket closed.              *)
KeeperExits ==
  /\ child \in {"alive", "left"}
  /\ child' = "dead"
  /\ UNCHANGED <<stage, watch, sweep, signalled, cancelled, listening, notice, exit>>

Supervise == SeeDeath \/ Report \/ TearDown \/ StandDown

Shutdown == CloseServer \/ StopBroker \/ Tidy

ServeNext ==
  \/ OpenStore \/ StartBroker \/ StartDaemon \/ Listen
  \/ AcceptEnds \/ Select \/ ServeFails
  \/ Supervise \/ Shutdown
  \/ Interrupt \/ KeeperExits

ServeSpec == ServeInit /\ [][ServeNext]_serveVars

-----------------------------------------------------------------------------
ServeTypeOK ==
  /\ stage \in {"audit", "broker", "start", "listen", "accept", "select", "failed", "gone"}
  /\ child \in {"none", "alive", "left", "dead"}
  /\ watch \in {"off", "waiting", "saw", "reported", "over"}
  /\ sweep \in {"off", "waiting", "stop", "tidy", "over"}
  /\ {signalled, cancelled, listening, notice} \subseteq BOOLEAN
  /\ exit \in {"none", "zero", "error"}

(* The daemon says it ended well only if somebody asked it to end: a       *)
(* keeper that dies by itself makes it end with an error, so that whoever  *)
(* started it starts it again.                                             *)
DeathIsReported == exit = "zero" => signalled
=============================================================================
