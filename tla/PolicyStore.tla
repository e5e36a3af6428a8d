------------------------------ MODULE PolicyStore ------------------------------
(***************************************************************************)
(* The stored policies and which of them governs a pod that names none:    *)
(* two directories of files, the project's before the user's, each with a  *)
(* marker of its default; the dashboard's requests, which write to the     *)
(* user's directory without a lock; and ups, which read the directories    *)
(* one file at a time while all that goes on.                              *)
(*                                                                         *)
(* A file is missing, good, empty (cut off, so that it parses as a policy  *)
(* with less in it or nothing, which allows everything) or bad.            *)
(***************************************************************************)
EXTENDS Naturals

CONSTANTS
  PsNames, \* policies
  NoName,
  Projects,\* what a project's directory may hold: policy -> its file
  Editors, \* requests of the dashboard
  PsUps    \* ups without --policy

ASSUME PsAssumption ==
  /\ NoName \notin PsNames
  /\ Projects \subseteq [PsNames -> {"none", "good", "empty", "bad"}]

VARIABLES
  file,    \* directory -> policy -> what is in its file
  mark,    \* directory -> its default marker
  edit,    \* a request: where it is and the policy it is about
  look,    \* an up: where it is, the directory it reads next, the default it
           \* has read, and what it has bound
  steady,  \* history: the ups since whose start the same good default was in
           \* effect at every moment
  excused  \* history: the marker may name a policy that is not there

psVars == <<file, mark, edit, look, steady, excused>>

Dirs == {"project", "global"}
Maybe == PsNames \union {NoName}
NoEdit == [at |-> "idle", name |-> NoName]
NoLook == [at |-> "idle", dir |-> "project", def |-> NoName, bound |-> "none"]

(* The project's directory is versioned and nothing here writes to it.     *)
PsInit ==
  /\ \E f \in Projects :
       file = [d \in Dirs |-> IF d = "project" THEN f ELSE [n \in PsNames |-> "none"]]
  /\ \E m \in Maybe : mark = [d \in Dirs |-> IF d = "project" THEN m ELSE NoName]
  /\ edit = [e \in Editors |-> NoEdit]
  /\ look = [u \in PsUps |-> NoLook]
  /\ steady = {} /\ excused = FALSE

Parses(f) == f \in {"good", "empty"}

-----------------------------------------------------------------------------
(* What the documentation says is in effect.                               *)

EffectiveDefault == IF mark["project"] # NoName THEN mark["project"] ELSE mark["global"]

EffectiveFile(n) == IF Parses(file["project"][n]) THEN file["project"][n] ELSE file["global"][n]

GoodDefault == EffectiveDefault # NoName /\ EffectiveFile(EffectiveDefault) = "good"

-----------------------------------------------------------------------------
(* The store's writes.                                                     *)

At(e, stage, n) == edit' = [edit EXCEPT ![e] = [at |-> stage, name |-> n]]

(* os.WriteFile cuts the file off and then writes.                         *)
PutCut(e, n) ==
  /\ edit[e] = NoEdit
  /\ file' = [file EXCEPT !["global"][n] = "empty"]
  /\ At(e, "put", n)
  /\ UNCHANGED <<mark, look, excused>>

(* The write may fail half way.                                            *)
PutWrite(e) ==
  /\ edit[e].at = "put"
  /\ \E f \in {"good", "empty", "bad"} : file' = [file EXCEPT !["global"][edit[e].name] = f]
  /\ At(e, "idle", NoName)
  /\ UNCHANGED <<mark, look, excused>>

(* Mutant: the file goes first.                                            *)
DeleteFileFirst(e, n) ==
  /\ edit[e] = NoEdit
  /\ file' = [file EXCEPT !["global"][n] = "none"]
  /\ At(e, IF mark["global"] = n THEN "clear" ELSE "remove", n)
  /\ UNCHANGED <<mark, look, excused>>

(* Delete reads the marker,                                                *)
Delete(e, n) ==
  /\ edit[e] = NoEdit
  /\ At(e, IF mark["global"] = n THEN "clear" ELSE "remove", n)
  /\ UNCHANGED <<file, mark, look, excused>>

(* removes it, whatever it says by now (it does not look at the error),    *)
DeleteClear(e) ==
  /\ edit[e].at = "clear"
  /\ \/ mark' = [mark EXCEPT !["global"] = NoName] /\ excused' = FALSE
     \/ excused' = TRUE /\ UNCHANGED mark
  /\ At(e, "remove", edit[e].name)
  /\ UNCHANGED <<file, look>>

(* and then the file, if it can.                                           *)
DeleteRemove(e) ==
  /\ edit[e].at = "remove"
  /\ file' \in {file, [file EXCEPT !["global"][edit[e].name] = "none"]}
  /\ At(e, "idle", NoName)
  /\ UNCHANGED <<mark, look, excused>>

ClearDefault(e) ==
  /\ edit[e] = NoEdit
  /\ mark' = [mark EXCEPT !["global"] = NoName] /\ excused' = FALSE
  /\ UNCHANGED <<file, edit, look>>

(* The marker is cut off, which is no default, and then written.           *)
SetDefaultCut(e, n) ==
  /\ edit[e] = NoEdit
  /\ mark' = [mark EXCEPT !["global"] = NoName] /\ excused' = FALSE
  /\ At(e, "default", n)
  /\ UNCHANGED <<file, look>>

(* Nobody looks whether the policy is there, or being deleted.  The write  *)
(* may fail.                                                               *)
SetDefaultWrite(e) ==
  LET n == edit[e].name
      deleted == \E o \in Editors : edit[o] \in [at : {"clear", "remove"}, name : {n}]
  IN /\ edit[e].at = "default"
     /\ \/ mark' = [mark EXCEPT !["global"] = n]
           /\ excused' = (deleted \/ file["global"][n] = "none")
        \/ UNCHANGED <<mark, excused>>
     /\ At(e, "idle", NoName)
     /\ UNCHANGED <<file, look>>

-----------------------------------------------------------------------------
(* An up.                                                                  *)

UpBegins(u) ==
  /\ look[u] = NoLook
  /\ look' = [look EXCEPT ![u].at = "default"]
  /\ steady' = IF GoodDefault THEN steady \union {u} ELSE steady
  /\ UNCHANGED <<file, mark, edit, excused>>

(* Layered.Default: the first directory with a marker.                     *)
ReadDefault(u) ==
  LET l == look[u] IN
  /\ l.at = "default"
  /\ look' = [look EXCEPT ![u] =
       IF mark[l.dir] # NoName THEN [l EXCEPT !.at = "get", !.dir = "project", !.def = mark[l.dir]]
       ELSE IF l.dir = "project" THEN [l EXCEPT !.dir = "global"]
       ELSE [l EXCEPT !.at = "done"]]
  /\ UNCHANGED <<file, mark, edit, steady, excused>>

(* The policy is looked for twice: to see whether it exists, without which *)
(* the pod gets none, and to bind it, without which the up fails.          *)
Found(l, f) ==
  IF l.at = "get" THEN [l EXCEPT !.at = "bind", !.dir = "project"]
  ELSE [l EXCEPT !.at = "done", !.bound = f]

NotFound(l) == [l EXCEPT !.at = IF l.at = "get" THEN "done" ELSE "failed"]

(* Mutant: the first directory's error is the answer.                      *)
ReadPolicyOnce(u) ==
  LET l == look[u]
      f == file[l.dir][l.def]
  IN /\ l.at \in {"get", "bind"}
     /\ look' = [look EXCEPT ![u] = IF Parses(f) THEN Found(l, f) ELSE NotFound(l)]
     /\ UNCHANGED <<file, mark, edit, steady, excused>>

(* Layered.Get: the first directory where the file parses.                 *)
ReadPolicy(u) ==
  LET l == look[u]
      f == file[l.dir][l.def]
  IN /\ l.at \in {"get", "bind"}
     /\ look' = [look EXCEPT ![u] =
          IF Parses(f) THEN Found(l, f)
          ELSE IF l.dir = "project" THEN [l EXCEPT !.dir = "global"]
          ELSE NotFound(l)]
     /\ UNCHANGED <<file, mark, edit, steady, excused>>

UpEnds(u) ==
  /\ look[u].at \in {"done", "failed"}
  /\ look' = [look EXCEPT ![u] = NoLook]
  /\ steady' = steady \ {u}
  /\ UNCHANGED <<file, mark, edit, excused>>

Edits(e) ==
  \/ \E n \in PsNames : PutCut(e, n) \/ Delete(e, n) \/ SetDefaultCut(e, n)
  \/ PutWrite(e) \/ DeleteClear(e) \/ DeleteRemove(e) \/ ClearDefault(e) \/ SetDefaultWrite(e)

(* The good default may be gone, or another, after it.                     *)
Editing(e) ==
  /\ Edits(e)
  /\ steady' = IF GoodDefault' /\ EffectiveDefault' = EffectiveDefault THEN steady ELSE {}

PsNext ==
  \/ \E e \in Editors : Editing(e)
  \/ \E u \in PsUps : UpBegins(u) \/ ReadDefault(u) \/ ReadPolicy(u) \/ UpEnds(u)

PsSpec == PsInit /\ [][PsNext]_psVars

-----------------------------------------------------------------------------
PsTypeOK ==
  /\ file \in [Dirs -> [PsNames -> {"none", "good", "empty", "bad"}]]
  /\ mark \in [Dirs -> Maybe]
  /\ edit \in [Editors -> [at : {"idle", "put", "clear", "remove", "default"}, name : Maybe]]
  /\ look \in [PsUps -> [at : {"idle", "default", "get", "bind", "done", "failed"},
                         dir : Dirs, def : Maybe, bound : {"none", "good", "empty"}]]
  /\ \A u \in PsUps : look[u].at \in {"get", "bind"} => look[u].def \in PsNames
  /\ steady \subseteq PsUps /\ excused \in BOOLEAN

(* An up during which one good default was in effect all the time is       *)
(* governed by it: it neither fails, nor goes ungoverned, nor binds        *)
(* another policy or half of one, whatever is done to other policies.      *)
DefaultGoverns ==
  \A u \in PsUps : u \in steady =>
    /\ look[u].at # "failed"
    /\ look[u].at = "done" => look[u].def = EffectiveDefault /\ look[u].bound = "good"

(* No deletion leaves the user's marker behind with a policy that is gone, *)
(* unless the default was set to it meanwhile, or before it was there, or  *)
(* the marker could not be removed.                                        *)
NoDanglingDefault ==
  mark["global"] # NoName /\ file["global"][mark["global"]] = "none" => excused
=============================================================================
