----------------------------- MODULE MCComponents -----------------------------
(***************************************************************************)
(* Six components that share no state, side by side.  A behaviour is one   *)
(* of any of them, so that the states of the components add up instead of  *)
(* multiplying; no property reads two of them.                             *)
(***************************************************************************)
EXTENDS CertAuthority, Connections, L4Session, PolicyRules, PolicyStore, DaemonServe

VARIABLE part  \* the component whose behaviour this is

MCNames == {<<"x">>, <<"x", "a">>, <<"x", "b">>}

CONSTANTS a, b

(* None, a good or a bad policy, which the user may have one of too.       *)
MCProjects == {[n \in PsNames |-> IF n = a THEN f ELSE "none"] : f \in {"none", "good", "bad"}}

Init ==
  /\ part \in {"ca", "connections", "l4", "rules", "store", "serve"}
  /\ CAInit /\ ConnInit /\ L4Init /\ RulesInit /\ PsInit /\ ServeInit
  /\ part # "store" => file["project"] = file["global"] /\ mark["project"] = NoName

Next ==
  \/ /\ part = "ca" /\ CANext
     /\ UNCHANGED <<connVars, l4vars, asked, psVars, serveVars, part>>
  \/ /\ part = "connections" /\ ConnNext
     /\ UNCHANGED <<caVars, l4vars, asked, psVars, serveVars, part>>
  \/ /\ part = "l4" /\ L4Next
     /\ UNCHANGED <<caVars, connVars, asked, psVars, serveVars, part>>
  \/ /\ part = "rules" /\ RulesNext
     /\ UNCHANGED <<caVars, connVars, l4vars, psVars, serveVars, part>>
  \/ /\ part = "store" /\ PsNext
     /\ UNCHANGED <<caVars, connVars, l4vars, asked, serveVars, part>>
  \/ /\ part = "serve" /\ ServeNext
     /\ UNCHANGED <<caVars, connVars, l4vars, asked, psVars, part>>

allVars == <<caVars, connVars, l4vars, asked, psVars, serveVars, part>>

Spec == Init /\ [][Next]_allVars

(* Every component's variables have their types.                           *)
TypeOK == CATypeOK /\ ConnTypeOK /\ L4TypeOK /\ PsTypeOK /\ ServeTypeOK
=============================================================================
