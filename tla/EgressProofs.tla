----------------------------- MODULE EgressProofs -----------------------------
(***************************************************************************)
(* For any pods, tokens, policies and requests: what goes out was          *)
(* permitted at some moment since it arrived, and the audit record tells   *)
(* what became of it.  The registry's own invariant comes from             *)
(* PodRegistryProofs.  What is added here is, for every request, what its  *)
(* place in the pipeline says of its locals (PathInv), of the observer     *)
(* (PermitInv) and of its record (RecordInv).                              *)
(***************************************************************************)
EXTENDS Egress, PodRegistryProofs

AtCheck == {"check", "refused"}
PastCheck == {"inject", "redact", "route", "handshake", "send", "sent", "tunnel"}

(* A request's token was handed out, and its place tells its path.         *)
PathInv(r) ==
  /\ tok[r] # Nil => tok[r] \in given
  /\ pc[r] \notin Ready => tok[r] # Nil /\ via[r] # Nil /\ method[r] # Nil
  /\ pc[r] \in AtCheck => via[r] # "l4"
  /\ pc[r] = "inject" => via[r] = "gateway"
  /\ pc[r] \in {"route", "handshake", "tunnel"} => via[r] = "connect"
  /\ pc[r] \in {"redact", "send", "sent"} => via[r] # "l4"
  /\ pc[r] = "loop" => via[r] = "inner"
  /\ pc[r] \in {"resolved", "session"} => via[r] = "l4"
  /\ pc[r] \notin Ready /\ via[r] = "inner" => conn[r] # Nil
  /\ pc[r] \in {"check", "refused", "inject", "redact", "route", "handshake", "resolved"} =>
       hop[r] = "asked"
  /\ pc[r] = "resolved" => verdict[r] = "allow"

(* Past its check a request has been permitted what it asks for, and one   *)
(* that monitor mode let through, or whose connection it did, anything.    *)
PermitInv(r) ==
  pc[r] \notin Ready =>
    /\ pc[r] \in PastCheck => method[r] \in permitted[r]
    /\ pc[r] = "emit" /\ via[r] = "connect" /\ fate[r] = "answered" => method[r] \in permitted[r]
    /\ verdict[r] = "monitor" => AllMethods \subseteq permitted[r]
    /\ via[r] = "inner" /\ (conn[r].host = "monitor" \/ conn[r].monitor) =>
         AllMethods \subseteq permitted[r]

(* What the record says once it is written, and what is written next.      *)
RecordFits(r) ==
  /\ record[r].decision = "block" => fate[r] = "none"
  /\ record[r].decision = "deny" => fate[r] = "none" \/ hop[r] # "asked"
  /\ verdict[r] = "monitor" /\ record[r].decision \in {"allow", "redact"} =>
       via[r] \in {"plain", "connect"} /\ fate[r] # "answered"
  /\ \/ record[r].pod = owner[tok[r]]
     \/ record[r].pod = Nil /\ handlePod[tok[r]] = Nil

RecordInv(r) ==
  /\ pc[r] \in {"check", "refused", "inject", "redact", "route", "handshake", "resolved"} =>
       fate[r] = "none"
  /\ pc[r] = "send" => fate[r] = "none" \/ (fate[r] = "sent" /\ hop[r] # "asked")
  /\ pc[r] = "sent" => fate[r] = "sent"
  /\ pc[r] \notin {"done", "idle", "loop", "tunnel", "session"} => record[r] = Nil
  /\ pc[r] = "emit" =>
       /\ decision[r] # Nil
       /\ fate[r] # "aborted"
       /\ decision[r] = "block" => fate[r] = "none"
       /\ decision[r] = "deny" => fate[r] = "none" \/ hop[r] # "asked"
       /\ verdict[r] = "monitor" /\ decision[r] \in {"allow", "redact"} =>
            via[r] \in {"plain", "connect"} /\ fate[r] # "answered"
  /\ pc[r] \in {"done", "loop", "tunnel", "session"} =>
       /\ fate[r] = "answered" => record[r] # Nil
       /\ record[r] # Nil => tok[r] # Nil /\ RecordFits(r)

ReqInv(r) == PathInv(r) /\ PermitInv(r) /\ RecordInv(r)

IInv == RegInv /\ RequestShape /\ \A r \in Requests : ReqInv(r)

Step(r) == Arrivals(r) \/ Serve(r)

(* What a step of another request leaves of r.                             *)
SameAt(r) ==
  /\ pc'[r] = pc[r] /\ via'[r] = via[r] /\ tok'[r] = tok[r] /\ method'[r] = method[r]
  /\ verdict'[r] = verdict[r] /\ conn'[r] = conn[r] /\ hop'[r] = hop[r] /\ fate'[r] = fate[r]
  /\ decision'[r] = decision[r] /\ record'[r] = record[r]

LEMMA InitInv == Init => IInv
<1> SUFFICES ASSUME Init PROVE IInv
  OBVIOUS
<1>1. RegInv
  BY RegInitInv DEF Init
<1>2. RequestShape
  BY DEF Init, RequestShape, Verdicts, Places, Ready, Hops
<1>3. \A r \in Requests : ReqInv(r)
  BY DEF Init, ReqInv, PathInv, PermitInv, RecordInv, Ready, AtCheck, PastCheck
<1> QED BY <1>1, <1>2, <1>3 DEF IInv

-----------------------------------------------------------------------------
(* What the registry does to the requests.                                 *)

(* A token that was handed out stays so, with the same owner.              *)
LEMMA RegStepGiven ==
  ASSUME RegInv, [RegStep]_regVars, NEW t \in given
  PROVE  t \in given' /\ owner'[t] = owner[t]
<1> USE RegistryAssumption DEF RegInv, Tokens, registryVars, handleVars, historyVars,
        RegShape, RegistryAgrees
<1>1. ASSUME NEW p \in Pods, NEW h \in Handles, PostHandles(p, h)
      PROVE  t \in given' /\ owner'[t] = owner[t]
  BY <1>1 DEF PostHandles, IssueHandle, IssueHandleFails, RegisterHandle, Enter
<1>2. ASSUME NEW p \in Pods, NEW u \in EgressTokens, IssueEgress(p, u)
      PROVE  t \in given' /\ owner'[t] = owner[t]
  BY <1>2 DEF IssueEgress, Enter
<1> QED
  BY <1>1, <1>2
     DEF RegStep, RegNext, RegRestart, BindPolicy, Delete, RevokeNext, RevokeLost,
         HandleExpires, Ack, AckAges, regVars

(* The observer only adds, within what there is to allow.                   *)
LEMMA ObserveAdds ==
  ASSUME Observe, NEW r \in Requests
  PROVE  /\ pc'[r] \in Ready => permitted'[r] = {}
         /\ pc'[r] \notin Ready => permitted'[r] = permitted[r] \union LetsNow(r)'
         /\ LetsNow(r)' \subseteq AllMethods
BY DEF Observe, LetsNow

(* A request that does not move keeps its invariant, whatever the registry *)
(* does: the observer only adds, and tokens once forgotten stay forgotten. *)
LEMMA StillReq ==
  ASSUME RegInv, RequestShape, [RegStep]_regVars, Observe,
         NEW r \in Requests, ReqInv(r), SameAt(r)
  PROVE  ReqInv(r)'
<1>1. PathInv(r)'
  BY RegStepGiven DEF ReqInv, PathInv, SameAt
<1>2. PermitInv(r)'
  <2>1. CASE pc[r] \in Ready
    BY <2>1 DEF PermitInv, SameAt
  <2>2. CASE pc[r] \notin Ready
    <3>1. permitted[r] \subseteq permitted'[r] /\ permitted'[r] \subseteq AllMethods
      BY <2>2, ObserveAdds DEF SameAt, RequestShape
    <3> QED BY <2>2, <3>1 DEF ReqInv, PermitInv, SameAt
  <2> QED BY <2>1, <2>2
<1>3. RecordInv(r)'
  <2>1. ASSUME tok[r] # Nil, RecordFits(r), record[r] # Nil
        PROVE  RecordFits(r)'
    <3>1. tok[r] \in given
      BY <2>1 DEF ReqInv, PathInv
    <3>2. owner'[tok[r]] = owner[tok[r]]
      BY <3>1, RegStepGiven
    <3>3. handlePod[tok[r]] = Nil => handlePod'[tok[r]] = Nil
      BY <3>1, RegStepForgets
    <3> QED BY <2>1, <3>2, <3>3 DEF RecordFits, SameAt
  <2> QED BY <2>1 DEF ReqInv, RecordInv, SameAt
<1> QED BY <1>1, <1>2, <1>3 DEF ReqInv

-----------------------------------------------------------------------------
(* One request's step: the shape, and what it leaves alone.                *)

LEMMA ObserveShape ==
  ASSUME RequestShape, Observe
  PROVE  permitted' \in [Requests -> SUBSET AllMethods]
<1>1. \A r \in Requests : LetsNow(r)' \subseteq AllMethods
  BY ObserveAdds
<1> QED BY <1>1 DEF Observe, RequestShape

(* A request that arrives belongs to one of the paths, with a token that   *)
(* was handed out.                                                         *)
LEMMA ArrivesAs ==
  ASSUME NEW r \in Requests, Arrivals(r)
  PROVE  \/ \E t \in given, m \in AllMethods, v \in Paths \ {"inner"}, where \in {"check", "resolved", "done"} :
              /\ where = "check" => v # "l4"
              /\ where = "resolved" => v = "l4"
              /\ Arrive(r, t, v, m, where)
         \/ \E m \in Methods : InnerRequest(r, m)
<1>1. ASSUME NEW t \in given, NEW m \in Methods, GatewayRequest(r, t, m)
      PROVE  \E where \in {"check", "done"} : Arrive(r, t, "gateway", m, where)
  BY <1>1 DEF GatewayRequest
<1>2. ASSUME NEW t \in given, DatastoreConnects(r, t)
      PROVE  \E where \in {"resolved", "done"} : Arrive(r, t, "l4", "CONNECT", where)
  BY <1>2 DEF DatastoreConnects
<1>3. CASE \E t \in given, m \in Methods : GatewayRequest(r, t, m)
  BY <1>1, <1>3 DEF AllMethods, Paths
<1>4. CASE \E t \in given, m \in Methods : PlainRequest(r, t, m)
  BY <1>4 DEF PlainRequest, AllMethods, Paths
<1>5. CASE \E t \in given : ConnectRequest(r, t)
  BY <1>5 DEF ConnectRequest, AllMethods, Paths
<1>6. CASE \E t \in given : DatastoreConnects(r, t)
  BY <1>2, <1>6 DEF AllMethods, Paths
<1> QED BY <1>3, <1>4, <1>5, <1>6 DEF Arrivals

(* Whether a policy is in monitor mode is yes or no.                       *)
LEMMA MonitoredIsBoolean ==
  ASSUME RegInv, NEW t \in Tokens
  PROVE  Monitored(t) \in BOOLEAN
<1>1. ASSUME PolicyOf(t) # Nil
      PROVE  PolicyOf(t).monitor \in BOOLEAN
  BY <1>1, RegistryAssumption DEF RegInv, RegShape, PolicyOf, Policy
<1> QED BY <1>1 DEF Monitored

(* Past its check a request goes on along its path.                        *)
LEMMA PassGoesOn ==
  ASSUME NEW r \in Requests, RequestShape, PathInv(r), pc[r] \in AtCheck, NEW v, Pass(r, v)
  PROVE  /\ verdict' = [verdict EXCEPT ![r] = v]
         /\ \E where \in {"inject", "send", "route", "redact"} :
              /\ pc' = [pc EXCEPT ![r] = where]
              /\ where = "inject" => via[r] = "gateway"
              /\ where = "route" => via[r] = "connect"
              /\ via[r] \in {"gateway", "plain", "connect", "inner"}
<1>1. via[r] \in {"gateway", "plain", "connect", "inner"}
  BY DEF RequestShape, PathInv, AtCheck, Ready, Paths
<1>2. CASE via[r] = "gateway"
  BY <1>2 DEF Pass, GoTo, AfterCheck
<1>3. CASE via[r] = "plain"
  BY <1>3 DEF Pass, GoTo, AfterCheck
<1>4. CASE via[r] = "connect"
  BY <1>4 DEF Pass, GoTo, AfterCheck
<1>5. CASE via[r] = "inner"
  BY <1>5 DEF Pass, GoTo, AfterCheck
<1> QED BY <1>1, <1>2, <1>3, <1>4, <1>5

LEMMA StepShape ==
  ASSUME IInv, NEW r \in Requests, Step(r), Observe
  PROVE  RequestShape'
<1>0. /\ permitted' \in [Requests -> SUBSET AllMethods]
      /\ RegInv /\ RequestShape /\ PathInv(r) /\ RecordInv(r)
  BY ObserveShape DEF IInv, ReqInv
<1> USE DEF RequestShape, Verdicts, Decisions, Ready, Places, Hops
<1>1. ASSUME NEW t \in given, NEW m \in AllMethods, NEW v \in Paths \ {"inner"},
             NEW where \in {"check", "resolved", "done"}, Arrive(r, t, v, m, where)
      PROVE  RequestShape'
  BY <1>0, <1>1 DEF Arrive, Fresh, GoTo, RegInv, RegShape
<1>2. ASSUME NEW m \in Methods, InnerRequest(r, m)
      PROVE  RequestShape'
  <2>1. conn[r] \in [host : Verdicts, monitor : BOOLEAN]
    BY <1>0, <1>2 DEF InnerRequest, PathInv
  <2> QED BY <1>0, <1>2, <2>1 DEF InnerRequest, GoTo, AllMethods
<1>3. CASE DatastoreResolved(r)
  BY <1>0, <1>3 DEF DatastoreResolved, Conclude, GoTo
<1>4. CASE Check(r)
  <2>1. UNCHANGED <<via, tok, method, conn, hop, fate, decision, record>> /\ pc[r] \in AtCheck
    BY <1>4 DEF Check, AtCheck
  <2>2. CASE Pass(r, "allow")
    BY <1>0, <2>1, <2>2, PassGoesOn, SMTT(20)
  <2>3. CASE GoTo(r, "refused") /\ UNCHANGED verdict
    BY <1>0, <2>1, <2>3 DEF GoTo
  <2> QED BY <1>4, <2>2, <2>3 DEF Check
<1>5. CASE Refused(r)
  <2>1. UNCHANGED <<via, tok, method, conn, hop, fate, record>>
    BY <1>5 DEF Refused
  <2>2. CASE Pass(r, "monitor") /\ UNCHANGED decision
    BY <1>0, <1>5, <2>1, <2>2, PassGoesOn, SMTT(40) DEF Refused, AtCheck
  <2>3. CASE Conclude(r, "deny") /\ UNCHANGED verdict
    BY <1>0, <2>1, <2>3 DEF Conclude, GoTo
  <2> QED BY <1>5, <2>2, <2>3 DEF Refused
<1>6. CASE InjectAuth(r)
  BY <1>0, <1>6 DEF InjectAuth, Conclude, GoTo
<1>7. CASE RedactBody(r)
  BY <1>0, <1>7 DEF RedactBody, Conclude, GoTo
<1>8. CASE Route(r)
  BY <1>0, <1>8 DEF Route, GoTo
<1>9. CASE Handshake(r)
  <2>1. Monitored(tok[r]) \in BOOLEAN
    BY <1>0, <1>9, MonitoredIsBoolean DEF Handshake, PathInv, RegInv, RegShape
  <2>2. UNCHANGED <<tok, method, verdict, hop, fate, decision, record>>
    BY <1>9 DEF Handshake
  <2>3. CASE GoTo(r, "done") /\ UNCHANGED <<conn, via>>
    BY <1>0, <2>2, <2>3 DEF GoTo
  <2>4. CASE /\ conn' = [conn EXCEPT ![r] = [host |-> verdict[r], monitor |-> Monitored(tok[r])]]
             /\ via' = [via EXCEPT ![r] = "inner"]
             /\ GoTo(r, "loop")
    <3>1. [host |-> verdict[r], monitor |-> Monitored(tok[r])] \in [host : Verdicts, monitor : BOOLEAN]
      BY <1>0, <2>1
    <3> QED BY <1>0, <2>2, <2>4, <3>1 DEF GoTo, Paths
  <2> QED BY <1>9, <2>3, <2>4 DEF Handshake
<1>10. CASE Unsendable(r)
  BY <1>0, <1>10 DEF Unsendable, Drop, GoTo
<1>11. CASE DialRefused(r)
  BY <1>0, <1>11 DEF DialRefused, Conclude, GoTo
<1>12. CASE Unreachable(r)
  BY <1>0, <1>12 DEF Unreachable, Conclude, GoTo, Unanswered
<1>13. CASE Send(r)
  BY <1>0, <1>13 DEF Send, GoTo
<1>14. CASE Answer(r)
  BY <1>0, <1>14 DEF Answer, Conclude, GoTo, Answered
<1>15. CASE AnswerFails(r)
  BY <1>0, <1>15 DEF AnswerFails, Conclude, GoTo, Unanswered
<1>19. CASE Redirect(r)
  BY <1>0, <1>19 DEF Redirect, GoTo
<1>16. CASE Abort(r)
  BY <1>0, <1>16 DEF Abort, GoTo
<1>17. CASE Emit(r)
  BY <1>0, <1>17 DEF Emit, GoTo, AfterEmit, RecordInv, PathInv, RegInv, RegShape
<1>18. CASE Hangup(r)
  BY <1>0, <1>18 DEF Hangup, GoTo
<1> QED
  BY ArrivesAs, <1>1, <1>2, <1>3, <1>4, <1>5, <1>6, <1>7, <1>8, <1>9, <1>10, <1>11, <1>12, <1>13, <1>14, <1>15, <1>19, <1>16, <1>17, <1>18
     DEF Step, Serve

LEMMA StepLocal ==
  ASSUME RequestShape, NEW r \in Requests, Step(r)
  PROVE  /\ UNCHANGED regVars
         /\ \A q \in Requests \ {r} : SameAt(q)
<1> USE DEF RequestShape, SameAt
<1> DEFINE Goal == UNCHANGED regVars /\ \A q \in Requests \ {r} : SameAt(q)
<1>1. ASSUME NEW t \in given, NEW m \in AllMethods, NEW v \in Paths \ {"inner"},
             NEW where \in {"check", "resolved", "done"}, Arrive(r, t, v, m, where)
      PROVE  Goal
  BY <1>1 DEF Arrive, Fresh, GoTo
<1>2. ASSUME NEW m \in Methods, InnerRequest(r, m)
      PROVE  Goal
  BY <1>2 DEF InnerRequest, GoTo
<1>3. CASE DatastoreResolved(r)
  BY <1>3 DEF DatastoreResolved, Conclude, GoTo
<1>4. CASE Check(r)
  BY <1>4 DEF Check, Pass, GoTo
<1>5. CASE Refused(r)
  BY <1>5 DEF Refused, Pass, Conclude, GoTo
<1>6. CASE InjectAuth(r)
  BY <1>6 DEF InjectAuth, Conclude, GoTo
<1>7. CASE RedactBody(r)
  BY <1>7 DEF RedactBody, Conclude, GoTo
<1>8. CASE Route(r)
  BY <1>8 DEF Route, GoTo
<1>9. CASE Handshake(r)
  BY <1>9 DEF Handshake, GoTo
<1>10. CASE Unsendable(r)
  BY <1>10 DEF Unsendable, Drop, GoTo
<1>11. CASE DialRefused(r)
  BY <1>11 DEF DialRefused, Conclude, GoTo
<1>12. CASE Unreachable(r)
  BY <1>12 DEF Unreachable, Conclude, GoTo
<1>13. CASE Send(r)
  BY <1>13 DEF Send, GoTo
<1>14. CASE Answer(r)
  BY <1>14 DEF Answer, Conclude, GoTo
<1>15. CASE AnswerFails(r)
  BY <1>15 DEF AnswerFails, Conclude, GoTo
<1>19. CASE Redirect(r)
  BY <1>19 DEF Redirect, GoTo
<1>16. CASE Abort(r)
  BY <1>16 DEF Abort, GoTo
<1>17. CASE Emit(r)
  BY <1>17 DEF Emit, GoTo
<1>18. CASE Hangup(r)
  BY <1>18 DEF Hangup, GoTo
<1> QED
  BY ArrivesAs, <1>1, <1>2, <1>3, <1>4, <1>5, <1>6, <1>7, <1>8, <1>9, <1>10, <1>11, <1>12, <1>13, <1>14, <1>15, <1>19, <1>16, <1>17, <1>18
     DEF Step, Serve

-----------------------------------------------------------------------------
(* One request's step: its own invariant.                                  *)

(* In a step that leaves the registry alone, what the registry would let   *)
(* the request do is among what the observer has afterwards.               *)
LEMMA Observed ==
  ASSUME RegInv, UNCHANGED regVars, Observe, NEW r \in Requests, pc'[r] \notin Ready,
         tok[r] # Nil, tok'[r] = tok[r]
  PROVE  /\ permitted[r] \subseteq permitted'[r]
         /\ \A m \in AllMethods : Allows(tok[r], m) => m \in permitted'[r]
         /\ Monitored(tok[r]) => AllMethods \subseteq permitted'[r]
<1>1. permitted'[r] = permitted[r] \union LetsNow(r)'
  BY ObserveAdds
<1>2. {m \in AllMethods : Lets(tok[r], m)'} \subseteq LetsNow(r)'
  BY DEF LetsNow
<1>3. \A m \in AllMethods : Lets(tok[r], m)' <=> Lets(tok[r], m)
  BY DEF Lets, Allows, Monitored, PolicyOf, regVars, registryVars
<1>4. \A m \in AllMethods : Allows(tok[r], m) => Lets(tok[r], m)
  BY DEF Lets, Allows
<1>5. Monitored(tok[r]) => \A m \in AllMethods : Lets(tok[r], m)
  BY DEF Lets, Monitored, PolicyOf
<1> QED BY <1>1, <1>2, <1>3, <1>4, <1>5

LEMMA StepReq ==
  ASSUME IInv, NEW r \in Requests, Step(r), Observe
  PROVE  ReqInv(r)'
<1> DEFINE Same == UNCHANGED regVars
<1>0. /\ Same /\ RegInv /\ RequestShape /\ ReqInv(r) /\ RequestShape'
      /\ permitted'[r] \subseteq AllMethods
  BY StepLocal, StepShape DEF IInv, RequestShape
<1>a. ASSUME pc'[r] \notin Ready, pc[r] \notin Ready, tok'[r] = tok[r]
      PROVE  /\ permitted[r] \subseteq permitted'[r]
             /\ \A m \in AllMethods : Allows(tok[r], m) => m \in permitted'[r]
             /\ Monitored(tok[r]) => AllMethods \subseteq permitted'[r]
  BY <1>0, <1>a, Observed DEF ReqInv, PathInv
<1> USE EgressAssumption DEF RequestShape, Ready, Paths, Verdicts, Decisions
<1>1. ASSUME NEW t \in given, NEW m \in AllMethods, NEW v \in Paths \ {"inner"},
             NEW where \in {"check", "resolved", "done"},
             where = "check" => v # "l4", where = "resolved" => v = "l4",
             Arrive(r, t, v, m, where)
      PROVE  ReqInv(r)'
  BY <1>0, <1>1 DEF Arrive, Fresh, GoTo, ReqInv, PathInv, PermitInv, RecordInv, RecordFits, AtCheck, PastCheck, regVars, historyVars, RegInv, RegShape
<1>2. ASSUME NEW m \in Methods, InnerRequest(r, m)
      PROVE  ReqInv(r)'
  BY <1>0, <1>a, <1>2 DEF InnerRequest, GoTo, ReqInv, PathInv, PermitInv, RecordInv, RecordFits, AtCheck, PastCheck, regVars, historyVars, AllMethods
<1>3. CASE DatastoreResolved(r)
  <2>1. PathInv(r)'
    BY <1>0, <1>3 DEF DatastoreResolved, Conclude, GoTo, ReqInv, PathInv, AtCheck, regVars, historyVars
  <2>2. PermitInv(r)'
    BY <1>0, <1>a, <1>3, ZenonT(40) DEF DatastoreResolved, Conclude, GoTo, ReqInv, PathInv, PermitInv, RecordInv, AtCheck, PastCheck
  <2>3. RecordInv(r)'
    BY <1>0, <1>3 DEF DatastoreResolved, Conclude, GoTo, ReqInv, PathInv, RecordInv, RecordFits, AtCheck
  <2> QED BY <2>1, <2>2, <2>3 DEF ReqInv
<1>4. CASE Check(r)
  <2>0. /\ UNCHANGED <<via, tok, method, conn, hop, fate, decision, record>>
        /\ pc[r] = "check" /\ tok[r] # Nil /\ method[r] \in AllMethods
    BY <1>0, <1>4 DEF Check, ReqInv, PathInv, AtCheck
  <2>1. CASE Allows(tok[r], method[r]) /\ Pass(r, "allow")
    <3>1. PICK where \in {"inject", "send", "route", "redact"} :
            /\ pc' = [pc EXCEPT ![r] = where]
            /\ where = "inject" => via[r] = "gateway"
            /\ where = "route" => via[r] = "connect"
            /\ via[r] \in {"gateway", "plain", "connect", "inner"}
      BY <1>0, <2>0, <2>1, PassGoesOn DEF AtCheck, ReqInv
    <3>2. verdict'[r] = "allow"
      BY <1>0, <2>0, <2>1, PassGoesOn DEF AtCheck, ReqInv
    <3>3. /\ permitted[r] \subseteq permitted'[r]
          /\ method[r] \in permitted'[r]
      BY <1>0, <1>a, <2>0, <2>1, <3>1
    <3> QED BY <1>0, <2>0, <3>1, <3>2, <3>3 DEF ReqInv, PathInv, PermitInv, RecordInv, RecordFits, AtCheck, PastCheck, regVars, historyVars
  <2>2. CASE GoTo(r, "refused") /\ UNCHANGED verdict
    BY <1>0, <1>a, <2>0, <2>2 DEF GoTo, ReqInv, PathInv, PermitInv, RecordInv, RecordFits, AtCheck, PastCheck, regVars, historyVars
  <2> QED BY <1>4, <2>1, <2>2 DEF Check
<1>5. CASE Refused(r)
  <2>0. /\ UNCHANGED <<via, tok, method, conn, hop, fate, record>>
        /\ pc[r] = "refused" /\ tok[r] # Nil /\ method[r] \in AllMethods
    BY <1>0, <1>5 DEF Refused, ReqInv, PathInv, AtCheck
  <2>1. CASE InMonitorMode(r) /\ Pass(r, "monitor") /\ UNCHANGED decision
    <3>1. PICK where \in {"inject", "send", "route", "redact"} :
            /\ pc' = [pc EXCEPT ![r] = where]
            /\ where = "inject" => via[r] = "gateway"
            /\ where = "route" => via[r] = "connect"
            /\ via[r] \in {"gateway", "plain", "connect", "inner"}
      BY <1>0, <2>0, <2>1, PassGoesOn DEF AtCheck, ReqInv
    <3>2. verdict'[r] = "monitor"
      BY <1>0, <2>0, <2>1, PassGoesOn DEF AtCheck, ReqInv
    <3>3. AllMethods \subseteq permitted'[r]
      <4>1. CASE via[r] = "inner"
        <5>1. AllMethods \subseteq permitted[r]
          BY <1>0, <2>0, <2>1, <4>1 DEF InMonitorMode, ReqInv, PermitInv
        <5> QED BY <1>0, <1>a, <2>0, <3>1, <5>1
      <4>2. CASE via[r] # "inner"
        BY <1>0, <1>a, <2>0, <2>1, <3>1, <4>2 DEF InMonitorMode
      <4> QED BY <4>1, <4>2
    <3> QED BY <1>0, <2>0, <3>1, <3>2, <3>3 DEF ReqInv, PathInv, PermitInv, RecordInv, RecordFits, AtCheck, PastCheck, regVars, historyVars
  <2>2. CASE Conclude(r, "deny") /\ UNCHANGED verdict
    BY <1>0, <1>a, <2>0, <2>2 DEF Conclude, GoTo, ReqInv, PathInv, PermitInv, RecordInv, RecordFits, AtCheck, PastCheck, regVars, historyVars
  <2> QED BY <1>5, <2>1, <2>2 DEF Refused
<1>6. CASE InjectAuth(r)
  <2>1. PathInv(r)'
    BY <1>0, <1>6 DEF InjectAuth, Conclude, GoTo, ReqInv, PathInv, AtCheck, regVars, historyVars
  <2>2. PermitInv(r)'
    BY <1>0, <1>a, <1>6 DEF InjectAuth, Conclude, GoTo, ReqInv, PathInv, PermitInv, RecordInv, AtCheck, PastCheck
  <2>3. RecordInv(r)'
    BY <1>0, <1>6 DEF InjectAuth, Conclude, GoTo, ReqInv, PathInv, RecordInv, RecordFits, AtCheck
  <2> QED BY <2>1, <2>2, <2>3 DEF ReqInv
<1>7. CASE RedactBody(r)
  <2>1. PathInv(r)'
    BY <1>0, <1>7 DEF RedactBody, Conclude, GoTo, ReqInv, PathInv, AtCheck, regVars, historyVars
  <2>2. PermitInv(r)'
    BY <1>0, <1>a, <1>7, ZenonT(40) DEF RedactBody, Conclude, GoTo, ReqInv, PathInv, PermitInv, RecordInv, AtCheck, PastCheck
  <2>3. RecordInv(r)'
    BY <1>0, <1>7 DEF RedactBody, Conclude, GoTo, ReqInv, PathInv, RecordInv, RecordFits, AtCheck
  <2> QED BY <2>1, <2>2, <2>3 DEF ReqInv
<1>8. CASE Route(r)
  <2>1. PathInv(r)'
    BY <1>0, <1>8 DEF Route, GoTo, ReqInv, PathInv, AtCheck, regVars, historyVars
  <2>2. PermitInv(r)'
    BY <1>0, <1>a, <1>8 DEF Route, GoTo, ReqInv, PathInv, PermitInv, RecordInv, AtCheck, PastCheck
  <2>3. RecordInv(r)'
    BY <1>0, <1>8 DEF Route, GoTo, ReqInv, PathInv, RecordInv, RecordFits, AtCheck
  <2> QED BY <2>1, <2>2, <2>3 DEF ReqInv
<1>9. CASE Handshake(r)
  <2>0. /\ pc[r] = "handshake" /\ tok[r] # Nil /\ tok[r] \in Tokens
        /\ UNCHANGED <<regVars, tok, method, verdict, hop, fate, decision, record>>
    BY <1>0, <1>9 DEF Handshake, ReqInv, PathInv, AtCheck
  <2>1. CASE GoTo(r, "done") /\ UNCHANGED <<conn, via>>
    BY <1>0, <2>0, <2>1 DEF GoTo, ReqInv, PathInv, PermitInv, RecordInv, RecordFits, AtCheck, PastCheck, regVars, historyVars
  <2>2. CASE /\ conn' = [conn EXCEPT ![r] = [host |-> verdict[r], monitor |-> Monitored(tok[r])]]
             /\ via' = [via EXCEPT ![r] = "inner"]
             /\ GoTo(r, "loop")
    <3>1. /\ pc'[r] = "loop" /\ via'[r] = "inner"
          /\ conn'[r] = [host |-> verdict[r], monitor |-> Monitored(tok[r])]
      BY <1>0, <2>2 DEF GoTo
    <3>2. conn'[r] # Nil
      BY <1>0, <2>0, <3>1, MonitoredIsBoolean
    <3>3. conn'[r].host = verdict[r] /\ conn'[r].monitor = Monitored(tok[r])
      BY <3>1
    <3>4. PathInv(r)'
      BY <1>0, <2>0, <3>1, <3>2 DEF ReqInv, PathInv, AtCheck, regVars, historyVars
    <3>5. PermitInv(r)'
      <4>1. verdict[r] = "monitor" => AllMethods \subseteq permitted'[r]
        BY <1>0, <1>a, <2>0, <3>1 DEF ReqInv, PermitInv
      <4>2. Monitored(tok[r]) => AllMethods \subseteq permitted'[r]
        BY <1>a, <2>0, <3>1
      <4> QED BY <2>0, <3>1, <3>3, <4>1, <4>2 DEF PermitInv, PastCheck
    <3>6. RecordInv(r)'
      BY <1>0, <2>0, <3>1 DEF ReqInv, PathInv, RecordInv, RecordFits, AtCheck
    <3> QED BY <3>4, <3>5, <3>6 DEF ReqInv
  <2> QED BY <1>9, <2>1, <2>2 DEF Handshake
<1>10. CASE Unsendable(r)
  <2>1. PathInv(r)'
    BY <1>0, <1>10 DEF Unsendable, Drop, GoTo, ReqInv, PathInv, AtCheck, regVars, historyVars
  <2>2. PermitInv(r)'
    BY <1>0, <1>a, <1>10, ZenonT(40) DEF Unsendable, Drop, GoTo, ReqInv, PathInv, PermitInv, RecordInv, AtCheck, PastCheck
  <2>3. RecordInv(r)'
    BY <1>0, <1>10 DEF Unsendable, Drop, GoTo, ReqInv, PathInv, RecordInv, RecordFits, AtCheck
  <2> QED BY <2>1, <2>2, <2>3 DEF ReqInv
<1>11. CASE DialRefused(r)
  <2>1. PathInv(r)'
    BY <1>0, <1>11 DEF DialRefused, Conclude, GoTo, ReqInv, PathInv, AtCheck, regVars, historyVars
  <2>2. PermitInv(r)'
    BY <1>0, <1>a, <1>11 DEF DialRefused, Conclude, GoTo, ReqInv, PathInv, PermitInv, RecordInv, AtCheck, PastCheck
  <2>3. RecordInv(r)'
    BY <1>0, <1>11 DEF DialRefused, Conclude, GoTo, ReqInv, PathInv, RecordInv, RecordFits, AtCheck
  <2> QED BY <2>1, <2>2, <2>3 DEF ReqInv
<1>12. CASE Unreachable(r)
  <2>1. PathInv(r)'
    BY <1>0, <1>12 DEF Unreachable, Conclude, GoTo, Unanswered, ReqInv, PathInv, AtCheck, regVars, historyVars
  <2>2. PermitInv(r)'
    BY <1>0, <1>a, <1>12, ZenonT(40) DEF Unreachable, Conclude, GoTo, Unanswered, ReqInv, PathInv, PermitInv, RecordInv, AtCheck, PastCheck
  <2>3. RecordInv(r)'
    BY <1>0, <1>12 DEF Unreachable, Conclude, GoTo, Unanswered, ReqInv, PathInv, RecordInv, RecordFits, AtCheck
  <2> QED BY <2>1, <2>2, <2>3 DEF ReqInv
<1>13. CASE Send(r)
  <2>1. PathInv(r)'
    BY <1>0, <1>13 DEF Send, GoTo, ReqInv, PathInv, AtCheck, regVars, historyVars
  <2>2. PermitInv(r)'
    BY <1>0, <1>a, <1>13, ZenonT(40) DEF Send, GoTo, ReqInv, PathInv, PermitInv, RecordInv, AtCheck, PastCheck
  <2>3. RecordInv(r)'
    BY <1>0, <1>13 DEF Send, GoTo, ReqInv, PathInv, RecordInv, RecordFits, AtCheck
  <2> QED BY <2>1, <2>2, <2>3 DEF ReqInv
<1>14. CASE Answer(r)
  <2>1. PathInv(r)'
    BY <1>0, <1>14 DEF Answer, Conclude, GoTo, Answered, ReqInv, PathInv, AtCheck, regVars, historyVars
  <2>2. PermitInv(r)'
    BY <1>0, <1>a, <1>14, ZenonT(40) DEF Answer, Conclude, GoTo, Answered, ReqInv, PathInv, PermitInv, RecordInv, AtCheck, PastCheck
  <2>3. RecordInv(r)'
    BY <1>0, <1>14 DEF Answer, Conclude, GoTo, Answered, ReqInv, PathInv, RecordInv, RecordFits, AtCheck
  <2> QED BY <2>1, <2>2, <2>3 DEF ReqInv
<1>15. CASE AnswerFails(r)
  <2>1. PathInv(r)'
    BY <1>0, <1>15 DEF AnswerFails, Conclude, GoTo, Unanswered, ReqInv, PathInv, AtCheck, regVars, historyVars
  <2>2. PermitInv(r)'
    BY <1>0, <1>a, <1>15, ZenonT(40) DEF AnswerFails, Conclude, GoTo, Unanswered, ReqInv, PathInv, PermitInv, RecordInv, AtCheck, PastCheck
  <2>3. RecordInv(r)'
    BY <1>0, <1>15 DEF AnswerFails, Conclude, GoTo, Unanswered, ReqInv, PathInv, RecordInv, RecordFits, AtCheck
  <2> QED BY <2>1, <2>2, <2>3 DEF ReqInv
<1>19. CASE Redirect(r)
  <2>1. PathInv(r)'
    BY <1>0, <1>19 DEF Redirect, GoTo, ReqInv, PathInv, AtCheck, regVars, historyVars
  <2>2. PermitInv(r)'
    BY <1>0, <1>a, <1>19, ZenonT(40) DEF Redirect, GoTo, ReqInv, PathInv, PermitInv, RecordInv, AtCheck, PastCheck
  <2>3. RecordInv(r)'
    BY <1>0, <1>19 DEF Redirect, GoTo, ReqInv, PathInv, RecordInv, RecordFits, AtCheck
  <2> QED BY <2>1, <2>2, <2>3 DEF ReqInv
<1>16. CASE Abort(r)
  <2>1. PathInv(r)'
    BY <1>0, <1>16 DEF Abort, GoTo, ReqInv, PathInv, AtCheck, regVars, historyVars
  <2>2. PermitInv(r)'
    BY <1>0, <1>a, <1>16 DEF Abort, GoTo, ReqInv, PathInv, PermitInv, RecordInv, AtCheck, PastCheck
  <2>3. RecordInv(r)'
    BY <1>0, <1>16 DEF Abort, GoTo, ReqInv, PathInv, RecordInv, RecordFits, AtCheck
  <2> QED BY <2>1, <2>2, <2>3 DEF ReqInv
<1>17. CASE Emit(r)
  <2>0. /\ pc[r] = "emit" /\ tok[r] # Nil /\ tok[r] \in given /\ tok[r] \in Tokens
        /\ UNCHANGED <<regVars, via, tok, method, verdict, conn, hop, fate, decision>>
        /\ record'[r] = [decision |-> decision[r], pod |-> handlePod[tok[r]]]
    BY <1>0, <1>17 DEF Emit, ReqInv, PathInv, AtCheck
  <2>1. PICK where \in {"loop", "session", "tunnel", "done"} :
          /\ pc' = [pc EXCEPT ![r] = where]
          /\ where = "loop" => via[r] = "inner"
          /\ where = "session" => via[r] = "l4"
          /\ where = "tunnel" => via[r] = "connect" /\ fate[r] = "answered"
    BY <1>0, <1>17 DEF Emit, GoTo, AfterEmit
  <2>2. PathInv(r)'
    BY <1>0, <2>0, <2>1 DEF ReqInv, PathInv, AtCheck, regVars, historyVars
  <2>3. PermitInv(r)'
    <3>1. CASE where = "done"
      BY <1>0, <2>1, <3>1 DEF PermitInv
    <3>2. CASE where # "done"
      <4>1. permitted[r] \subseteq permitted'[r] /\ permitted'[r] \subseteq AllMethods
        BY <1>0, <1>a, <2>0, <2>1, <3>2
      <4> QED BY <1>0, <2>0, <2>1, <3>2, <4>1, ZenonT(40) DEF ReqInv, PermitInv, PastCheck
    <3> QED BY <3>1, <3>2
  <2>4. RecordInv(r)'
    <3>1. \/ record'[r].pod = owner[tok[r]]
          \/ record'[r].pod = Nil /\ handlePod[tok[r]] = Nil
      <4>1. handlePod[tok[r]] \in {Nil, owner[tok[r]]}
        BY <1>0, <2>0 DEF RegInv, RegistryAgrees
      <4>2. record'[r].pod = handlePod[tok[r]]
        BY <2>0
      <4> QED BY <4>1, <4>2
    <3>2. owner' = owner /\ handlePod' = handlePod
      BY <2>0 DEF regVars, registryVars, handleVars
    <3>3. /\ decision[r] = "block" => fate[r] = "none"
          /\ decision[r] = "deny" => fate[r] = "none" \/ hop[r] # "asked"
          /\ verdict[r] = "monitor" /\ decision[r] \in {"allow", "redact"} =>
               via[r] \in {"plain", "connect"} /\ fate[r] # "answered"
      BY <1>0, <2>0 DEF ReqInv, RecordInv
    <3>4. record'[r].decision = decision[r] /\ record'[r] # Nil
      <4>1. decision[r] \in Decisions
        BY <1>0, <2>0 DEF ReqInv, RecordInv
      <4>2. handlePod[tok[r]] \in Pods \union {Nil}
        BY <1>0, <2>0 DEF RegInv, RegShape
      <4> QED BY <2>0, <4>1, <4>2
    <3>5. RecordFits(r)'
      BY <2>0, <3>1, <3>2, <3>3, <3>4 DEF RecordFits
    <3>6. pc'[r] = where
      BY <1>0, <2>1
    <3> QED BY <2>0, <3>4, <3>5, <3>6 DEF RecordInv
  <2> QED BY <2>2, <2>3, <2>4 DEF ReqInv
<1>18. CASE Hangup(r)
  <2>1. PathInv(r)'
    BY <1>0, <1>18 DEF Hangup, GoTo, regVars, registryVars, handleVars, ReqInv, PathInv, AtCheck, regVars, historyVars
  <2>2. PermitInv(r)'
    BY <1>0, <1>a, <1>18 DEF Hangup, GoTo, regVars, registryVars, handleVars, ReqInv, PathInv, PermitInv, RecordInv, AtCheck, PastCheck
  <2>3. RecordInv(r)'
    BY <1>0, <1>18 DEF Hangup, GoTo, regVars, registryVars, handleVars, ReqInv, PathInv, RecordInv, RecordFits, AtCheck
  <2> QED BY <2>1, <2>2, <2>3 DEF ReqInv
<1> QED
  BY ArrivesAs, <1>1, <1>2, <1>3, <1>4, <1>5, <1>6, <1>7, <1>8, <1>9, <1>10, <1>11, <1>12, <1>13, <1>14, <1>15, <1>19, <1>16, <1>17, <1>18
     DEF Step, Serve

-----------------------------------------------------------------------------
LEMMA NextInv ==
  ASSUME IInv, [Next]_vars
  PROVE  IInv' /\ [RegStep]_regVars
<1>1. CASE RegNext /\ UNCHANGED requestVars /\ Observe
  <2>1. RegInv' /\ [RegStep]_regVars
    BY <1>1, RegStepInv DEF IInv, RegStep
  <2>2. \A r \in Requests : SameAt(r)
    BY <1>1 DEF requestVars, SameAt
  <2>3. RequestShape'
    BY <1>1, ObserveShape DEF IInv, RequestShape, requestVars
  <2>4. \A r \in Requests : ReqInv(r)'
    BY <1>1, <2>1, <2>2, StillReq DEF IInv
  <2> QED BY <2>1, <2>3, <2>4 DEF IInv
<1>2. CASE Restart /\ Observe
  <2>1. RegInv' /\ [RegStep]_regVars
    BY <1>2, RegStepInv DEF IInv, RegStep, Restart
  <2>2. RequestShape'
    BY <1>2, ObserveShape DEF IInv, RequestShape, Restart, Places, Ready
  <2>3. \A r \in Requests : ReqInv(r)'
    BY <1>2 DEF IInv, ReqInv, PathInv, PermitInv, RecordInv, Restart, RegRestart, Ready, AtCheck
  <2> QED BY <2>1, <2>2, <2>3 DEF IInv
<1>3. ASSUME NEW r \in Requests, Step(r), Observe
      PROVE  IInv' /\ [RegStep]_regVars
  <2>1. UNCHANGED regVars /\ \A q \in Requests \ {r} : SameAt(q)
    BY <1>3, StepLocal DEF IInv
  <2>2. RegInv'
    BY <2>1, RegStepInv DEF IInv
  <2>3. RequestShape'
    BY <1>3, StepShape DEF IInv
  <2>4. \A q \in Requests \ {r} : ReqInv(q)'
    BY <1>3, <2>1, StillReq DEF IInv
  <2>5. ReqInv(r)'
    BY <1>3, StepReq
  <2> QED BY <2>1, <2>2, <2>3, <2>4, <2>5 DEF IInv
<1>4. CASE UNCHANGED vars
  <2>1. RegInv'
    BY <1>4, RegStepInv DEF IInv, vars
  <2>2. RequestShape'
    BY <1>4 DEF IInv, vars, requestVars, RequestShape
  <2>3. \A r \in Requests : ReqInv(r)'
    BY <1>4 DEF IInv, vars, requestVars, regVars, registryVars, handleVars, historyVars,
         ReqInv, PathInv, PermitInv, RecordInv, RecordFits
  <2> QED BY <1>4, <2>1, <2>2, <2>3 DEF IInv, vars
<1> QED BY <1>1, <1>2, <1>3, <1>4 DEF Next, Step

THEOREM Inductive == Spec => []IInv
<1>1. Init => IInv
  BY InitInv
<1>2. IInv /\ [Next]_vars => IInv'
  BY NextInv
<1> QED BY <1>1, <1>2, PTL DEF Spec

(* Every reachable state has its shape, and the registry's two maps agree. *)
THEOREM TypeCorrect == Spec => []TypeOK
<1>1. IInv => TypeOK
  BY DEF IInv, RegInv, TypeOK
<1> QED BY <1>1, Inductive, PTL

(* What the registry has forgotten is revoked or on its way there.         *)
THEOREM RevokedWhenForgotten == Spec => []ForgottenIsRevoked
<1>1. IInv => ForgottenIsRevoked
  BY DEF IInv, RegInv
<1> QED BY <1>1, Inductive, PTL

(* What the registry has forgotten stays forgotten.                        *)
THEOREM StaysForgotten == Spec => ForgottenForGood
<1>1. ASSUME IInv, [Next]_vars
      PROVE  [\A t \in given : handlePod[t] = Nil => handlePod'[t] = Nil]_regVars
  BY <1>1, NextInv, RegStepForgets DEF IInv
<1>2. IInv /\ [Next]_vars =>
        [\A t \in given : handlePod[t] = Nil => handlePod'[t] = Nil]_regVars
  BY <1>1
<1> QED BY <1>2, Inductive, PTL DEF Spec, ForgottenForGood

(* What goes out was permitted at some moment since it arrived.            *)
THEOREM PermittedEgress == Spec => []EgressWasPermitted
<1>1. IInv => EgressWasPermitted
  BY DEF IInv, ReqInv, PermitInv, EgressWasPermitted, PastCheck, Ready
<1> QED BY <1>1, Inductive, PTL

(* The audit record tells what became of the request.                      *)
THEOREM TruthfulRecord == Spec => []RecordTellsFate
<1>1. IInv => RecordTellsFate
  BY DEF IInv, ReqInv, RecordInv, RecordFits, RecordTellsFate
<1> QED BY <1>1, Inductive, PTL
=============================================================================
