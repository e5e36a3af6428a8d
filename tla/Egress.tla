-------------------------------- MODULE Egress --------------------------------
(***************************************************************************)
(* The three ways out of a pod: the injecting gateway, the forward proxy   *)
(* (plain HTTP, CONNECT tunnels and intercepted CONNECTs) and the L4       *)
(* listeners, each asking the pod registry while the control API changes   *)
(* it.  Every look-up of the registry or the keeper is a step of its own:  *)
(* Resolve, Check, Monitored, Intercepts, InjectAuth and the audit         *)
(* record's look-up of the pod may each see another registry.              *)
(*                                                                         *)
(* Whether a body holds a secret, the dial guard refuses an address, an    *)
(* upstream answers, reflects or redirects, is a choice.  Only the client  *)
(* of an intercepted connection follows redirects, and it does so without  *)
(* asking the policy again; ten of them are one as far as the state goes.  *)
(***************************************************************************)
EXTENDS PodRegistry

CONSTANTS
  Requests,  \* pod requests; an intercepted connection is one, too
  Leaves     \* whether the egress CA was loaded

Verdicts == {"allow", "monitor"}
Paths == {"gateway", "plain", "connect", "inner", "l4"}
Decisions == {"allow", "monitor", "redact", "reflect", "deny", "block"}
Hops == {"asked", "redirected"}
Ready == {"idle", "done"}

(* Nil is none of the values it stands beside.                             *)
ASSUME EgressAssumption ==
  /\ Leaves \in BOOLEAN
  /\ Nil \notin Tokens \union AllMethods \union Paths \union Decisions
  /\ Nil \notin [host : Verdicts, monitor : BOOLEAN]
  /\ Nil \notin [decision : Decisions, pod : Pods \union {Nil}]

VARIABLES
  pc,         \* where a request is
  via,        \* gateway, plain, connect, inner (intercepted), l4
  tok,        \* the token it presents
  method,     \* its method
  verdict,    \* allow, or monitor when it would have been denied
  conn,       \* what an intercepted connection decided when it opened
  hop,        \* the host it is at: the one asked for, or a redirect's
  fate,       \* how far it went: none, sent, answered, aborted
  decision,   \* the decision its audit record is to carry
  record,     \* the record it handed to the audit log
  permitted   \* history: what the registry allowed it since it arrived

requestVars == <<pc, via, tok, method, verdict, conn, hop, fate, decision, record>>
vars == <<regVars, requestVars, permitted>>

Init ==
  /\ RegInit
  /\ pc = [r \in Requests |-> "idle"]
  /\ via = [r \in Requests |-> Nil]
  /\ tok = [r \in Requests |-> Nil]
  /\ method = [r \in Requests |-> Nil]
  /\ verdict = [r \in Requests |-> "allow"]
  /\ conn = [r \in Requests |-> Nil]
  /\ hop = [r \in Requests |-> "asked"]
  /\ fate = [r \in Requests |-> "none"]
  /\ decision = [r \in Requests |-> Nil]
  /\ record = [r \in Requests |-> Nil]
  /\ permitted = [r \in Requests |-> {}]

-----------------------------------------------------------------------------
(* How a request moves on.                                                 *)

GoTo(r, where) == pc' = [pc EXCEPT ![r] = where]

(* A new request, with nothing of the one before it.                       *)
Fresh(r) ==
  /\ verdict' = [verdict EXCEPT ![r] = "allow"]
  /\ hop' = [hop EXCEPT ![r] = "asked"]
  /\ fate' = [fate EXCEPT ![r] = "none"]
  /\ decision' = [decision EXCEPT ![r] = Nil]
  /\ record' = [record EXCEPT ![r] = Nil]

Arrive(r, t, v, m, where) ==
  /\ pc[r] \in Ready
  /\ t \in given
  /\ tok' = [tok EXCEPT ![r] = t]
  /\ via' = [via EXCEPT ![r] = v]
  /\ method' = [method EXCEPT ![r] = m]
  /\ conn' = [conn EXCEPT ![r] = Nil]
  /\ Fresh(r)
  /\ GoTo(r, where)
  /\ UNCHANGED regVars

(* The decision is made; its record is written next.                       *)
Conclude(r, d) ==
  /\ decision' = [decision EXCEPT ![r] = d]
  /\ GoTo(r, "emit")

(* Nothing goes upstream and nothing is recorded: the end of the request,  *)
(* or of this one on its intercepted connection.                           *)
Drop(r) == GoTo(r, IF via[r] = "inner" THEN "loop" ELSE "done")

(* Past the policy check.                                                  *)
AfterCheck == [gateway |-> "inject", plain |-> "send", connect |-> "route", inner |-> "redact"]

Pass(r, v) ==
  /\ verdict' = [verdict EXCEPT ![r] = v]
  /\ GoTo(r, AfterCheck[via[r]])

-----------------------------------------------------------------------------
(* Arrivals.                                                               *)

(* The gateway resolves the handle first; without it the answer is a 401.  *)
GatewayRequest(r, t, m) ==
  Arrive(r, t, "gateway", m, IF t \in live THEN "check" ELSE "done")

PlainRequest(r, t, m) == Arrive(r, t, "plain", m, "check")

ConnectRequest(r, t) == Arrive(r, t, "connect", "CONNECT", "check")

(* An L4 client's handle resolves to its datastore, and the session is     *)
(* recorded and opened; the policy is not asked.                           *)
DatastoreConnects(r, t) ==
  Arrive(r, t, "l4", "CONNECT", IF t \in live THEN "resolved" ELSE "done")

DatastoreResolved(r) ==
  /\ pc[r] = "resolved"
  /\ Conclude(r, "allow")
  /\ UNCHANGED <<regVars, via, tok, method, verdict, conn, hop, fate, record>>

(* The next request on an intercepted connection: a connection that was    *)
(* itself let through by monitor mode is not checked again.                *)
InnerRequest(r, m) ==
  /\ pc[r] = "loop"
  /\ method' = [method EXCEPT ![r] = m]
  /\ verdict' = [verdict EXCEPT ![r] = conn[r].host]
  /\ hop' = [hop EXCEPT ![r] = "asked"]
  /\ fate' = [fate EXCEPT ![r] = "none"]
  /\ decision' = [decision EXCEPT ![r] = Nil]
  /\ record' = [record EXCEPT ![r] = Nil]
  /\ GoTo(r, IF conn[r].host = "monitor" THEN "redact" ELSE "check")
  /\ UNCHANGED <<regVars, via, tok, conn>>

-----------------------------------------------------------------------------
(* The policy.                                                             *)

Check(r) ==
  /\ pc[r] = "check"
  /\ IF Allows(tok[r], method[r])
     THEN Pass(r, "allow")
     ELSE GoTo(r, "refused") /\ UNCHANGED verdict
  /\ UNCHANGED <<regVars, via, tok, method, conn, hop, fate, decision, record>>

(* A refusal stands unless the pod's policy is in monitor mode, as looked  *)
(* up now or, on an intercepted connection, when that was opened.          *)
InMonitorMode(r) == IF via[r] = "inner" THEN conn[r].monitor ELSE Monitored(tok[r])

Refused(r) ==
  /\ pc[r] = "refused"
  /\ IF InMonitorMode(r)
     THEN Pass(r, "monitor") /\ UNCHANGED decision
     ELSE Conclude(r, "deny") /\ UNCHANGED verdict
  /\ UNCHANGED <<regVars, via, tok, method, conn, hop, fate, record>>

-----------------------------------------------------------------------------
(* On the way out.                                                         *)

(* A handle that no longer resolves and a failed refresh end the request.  *)
InjectAuth(r) ==
  /\ pc[r] = "inject"
  /\ \/ tok[r] \in live /\ GoTo(r, "redact") /\ UNCHANGED decision
     \/ Conclude(r, "deny")
  /\ UNCHANGED <<regVars, via, tok, method, verdict, conn, hop, fate, record>>

RedactBody(r) ==
  /\ pc[r] = "redact"
  /\ \/ GoTo(r, "send") /\ UNCHANGED decision
     \/ Conclude(r, "block")
  /\ UNCHANGED <<regVars, via, tok, method, verdict, conn, hop, fate, record>>

(* CONNECT: an intercepted connection, or a tunnel to dial.                *)
Route(r) ==
  /\ pc[r] = "route"
  /\ GoTo(r, IF Leaves /\ Intercepts(tok[r]) THEN "handshake" ELSE "send")
  /\ UNCHANGED <<regVars, via, tok, method, verdict, conn, hop, fate, decision, record>>

(* The pod takes the leaf or hangs up.  Monitor mode is looked up once for *)
(* the whole connection.                                                   *)
Handshake(r) ==
  /\ pc[r] = "handshake"
  /\ \/ /\ conn' = [conn EXCEPT ![r] = [host |-> verdict[r], monitor |-> Monitored(tok[r])]]
        /\ via' = [via EXCEPT ![r] = "inner"]
        /\ GoTo(r, "loop")
     \/ GoTo(r, "done") /\ UNCHANGED <<conn, via>>
  /\ UNCHANGED <<regVars, tok, method, verdict, hop, fate, decision, record>>

(* Mutant: monitor mode is forgotten when the answer is recorded.          *)
AnsweredUnmonitored(r) ==
  IF via[r] = "gateway" THEN {"allow", "redact", "reflect"} ELSE {verdict[r]}

(* What the record says of a request that was let through, answered and    *)
(* not.  The plain path's record of an upstream error says "allow".        *)
Answered(r) ==
  CASE via[r] = "gateway" /\ verdict[r] = "monitor" -> {"monitor", "reflect"}
    [] via[r] = "gateway" /\ verdict[r] = "allow" -> {"allow", "redact", "reflect"}
    [] via[r] = "inner" /\ verdict[r] = "allow" -> {"allow", "redact"}
    [] OTHER -> {verdict[r]}

Unanswered(r) ==
  CASE via[r] \in {"plain", "connect"} -> {"allow"}
    [] via[r] = "gateway" /\ verdict[r] = "allow" -> {"allow", "redact"}
    [] OTHER -> {verdict[r]}

(* The request's body cannot be read or the request cannot be built.  The  *)
(* CONNECT's connection is taken over after the upstream was dialled.      *)
Unsendable(r) ==
  /\ \/ pc[r] = "send" /\ via[r] # "connect" /\ hop[r] = "asked"
     \/ pc[r] = "sent" /\ via[r] = "connect"
  /\ Drop(r)
  /\ UNCHANGED <<regVars, via, tok, method, verdict, conn, hop, fate, decision, record>>

(* The forward proxy's dial guard refuses the resolved address, be it the  *)
(* first host's or one a redirect led to.                                  *)
DialRefused(r) ==
  /\ pc[r] = "send"
  /\ via[r] # "gateway"
  /\ Conclude(r, "deny")
  /\ UNCHANGED <<regVars, via, tok, method, verdict, conn, hop, fate, record>>

Unreachable(r) ==
  /\ pc[r] = "send"
  /\ \E d \in Unanswered(r) : Conclude(r, d)
  /\ UNCHANGED <<regVars, via, tok, method, verdict, conn, hop, fate, record>>

Send(r) ==
  /\ pc[r] = "send"
  /\ fate' = [fate EXCEPT ![r] = "sent"]
  /\ GoTo(r, "sent")
  /\ UNCHANGED <<regVars, via, tok, method, verdict, conn, hop, decision, record>>

(* The upstream's response comes back, or the tunnel is up.                *)
Answer(r) ==
  /\ pc[r] = "sent"
  /\ fate' = [fate EXCEPT ![r] = "answered"]
  /\ \E d \in Answered(r) : Conclude(r, d)
  /\ UNCHANGED <<regVars, via, tok, method, verdict, conn, hop, record>>

(* On an intercepted connection the client follows a redirect by itself,   *)
(* to this host again or to any other, and asks nobody; a redirect whose   *)
(* method needs a body it cannot send again is an answer like any other.   *)
Redirect(r) ==
  /\ pc[r] = "sent"
  /\ via[r] = "inner"
  /\ hop' = [hop EXCEPT ![r] = "redirected"]
  /\ GoTo(r, "send")
  /\ UNCHANGED <<regVars, via, tok, method, verdict, conn, fate, decision, record>>

(* The upstream fails after it has the request, or has redirected it once  *)
(* too often; on the gateway's path also when the response cannot be       *)
(* scrubbed.  Of a tunnel nothing is recorded once it is up.               *)
AnswerFails(r) ==
  /\ pc[r] = "sent"
  /\ via[r] # "connect"
  /\ \E d \in Unanswered(r) : Conclude(r, d)
  /\ UNCHANGED <<regVars, via, tok, method, verdict, conn, hop, fate, record>>

(* The pod hangs up in the middle of the response, and the reverse proxy   *)
(* ends the gateway's handler before it records anything.                  *)
Abort(r) ==
  /\ pc[r] = "sent"
  /\ via[r] = "gateway"
  /\ fate' = [fate EXCEPT ![r] = "aborted"]
  /\ GoTo(r, "done")
  /\ UNCHANGED <<regVars, via, tok, method, verdict, conn, hop, decision, record>>

-----------------------------------------------------------------------------
(* The audit record, under the pod the token has by now.                   *)

AfterEmit(r) ==
  CASE via[r] = "inner" -> "loop"
    [] via[r] = "l4" -> "session"
    [] via[r] = "connect" /\ fate[r] = "answered" -> "tunnel"
    [] OTHER -> "done"

Emit(r) ==
  /\ pc[r] = "emit"
  /\ record' = [record EXCEPT ![r] = [decision |-> decision[r], pod |-> handlePod[tok[r]]]]
  /\ GoTo(r, AfterEmit(r))
  /\ UNCHANGED <<regVars, via, tok, method, verdict, conn, hop, fate, decision>>

Hangup(r) ==
  /\ pc[r] \in {"loop", "tunnel", "session"}
  /\ GoTo(r, "done")
  /\ UNCHANGED <<regVars, via, tok, method, verdict, conn, hop, fate, decision, record>>

-----------------------------------------------------------------------------
Arrivals(r) ==
  \/ \E t \in given, m \in Methods : GatewayRequest(r, t, m) \/ PlainRequest(r, t, m)
  \/ \E t \in given : ConnectRequest(r, t) \/ DatastoreConnects(r, t)
  \/ \E m \in Methods : InnerRequest(r, m)

Serve(r) ==
  \/ DatastoreResolved(r) \/ Check(r) \/ Refused(r)
  \/ InjectAuth(r) \/ RedactBody(r) \/ Route(r) \/ Handshake(r)
  \/ Unsendable(r) \/ DialRefused(r) \/ Unreachable(r) \/ Send(r)
  \/ Answer(r) \/ Redirect(r) \/ AnswerFails(r) \/ Abort(r) \/ Emit(r) \/ Hangup(r)

(* The daemon's connections end with it.                                   *)
Restart ==
  /\ RegRestart
  /\ pc' = [r \in Requests |-> "idle"]
  /\ UNCHANGED <<via, tok, method, verdict, conn, hop, fate, decision, record>>

(* The observer: what the registry would let each request do, collected    *)
(* from the moment it arrived; nothing, for a token without a pod.         *)
Lets(t, m) == handlePod[t] # Nil /\ (Allows(t, m) \/ Monitored(t))

LetsNow(r) == IF tok[r] = Nil THEN {} ELSE {m \in AllMethods : Lets(tok[r], m)}

Observe ==
  permitted' = [r \in Requests |->
                  IF pc'[r] \in Ready THEN {} ELSE permitted[r] \union LetsNow(r)']

Next ==
  /\ \/ RegNext /\ UNCHANGED requestVars
     \/ Restart
     \/ \E r \in Requests : Arrivals(r) \/ Serve(r)
  /\ Observe

Spec == Init /\ [][Next]_vars

-----------------------------------------------------------------------------
Places == Ready \union {"check", "refused", "inject", "redact", "route", "handshake",
                        "loop", "send", "sent", "resolved", "emit", "tunnel", "session"}

RequestShape ==
  /\ pc \in [Requests -> Places]
  /\ via \in [Requests -> Paths \union {Nil}]
  /\ tok \in [Requests -> Tokens \union {Nil}]
  /\ method \in [Requests -> AllMethods \union {Nil}]
  /\ verdict \in [Requests -> Verdicts]
  /\ conn \in [Requests -> [host : Verdicts, monitor : BOOLEAN] \union {Nil}]
  /\ hop \in [Requests -> Hops]
  /\ fate \in [Requests -> {"none", "sent", "answered", "aborted"}]
  /\ decision \in [Requests -> Decisions \union {Nil}]
  /\ record \in [Requests -> [decision : Decisions, pod : Pods \union {Nil}] \union {Nil}]
  /\ permitted \in [Requests -> SUBSET AllMethods]

(* The shape of every reachable state, and the registry's two maps agree.  *)
TypeOK == RegShape /\ RegistryAgrees /\ RequestShape

(* What the host the pod asked for has was allowed, or would only have     *)
(* been logged, by a policy bound at some moment since the request arrived *)
(* (since its connection was opened, when that is intercepted), for a      *)
(* token that had a pod then: no mix of answers from before and after a    *)
(* rebinding, a `down` or a restart lets a request out that no moment's    *)
(* registry would.  Of the hosts a redirect leads to it says nothing: the  *)
(* code asks nobody about them, and the policy may well deny them.         *)
EgressWasPermitted ==
  \A r \in Requests :
    pc[r] \in {"sent", "tunnel"} => method[r] \in permitted[r]

(* The audit record tells what became of the request: an answered one is   *)
(* recorded; a blocked one did not go out, nor did a denied one, unless    *)
(* its upstream had redirected it before the dial guard refused; one that  *)
(* only monitor mode let out is recorded as allowed at most when it failed *)
(* outside an intercepted connection; and the record names the token's pod *)
(* unless the registry has forgotten that by now.                          *)
RecordTellsFate ==
  \A r \in Requests : pc[r] \in {"done", "loop", "tunnel"} =>
    /\ fate[r] = "answered" => record[r] # Nil
    /\ record[r] # Nil =>
         /\ record[r].decision = "block" => fate[r] = "none"
         /\ record[r].decision = "deny" => fate[r] = "none" \/ hop[r] # "asked"
         /\ verdict[r] = "monitor" /\ record[r].decision \in {"allow", "redact"} =>
              via[r] \in {"plain", "connect"} /\ fate[r] # "answered"
         /\ \/ record[r].pod = owner[tok[r]]
            \/ record[r].pod = Nil /\ handlePod[tok[r]] = Nil

=============================================================================
