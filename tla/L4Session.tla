------------------------------- MODULE L4Session -------------------------------
(***************************************************************************)
(* One pod connection to a datastore through the broker: ServeRedis and    *)
(* ServePostgres read what comes before the session from the pod, resolve  *)
(* its handle, authenticate upstream with the real credential, and only    *)
(* then join the two streams.                                              *)
(*                                                                         *)
(* A stream is its messages in order, told by their numbers.  A read takes *)
(* in as much as has arrived, so a pod that does not wait, or an upstream  *)
(* that goes on after its OK, has messages in the buffers by then.         *)
(***************************************************************************)
EXTENDS Naturals, Sequences

CONSTANTS
  Queries, \* how many messages the pod sends in the session
  Answers  \* how many the upstream sends in it

ASSUME L4Assumption == Queries \in Nat /\ Answers \in Nat

VARIABLES
  l4at,      \* where the goroutine is
  proto,     \* redis or postgres
  pre,       \* how many of the pod's messages come before the session
  podSent, podBuf, podRead,  \* the pod's: sent, in or past the buffer, parsed
  upSent,    \* the upstream's messages of the session
  toUp, toPod, \* what splice has forwarded
  l4handle,  \* live or dead
  admitted,  \* history: the handle was live when it was resolved
  proof,     \* history: the SCRAM proof, none, due or undue
  accepted,  \* the upstream has sent its OK
  told       \* what the pod was told: nothing, ok, error

podStream == <<podSent, podBuf, podRead>>
l4auth == <<l4handle, admitted, proof, accepted, told>>
l4vars == <<l4at, proto, pre, podStream, upSent, toUp, toPod, l4auth>>

Stages4 == {"free", "startup", "password", "resolve", "dial", "auth", "sasl", "final",
            "tell", "splice", "closed"}

L4Init ==
  /\ l4at = "free" /\ proto = "redis" /\ pre = 1
  /\ podSent = 0 /\ podBuf = 0 /\ podRead = 0 /\ upSent = 0
  /\ toUp = << >> /\ toPod = << >>
  /\ l4handle = "live" /\ admitted = FALSE /\ proof = "none"
  /\ accepted = FALSE /\ told = "nothing"

-----------------------------------------------------------------------------
(* A Postgres client may ask for SSL first, and gets an N.                 *)
Accept(kind, n) ==
  /\ l4at = "free"
  /\ proto' = kind /\ pre' = n
  /\ l4at' = IF kind = "redis" THEN "password" ELSE "startup"
  /\ UNCHANGED <<podStream, upSent, toUp, toPod, l4auth>>

PodSends ==
  /\ l4at \notin {"free", "closed"} /\ podSent < pre + Queries
  /\ podSent' = podSent + 1
  /\ UNCHANGED <<l4at, proto, pre, podBuf, podRead, upSent, toUp, toPod, l4auth>>

(* bufio.Reader's fill, when it is empty.                                  *)
FillPodBuffer ==
  /\ l4at \in {"startup", "password"} /\ podBuf = podRead
  /\ podBuf' \in (podRead + 1)..podSent
  /\ UNCHANGED <<l4at, proto, pre, podSent, podRead, upSent, toUp, toPod, l4auth>>

ReadStartup ==
  /\ l4at = "startup" /\ podRead < podBuf
  /\ podRead' = podRead + 1
  /\ l4at' = IF podRead' = pre - 1 THEN "password" ELSE "startup"
  /\ UNCHANGED <<proto, pre, podSent, podBuf, upSent, toUp, toPod, l4auth>>

(* The handle: AUTH's last argument, or the password message.              *)
ReadHandle ==
  /\ l4at = "password" /\ podRead < podBuf
  /\ podRead' = podRead + 1
  /\ l4at' = "resolve"
  /\ UNCHANGED <<proto, pre, podSent, podBuf, upSent, toUp, toPod, l4auth>>

Close(t) == l4at' = "closed" /\ told' = t

ReadFails ==
  /\ l4at \in {"startup", "password"}
  /\ \E t \in {"nothing", "error"} : Close(t)
  /\ UNCHANGED <<proto, pre, podStream, upSent, toUp, toPod, l4handle, admitted, proof, accepted>>

ResolveHandle ==
  /\ l4at = "resolve"
  /\ IF l4handle = "live" THEN l4at' = "dial" /\ admitted' = TRUE /\ UNCHANGED told
     ELSE Close("error") /\ UNCHANGED admitted
  /\ UNCHANGED <<proto, pre, podStream, upSent, toUp, toPod, l4handle, proof, accepted>>

Dial ==
  /\ l4at = "dial"
  /\ (l4at' = "auth" /\ UNCHANGED told) \/ Close("error")
  /\ UNCHANGED <<proto, pre, podStream, upSent, toUp, toPod, l4handle, admitted, proof, accepted>>

-----------------------------------------------------------------------------
(* Authentication to the upstream.                                         *)

(* What it sends behind its OK may come with it.                           *)
UpstreamOK ==
  /\ accepted' = TRUE
  /\ upSent' \in 0..Answers
  /\ l4at' = "tell"
  /\ UNCHANGED <<proto, pre, podStream, toUp, toPod, l4handle, admitted, proof, told>>

(* Redis takes the AUTH; Postgres trusts, or has taken the password.       *)
UpstreamAccepts == l4at = "auth" /\ UpstreamOK

(* Postgres asks for SASL.  Asked for cleartext or md5 the broker answers  *)
(* and goes on reading, where it is.                                       *)
AsksSASL ==
  /\ l4at = "auth" /\ proto = "postgres"
  /\ l4at' = "sasl"
  /\ UNCHANGED <<proto, pre, podStream, upSent, toUp, toPod, l4auth>>

(* Mutant: any server-first message is answered with a proof.              *)
ServerFirstUnchecked(nonce, iters) ==
  /\ l4at = "sasl" /\ l4handle = "live"
  /\ proof' = IF nonce = "ours" /\ iters = "sane" THEN "due" ELSE "undue"
  /\ l4at' = "final" /\ UNCHANGED told
  /\ UNCHANGED <<proto, pre, podStream, upSent, toUp, toPod, l4handle, admitted, accepted>>

(* The server's nonce has to extend ours and its iterations to be within   *)
(* bounds; the keeper computes the proof and resolves the handle again.    *)
ServerFirst(nonce, iters) ==
  /\ l4at = "sasl"
  /\ IF nonce = "ours" /\ iters = "sane" /\ l4handle = "live"
     THEN proof' = "due" /\ l4at' = "final" /\ UNCHANGED told
     ELSE Close("error") /\ UNCHANGED proof
  /\ UNCHANGED <<proto, pre, podStream, upSent, toUp, toPod, l4handle, admitted, accepted>>

ServerFinal == l4at = "final" /\ UpstreamOK

(* It refuses, hangs up or says something else.                            *)
UpstreamFails ==
  /\ l4at \in {"auth", "sasl", "final"}
  /\ Close("error")
  /\ UNCHANGED <<proto, pre, podStream, upSent, toUp, toPod, l4handle, admitted, proof, accepted>>

TellPod ==
  /\ l4at = "tell"
  /\ (l4at' = "splice" /\ told' = "ok") \/ Close("nothing")
  /\ UNCHANGED <<proto, pre, podStream, upSent, toUp, toPod, l4handle, admitted, proof, accepted>>

-----------------------------------------------------------------------------
(* splice.                                                                 *)

UpstreamSends ==
  /\ accepted /\ l4at # "closed" /\ upSent < Answers
  /\ upSent' = upSent + 1
  /\ UNCHANGED <<l4at, proto, pre, podStream, toUp, toPod, l4auth>>

(* Mutant: what is in the buffer is passed over.                           *)
ForwardUpUnbuffered ==
  /\ l4at = "splice" /\ podBuf + Len(toUp) < podSent
  /\ toUp' = Append(toUp, podBuf + Len(toUp) + 1)
  /\ UNCHANGED <<l4at, proto, pre, podStream, upSent, toPod, l4auth>>

(* The buffer first, then the connection.                                  *)
ForwardUp ==
  /\ l4at = "splice" /\ podRead + Len(toUp) < podSent
  /\ toUp' = Append(toUp, podRead + Len(toUp) + 1)
  /\ UNCHANGED <<l4at, proto, pre, podStream, upSent, toPod, l4auth>>

ForwardDown ==
  /\ l4at = "splice" /\ Len(toPod) < upSent
  /\ toPod' = Append(toPod, Len(toPod) + 1)
  /\ UNCHANGED <<l4at, proto, pre, podStream, upSent, toUp, l4auth>>

(* One side has closed and its copy is done: both connections are closed,  *)
(* whatever is under way to the side that has not.                         *)
SpliceEnds ==
  /\ l4at = "splice"
  /\ podRead + Len(toUp) = podSent \/ Len(toPod) = upSent
  /\ l4at' = "closed"
  /\ UNCHANGED <<proto, pre, podStream, upSent, toUp, toPod, l4auth>>

(* A revoked handle ends no session that is spliced.                       *)
L4Revoke ==
  /\ l4handle = "live" /\ l4at \notin {"free", "closed"}
  /\ l4handle' = "dead"
  /\ UNCHANGED <<l4at, proto, pre, podStream, upSent, toUp, toPod, admitted, proof, accepted, told>>

NextSession ==
  /\ l4at = "closed"
  /\ l4at' = "free" /\ proto' = "redis" /\ pre' = 1
  /\ podSent' = 0 /\ podBuf' = 0 /\ podRead' = 0 /\ upSent' = 0
  /\ toUp' = << >> /\ toPod' = << >>
  /\ l4handle' = "live" /\ admitted' = FALSE /\ proof' = "none"
  /\ accepted' = FALSE /\ told' = "nothing"

Auth4 ==
  \/ UpstreamAccepts \/ AsksSASL \/ ServerFinal \/ UpstreamFails \/ TellPod
  \/ \E nonce \in {"ours", "foreign"}, iters \in {"sane", "huge"} : ServerFirst(nonce, iters)

L4Next ==
  \/ Accept("redis", 1) \/ Accept("postgres", 2) \/ Accept("postgres", 3)
  \/ PodSends \/ FillPodBuffer \/ ReadStartup \/ ReadHandle \/ ReadFails
  \/ ResolveHandle \/ Dial \/ Auth4
  \/ UpstreamSends \/ ForwardUp \/ ForwardDown \/ SpliceEnds \/ L4Revoke \/ NextSession

L4Spec == L4Init /\ [][L4Next]_l4vars

-----------------------------------------------------------------------------
L4TypeOK ==
  /\ l4at \in Stages4 /\ proto \in {"redis", "postgres"} /\ pre \in 1..3
  /\ podRead \in 0..podBuf /\ podBuf \in 0..podSent /\ podSent \in 0..(pre + Queries)
  /\ upSent \in 0..Answers
  /\ l4handle \in {"live", "dead"} /\ admitted \in BOOLEAN
  /\ proof \in {"none", "due", "undue"} /\ accepted \in BOOLEAN
  /\ told \in {"nothing", "ok", "error"}

(* What a side gets of the other's is what was sent since the session      *)
(* began, all of it and in order, however early it was sent.               *)
SpliceKeepsStream ==
  /\ \A i \in 1..Len(toUp) : toUp[i] = pre + i
  /\ \A i \in 1..Len(toPod) : toPod[i] = i

(* Nothing of the pod's session reaches an upstream, and the pod hears no  *)
(* OK, before a live handle was resolved and the upstream took the real    *)
(* credential; a proof is made for our own exchange only.                  *)
SessionAuthenticated ==
  /\ toUp # << >> \/ told = "ok" => admitted /\ accepted
  /\ proof # "undue"
=============================================================================
