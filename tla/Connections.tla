----------------------------- MODULE Connections -----------------------------
(***************************************************************************)
(* The copies of one OAuth connection's grant: what `connect` sealed on    *)
(* the host (oauth.json), the mirror the broker keeps of what it rotated   *)
(* while a pod ran, the credentials of the pods, and what the provider     *)
(* holds to be current.                                                    *)
(*                                                                         *)
(* A token is the number of its minting; a grant is named by its first     *)
(* token, and only its newest token can be refreshed.  A copy carries the  *)
(* time it was stamped at (RotatedAt).  Host and broker share a clock.     *)
(***************************************************************************)
EXTENDS Integers, FiniteSets

CONSTANTS
  CnPods,   \* pods made with the connection
  MaxMint,  \* bound: tokens minted
  MaxStamp  \* bound: copies stamped

ASSUME CnAssumption == MaxMint \in Nat /\ MaxStamp \in Nat

VARIABLES
  kind,     \* the connection: none, static, or of an mcp or http service
  disk,     \* oauth.json
  mirror,   \* the broker's copy
  grantOf,  \* token -> the grant it belongs to, 0 if it is not minted yet
  stamps,   \* how many copies have been stamped
  flow,     \* a connect command: where it is and the token it has got
  seed,     \* an up: where it is, the mirror it drained, the material it uses
  holds,    \* a pod's credential: NoToken, Static, or a token
  keyed,    \* the pods whose credential has a write-back key
  answer,   \* a token the provider has minted for a pod's refresh and the
            \* vault has yet to store, or NoToken
  unsaved,  \* a pod's rotated token that is still to be mirrored, or NoToken
  doubtful  \* history: grants whose newest token may be missing where an up
            \* or a pod looks: shared by pods, lost on its way to the vault,
            \* not mirrored, or mirrored too late

podCreds == <<holds, keyed>>
connVars == <<kind, disk, mirror, grantOf, stamps, flow, seed, podCreds, answer, unsaved, doubtful>>

NoToken == 0
Static == -1
NoCopy == [tok |-> NoToken, at |-> 0]
Tokens == 1..MaxMint
Copies == [tok : Tokens, at : 1..MaxStamp] \union {NoCopy}

NoFlow == [at |-> "idle", tok |-> NoToken]
NoSeed == [at |-> "idle", mir |-> NoCopy, use |-> NoCopy, adopt |-> FALSE, key |-> FALSE]

ConnInit ==
  /\ kind = "none" /\ disk = NoCopy /\ mirror = NoCopy
  /\ grantOf = [t \in Tokens |-> 0] /\ stamps = 0
  /\ flow = NoFlow
  /\ seed = [p \in CnPods |-> NoSeed]
  /\ holds = [p \in CnPods |-> NoToken] /\ keyed = {}
  /\ answer = [p \in CnPods |-> NoToken]
  /\ unsaved = [p \in CnPods |-> NoToken]
  /\ doubtful = {}

-----------------------------------------------------------------------------
(* The provider.                                                           *)

Minted == {t \in Tokens : grantOf[t] # 0}

NextToken == Cardinality(Minted) + 1

(* A newer token of its grant has been minted.                             *)
Consumed(t) == \E n \in Minted : n > t /\ grantOf[n] = grantOf[t]

Mint(grant) == NextToken \in Tokens /\ grantOf' = [grantOf EXCEPT ![NextToken] = grant]

-----------------------------------------------------------------------------
(* connect.                                                                *)

(* A token on the command line.  An oauth.json that is there stays.        *)
AddStatic ==
  /\ flow = NoFlow
  /\ kind' = "static"
  /\ UNCHANGED <<disk, mirror, grantOf, stamps, flow, seed, podCreds, answer, unsaved, doubtful>>

(* The flow that has the user grant access, for a new connection ...       *)
AddViaOAuth(k) ==
  /\ flow = NoFlow
  /\ Mint(NextToken)
  /\ flow' = [at |-> k, tok |-> NextToken]
  /\ UNCHANGED <<kind, disk, mirror, stamps, seed, podCreds, answer, unsaved, doubtful>>

(* ... whose directory is written first,                                   *)
Create ==
  /\ flow.at \in {"mcp", "http"}
  /\ kind' = flow.at
  /\ flow' = [flow EXCEPT !.at = "save"]
  /\ UNCHANGED <<disk, mirror, grantOf, stamps, seed, podCreds, answer, unsaved, doubtful>>

(* ... or again for one that has an oauth.json.                            *)
Reauth ==
  /\ flow = NoFlow /\ kind # "none" /\ disk # NoCopy
  /\ Mint(NextToken)
  /\ flow' = [at |-> "save", tok |-> NextToken]
  /\ UNCHANGED <<kind, disk, mirror, stamps, seed, podCreds, answer, unsaved, doubtful>>

(* The file is written if its directory is there.                          *)
SaveOAuth ==
  /\ flow.at = "save" /\ kind # "none" /\ stamps < MaxStamp
  /\ disk' = [tok |-> flow.tok, at |-> stamps + 1]
  /\ stamps' = stamps + 1
  /\ flow' = NoFlow
  /\ UNCHANGED <<kind, mirror, grantOf, seed, podCreds, answer, unsaved, doubtful>>

(* The command fails or is killed.                                         *)
FlowFails ==
  /\ flow # NoFlow
  /\ flow' = NoFlow
  /\ UNCHANGED <<kind, disk, mirror, grantOf, stamps, seed, podCreds, answer, unsaved, doubtful>>

(* The connection's directory goes, and the mirror is not told.            *)
RemoveConnection ==
  /\ kind # "none"
  /\ kind' = "none" /\ disk' = NoCopy
  /\ UNCHANGED <<mirror, grantOf, stamps, flow, seed, podCreds, answer, unsaved, doubtful>>

-----------------------------------------------------------------------------
(* up.                                                                     *)

(* What the broker has, or is about to have, and the mirror has not.       *)
Unmirrored == {grantOf[t] : t \in Minted \intersect UNION {{answer[q], unsaved[q]} : q \in CnPods}}

(* The mirror is drained, or cannot be: then the host's copy is all there  *)
(* is, whatever the broker has rotated.                                    *)
Drain(p) ==
  /\ seed[p] = NoSeed /\ holds[p] = NoToken
  /\ \E m \in {mirror, NoCopy} :
       /\ seed' = [seed EXCEPT ![p] = [@ EXCEPT !.at = "drained", !.mir = m]]
       /\ doubtful' = doubtful \union Unmirrored \union
            (IF m = mirror THEN {} ELSE {grantOf[t] : t \in Minted})
  /\ UNCHANGED <<kind, disk, mirror, grantOf, stamps, flow, podCreds, answer, unsaved>>

(* Mutant: what is on the host is good enough.                             *)
ReconcileKeeping(d, m) ==
  IF m = NoCopy \/ d # NoCopy THEN [use |-> d, adopt |-> FALSE] ELSE [use |-> m, adopt |-> TRUE]

(* The mirror wins if it is strictly newer.                                *)
ReconcileOAuth(d, m) ==
  IF m # NoCopy /\ (d = NoCopy \/ m.at > d.at)
  THEN [use |-> m, adopt |-> TRUE]
  ELSE [use |-> d, adopt |-> FALSE]

(* A connection that is not there fails the up.                            *)
LoadConnectorOAuth(p) ==
  /\ seed[p].at = "drained"
  /\ LET r == ReconcileOAuth(disk, seed[p].mir)
     IN seed' = [seed EXCEPT ![p] =
          IF kind = "none" THEN NoSeed
          ELSE [@ EXCEPT !.at = "loaded", !.use = r.use, !.adopt = r.adopt,
                         !.key = kind = "mcp"]]
  /\ UNCHANGED <<kind, disk, mirror, grantOf, stamps, flow, podCreds, answer, unsaved, doubtful>>

(* The host's copy catches up, unless that write fails or its directory is *)
(* gone, and the pod's handle is issued.  Only an mcp connection's has a   *)
(* write-back key.  A static token has to be there.                        *)
Seed(p) ==
  LET use == seed[p].use
  IN /\ seed[p].at = "loaded" /\ (use # NoCopy \/ kind # "none")
     /\ disk' \in IF seed[p].adopt /\ kind # "none" THEN {use, disk} ELSE {disk}
     /\ holds' = [holds EXCEPT ![p] = IF use = NoCopy THEN Static ELSE use.tok]
     /\ keyed' = IF seed[p].key THEN keyed \union {p} ELSE keyed \ {p}
     /\ seed' = [seed EXCEPT ![p] = NoSeed]
     /\ UNCHANGED <<kind, mirror, grantOf, stamps, flow, answer, unsaved, doubtful>>

SeedFails(p) ==
  /\ seed[p] # NoSeed
  /\ seed' = [seed EXCEPT ![p] = NoSeed]
  /\ UNCHANGED <<kind, disk, mirror, grantOf, stamps, flow, podCreds, answer, unsaved, doubtful>>

-----------------------------------------------------------------------------
(* The broker.                                                             *)

(* Somebody else may be about to use, or to write, a copy of the grant.    *)
Shared(p) ==
  \E q \in CnPods \ {p} :
    \/ seed[q] # NoSeed
    \/ \E t \in {holds[q], unsaved[q]} : t \in Minted /\ grantOf[t] = grantOf[holds[p]]

(* A refresh that the provider takes.  Only a credential with a write-back *)
(* key will have its rotation mirrored.                                    *)
Rotate(p) ==
  /\ holds[p] \in Tokens /\ ~Consumed(holds[p])
  /\ answer[p] = NoToken /\ unsaved[p] = NoToken
  /\ Mint(grantOf[holds[p]])
  /\ answer' = [answer EXCEPT ![p] = NextToken]
  /\ doubtful' = IF Shared(p) \/ p \notin keyed
                  THEN doubtful \union {grantOf[holds[p]]} ELSE doubtful
  /\ UNCHANGED <<kind, disk, mirror, stamps, flow, seed, podCreds, unsaved>>

(* The answer arrives and the vault has it.                                *)
ReplaceCred(p) ==
  /\ answer[p] # NoToken
  /\ holds' = [holds EXCEPT ![p] = answer[p]]
  /\ unsaved' = [unsaved EXCEPT ![p] = IF p \in keyed THEN answer[p] ELSE NoToken]
  /\ answer' = [answer EXCEPT ![p] = NoToken]
  /\ UNCHANGED <<kind, disk, mirror, grantOf, stamps, flow, seed, keyed, doubtful>>

(* The answer is lost: the vault keeps a token that is consumed.           *)
AnswerLost(p) ==
  /\ answer[p] # NoToken
  /\ answer' = [answer EXCEPT ![p] = NoToken]
  /\ doubtful' = doubtful \union {grantOf[answer[p]]}
  /\ UNCHANGED <<kind, disk, mirror, grantOf, stamps, flow, seed, podCreds, unsaved>>

PersistRotation(p) ==
  /\ unsaved[p] # NoToken /\ stamps < MaxStamp
  /\ mirror' = [tok |-> unsaved[p], at |-> stamps + 1]
  /\ stamps' = stamps + 1
  /\ unsaved' = [unsaved EXCEPT ![p] = NoToken]
  /\ UNCHANGED <<kind, disk, grantOf, flow, seed, podCreds, answer, doubtful>>

(* The write fails and is only logged: it is atomic, so the mirror is what *)
(* it was.                                                                 *)
PersistFails(p) ==
  /\ unsaved[p] # NoToken
  /\ unsaved' = [unsaved EXCEPT ![p] = NoToken]
  /\ doubtful' = doubtful \union {grantOf[unsaved[p]]}
  /\ UNCHANGED <<kind, disk, mirror, grantOf, stamps, flow, seed, podCreds, answer>>

(* The handle is revoked or expires.  A mirror write that is under way     *)
(* goes on; an answer still to come will find no handle and is dropped,    *)
(* stored nowhere.                                                         *)
PodDown(p) ==
  /\ holds[p] # NoToken
  /\ holds' = [holds EXCEPT ![p] = NoToken] /\ keyed' = keyed \ {p}
  /\ answer' = [answer EXCEPT ![p] = NoToken]
  /\ doubtful' = doubtful \union {grantOf[t] : t \in Minted \intersect {answer[p]}}
  /\ UNCHANGED <<kind, disk, mirror, grantOf, stamps, flow, seed, unsaved>>

(* The vault is in memory, the mirror is not.                              *)
BrokerRestarts ==
  /\ \E p \in CnPods : holds[p] # NoToken
  /\ holds' = [p \in CnPods |-> NoToken] /\ keyed' = {}
  /\ answer' = [p \in CnPods |-> NoToken]
  /\ unsaved' = [p \in CnPods |-> NoToken]
  /\ doubtful' = doubtful \union Unmirrored
  /\ UNCHANGED <<kind, disk, mirror, grantOf, stamps, flow, seed>>

Connect ==
  \/ AddStatic \/ Create \/ Reauth \/ SaveOAuth \/ FlowFails \/ RemoveConnection
  \/ \E k \in {"mcp", "http"} : AddViaOAuth(k)

ConnNext ==
  \/ Connect
  \/ BrokerRestarts
  \/ \E p \in CnPods :
       \/ Drain(p) \/ LoadConnectorOAuth(p) \/ Seed(p) \/ SeedFails(p)
       \/ Rotate(p) \/ ReplaceCred(p) \/ AnswerLost(p)
       \/ PersistRotation(p) \/ PersistFails(p) \/ PodDown(p)

ConnSpec == ConnInit /\ [][ConnNext]_connVars

-----------------------------------------------------------------------------
ConnTypeOK ==
  /\ kind \in {"none", "static", "mcp", "http"}
  /\ disk \in Copies /\ mirror \in Copies
  /\ grantOf \in [Tokens -> 0..MaxMint]
  /\ \A t \in Tokens : grantOf[t] <= t /\ (t < NextToken <=> grantOf[t] # 0)
  /\ stamps \in 0..MaxStamp
  /\ flow \in [at : {"idle", "mcp", "http", "save"}, tok : Tokens \union {NoToken}]
  /\ seed \in [CnPods -> [at : {"idle", "drained", "loaded"}, mir : Copies, use : Copies,
                          adopt : BOOLEAN, key : BOOLEAN]]
  /\ holds \in [CnPods -> Tokens \union {NoToken, Static}]
  /\ keyed \subseteq CnPods
  /\ answer \in [CnPods -> Tokens \union {NoToken}]
  /\ unsaved \in [CnPods -> Tokens \union {NoToken}]
  /\ doubtful \subseteq Tokens

(* A pod is seeded with the newest refresh token of its grant and keeps    *)
(* it: over pods that come and go, restarts, reauths and copies that fail  *)
(* to be written back, no pod is left with a consumed token once no answer *)
(* is under way to it, unless pods shared the grant, an answer was lost or *)
(* came after its handle was revoked, a rotation went unmirrored or the    *)
(* mirror unread.                                                          *)
SeedIsCurrent ==
  \A p \in CnPods :
    holds[p] \in Minted /\ answer[p] = NoToken /\ grantOf[holds[p]] \notin doubtful =>
      ~Consumed(holds[p])
=============================================================================
