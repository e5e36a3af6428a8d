-------------------------- MODULE KeeperOAuthProofs --------------------------
(***************************************************************************)
(* Theorems about the keeper, for any number of requests, credentials and  *)
(* connections and any bound on the tokens minted.                         *)
(***************************************************************************)
EXTENDS KeeperOAuth, TLAPS

(* A request is past the token request's start exactly while it holds its  *)
(* credential's lock.                                                      *)
LockInv ==
  /\ \A r \in Requests : pc[r] \in Locked => lock[on[r]] = r
  /\ \A c \in Creds : lock[c] # Nil => on[lock[c]] = c /\ pc[lock[c]] \in Locked

(* Serial numbers only grow along the path provider, answer, vault, what a *)
(* request read, what it injected; and equal serials are the same token.   *)
Older(m, n) == m.at <= n.at /\ m.rt <= n.rt /\ (m.at = n.at => m = n)

(* m is a token the connection k was issued.                               *)
Issued(m, k) == m.at <= provider[k].minted /\ m.rt <= provider[k].rt

StoredOrder ==
  /\ \A c \in Creds : vault[c] # Nil => Issued(vault[c], ConnOf[c])
  /\ \A k \in Conns : Issued(disk[k], k)

RequestOrder(r) ==
  /\ pc[r] \in {"idle", "read"} => r \notin retried
  /\ pc[r] \in {"read", "wait", "refresh", "answered"} => Older(seen[r], vault[on[r]])
  /\ pc[r] = "sent" => Older(used[r], vault[on[r]])
  /\ pc[r] \in {"wait", "refresh"} /\ r \in retried => Older(used[r], seen[r])
  /\ pc[r] \in {"answered", "persist"} => Issued(answer[r], Conn(r))
  /\ pc[r] = "answered" => /\ vault[on[r]].at < answer[r].at
                           /\ vault[on[r]].rt <= answer[r].rt
  /\ pc[r] = "persist" => vault[on[r]] = answer[r]

OrderInv == StoredOrder /\ \A r \in Requests : RequestOrder(r)

IInv == TypeOK /\ LockInv /\ OrderInv /\ RefreshSpendsLiveCredential

(* The refresh token a credential will hold once the refresh under way, if *)
(* any, has been stored.                                                   *)
CurrentRt(c) ==
  IF lock[c] # Nil /\ pc[lock[c]] = "answered" THEN answer[lock[c]].rt ELSE vault[c].rt

GrantInv ==
  /\ \A k \in Conns : (\A c \in Creds : ConnOf[c] = k => vault[c] = Nil) =>
                         provider[k].alive /\ disk[k].rt = provider[k].rt
  /\ \A c \in Creds : ConnOf[c] \in WriteBack /\ vault[c] # Nil /\ handle[c] # "gone" /\ Sole(c) =>
       \/ ConnOf[c] \in needsReauth
       \/ provider[ConnOf[c]].alive /\ CurrentRt(c) = provider[ConnOf[c]].rt

MirrorInv ==
  \A c \in Creds :
    /\ ConnOf[c] \in WriteBack /\ vault[c] # Nil /\ Sole(c)
    /\ lock[c] # Nil => pc[lock[c]] # "persist"
    => disk[ConnOf[c]].rt = vault[c].rt \/ ConnOf[c] \in unsaved

-----------------------------------------------------------------------------
(* The shapes the helpers of the requests keep.                            *)

USE DEF Material, Grant

(* The initial state has the shape every state has.                        *)
LEMMA InitType == Init => TypeOK
<1> SUFFICES ASSUME Init PROVE TypeOK
  OBVIOUS
<1> USE ConstantsAssumption DEF Init
<1>1. KeeperShape
  BY DEF KeeperShape
<1>2. TokenShape
  BY DEF TokenShape
<1>3. RequestShape
  BY DEF RequestShape
<1>4. HandlesBacked /\ \A r \in Requests : LocalsSet(r)
  BY DEF LocalsSet, HandlesBacked
<1> QED
  BY <1>1, <1>2, <1>3, <1>4 DEF TypeOK

(* Resolve takes no handle back to the unissued state.                     *)
LEMMA DropShape ==
  ASSUME KeeperShape, NEW c \in Creds, handle' = DropExpired(c)
  PROVE  /\ handle' \in [Creds -> {"none", "live", "expired", "gone"}]
         /\ \A d \in Creds : handle'[d] # "none" <=> handle[d] # "none"
BY DEF KeeperShape, DropExpired

(* A step that changes the locals of one request and takes no handle back  *)
(* to the unissued state leaves every request's locals set.                *)
OthersKeepLocals(r) ==
  \A q \in Requests \ {r} :
    /\ pc'[q] = pc[q] /\ on'[q] = on[q] /\ seen'[q] = seen[q]
    /\ used'[q] = used[q] /\ answer'[q] = answer[q]
    /\ q \in retried' <=> q \in retried

HandlesStayIssued == \A c \in Creds : handle[c] # "none" <=> handle'[c] # "none"

LEMMA LocalsFrame ==
  ASSUME RequestShape, \A q \in Requests : LocalsSet(q), NEW r \in Requests,
         OthersKeepLocals(r), HandlesStayIssued, LocalsSet(r)'
  PROVE  \A q \in Requests : LocalsSet(q)'
<1> SUFFICES ASSUME NEW q \in Requests, q # r PROVE LocalsSet(q)'
  OBVIOUS
<1>1. on[q] \in Creds \union {Nil}
  BY DEF RequestShape
<1> QED
  BY <1>1 DEF LocalsSet, OthersKeepLocals, HandlesStayIssued

(* The control API and the passage of time touch no request's locals.      *)
LEMMA EnvironmentType ==
  ASSUME TypeOK, (\E c \in Creds : Control(c)) \/ Time
  PROVE  TypeOK'
<1> USE ConstantsAssumption DEF TypeOK, keeperVars, tokenVars, requestVars
<1>1. ASSUME NEW c \in Creds, Control(c) PROVE TypeOK'
  <2> USE <1>1 DEF Control, Store, IssueHandle, Revoke
  <2>1. KeeperShape'
    BY SMTT(20) DEF KeeperShape
  <2>2. TokenShape' /\ RequestShape'
    BY DEF TokenShape, RequestShape
  <2>3. HandlesBacked' /\ \A r \in Requests : LocalsSet(r)'
    BY DEF LocalsSet, HandlesBacked, KeeperShape, RequestShape
  <2> QED
    BY <2>1, <2>2, <2>3
<1>2. ASSUME NEW c \in Creds, HandleExpires(c) \/ ForcedWindowEnds(c) PROVE TypeOK'
  <2> USE <1>2 DEF HandleExpires, ForcedWindowEnds
  <2>1. KeeperShape'
    BY DEF KeeperShape
  <2>2. TokenShape' /\ RequestShape'
    BY DEF TokenShape, RequestShape
  <2>3. HandlesBacked' /\ \A r \in Requests : LocalsSet(r)'
    BY DEF LocalsSet, HandlesBacked, KeeperShape, RequestShape
  <2> QED
    BY <2>1, <2>2, <2>3
<1>3. ASSUME NEW t \in fresh, TokenAges(t) PROVE TypeOK'
  BY <1>3 DEF TokenAges, KeeperShape, HandlesBacked, TokenShape, RequestShape, LocalsSet
<1> QED
  BY <1>1, <1>2, <1>3 DEF Time

(* A request that is being served: it has a credential with an issued      *)
(* handle, and the vault holds what the handle points to.                  *)
LEMMA Served ==
  ASSUME TypeOK, NEW r \in Requests, pc[r] \notin {"idle", "finished"}
  PROVE  /\ on[r] \in Creds /\ handle[on[r]] # "none" /\ vault[on[r]] \in Material
         /\ LocalsSet(r)
BY DEF TypeOK, LocalsSet, RequestShape, KeeperShape, HandlesBacked

(* Where a request stands once it is sent on, ended, or moved to pc p with *)
(* its other locals as they were.                                          *)
Advance(r, p) ==
  /\ pc' = [pc EXCEPT ![r] = p]
  /\ UNCHANGED <<seen, used, answer, retried>>

LEMMA MoveOn ==
  ASSUME TypeOK, NEW r \in Requests, pc[r] \notin {"idle", "finished"},
         UNCHANGED on, HandlesStayIssued,
         \/ Finish(r)
         \/ \E m \in Material : Inject(r, m)
         \/ Advance(r, "wait") /\ pc[r] = "read"
         \/ Advance(r, "refresh") /\ pc[r] = "wait"
         \/ Advance(r, "persist") /\ pc[r] = "answered"
  PROVE  RequestShape' /\ \A q \in Requests : LocalsSet(q)'
<1>0. on[r] \in Creds /\ handle[on[r]] # "none" /\ LocalsSet(r)
  BY Served
<1>1. CASE Finish(r)
  <2>1. RequestShape' /\ OthersKeepLocals(r)
    BY <1>1 DEF TypeOK, RequestShape, Finish, OthersKeepLocals
  <2>2. LocalsSet(r)'
    BY <1>1 DEF TypeOK, RequestShape, Finish, LocalsSet
  <2> QED
    BY <2>1, <2>2, LocalsFrame DEF TypeOK
<1>2. ASSUME NEW m \in Material, Inject(r, m)
      PROVE  RequestShape' /\ \A q \in Requests : LocalsSet(q)'
  <2>1. RequestShape' /\ OthersKeepLocals(r)
    BY <1>2 DEF TypeOK, RequestShape, Inject, OthersKeepLocals
  <2>2. LocalsSet(r)'
    BY <1>2, <1>0, ConstantsAssumption
       DEF TypeOK, RequestShape, Inject, LocalsSet, HandlesStayIssued
  <2> QED
    BY <2>1, <2>2, LocalsFrame DEF TypeOK
<1>3. ASSUME NEW p \in {"wait", "refresh", "persist"}, Advance(r, p),
             p = "wait" => pc[r] = "read", p = "refresh" => pc[r] = "wait",
             p = "persist" => pc[r] = "answered"
      PROVE  RequestShape' /\ \A q \in Requests : LocalsSet(q)'
  <2>1. RequestShape' /\ OthersKeepLocals(r)
    BY <1>3 DEF TypeOK, RequestShape, Advance, OthersKeepLocals
  <2>2. LocalsSet(r)'
    BY <1>3, <1>0 DEF TypeOK, RequestShape, Advance, LocalsSet, HandlesStayIssued
  <2> QED
    BY <2>1, <2>2, LocalsFrame DEF TypeOK
<1> QED
  BY <1>1, <1>2, <1>3

(* The keeper's own state keeps its shape when the vault only ever takes   *)
(* material in and handles are only resolved.                              *)
LEMMA KeeperFrame ==
  ASSUME TypeOK, HandlesStayIssued,
         vault' = vault \/ \E c \in Creds, m \in Material : vault' = [vault EXCEPT ![c] = m],
         handle' = handle \/ \E c \in Creds : handle' = DropExpired(c),
         lock' = lock \/ \E c \in Creds, r \in Requests \union {Nil} : lock' = [lock EXCEPT ![c] = r],
         forced' \subseteq Creds, needsReauth' \subseteq Conns, unsaved' \subseteq Conns,
         disk' = disk \/ \E k \in Conns, m \in Material : disk' = [disk EXCEPT ![k] = m]
  PROVE  KeeperShape' /\ HandlesBacked'
<1>1. vault' \in [Creds -> Material \union {Nil}] /\ \A c \in Creds : vault[c] # Nil => vault'[c] # Nil
  BY ConstantsAssumption DEF TypeOK, KeeperShape
<1>2. handle' \in [Creds -> {"none", "live", "expired", "gone"}]
  BY DropShape DEF TypeOK, KeeperShape
<1>3. lock' \in [Creds -> Requests \union {Nil}]
  BY DEF TypeOK, KeeperShape
<1>4. disk' \in [Conns -> Material]
  BY DEF TypeOK, KeeperShape
<1> QED
  BY <1>1, <1>2, <1>3, <1>4 DEF TypeOK, KeeperShape, HandlesBacked, HandlesStayIssued

LEMMA MintShape ==
  ASSUME TokenShape, NEW k \in Conns, NEW life, NEW rotation \in Rotations, Mint(k, life, rotation)
  PROVE  TokenShape' /\ provider'[k].minted \in Nat /\ provider'[k].rt \in Nat
<1>0. rotation \in Nat
  BY ConstantsAssumption
<1>1. provider[k].minted + 1 \in Nat /\ provider[k].rt + rotation \in Nat
  BY <1>0 DEF TokenShape
<1>2. provider' \in [Conns -> Grant] /\ provider'[k].minted \in Nat /\ provider'[k].rt \in Nat
  BY <1>1 DEF Mint, TokenShape
<1>3. fresh' \subseteq Conns \X Nat /\ noExpiry' \subseteq Conns \X Nat
  BY <1>1 DEF Mint, TokenShape
<1> QED
  BY <1>2, <1>3 DEF TokenShape

(* What the keeper does for one request keeps every part of the shape.     *)
LEMMA KeeperType ==
  ASSUME TypeOK, NEW r \in Requests, KeeperStep(r)
  PROVE  TypeOK'
<1> DEFINE c == on[r]
           k == Conn(r)
<1>0. /\ pc[r] \notin {"idle", "finished"} /\ c \in Creds /\ k \in Conns
      /\ handle[c] # "none" /\ vault[c] \in Material /\ LocalsSet(r)
  <2>1. pc[r] \notin {"idle", "finished"}
    BY DEF KeeperStep, OwnStep, TokenRequestEnds, CheckStale, LockStale, LockForced,
           RefreshSucceeds, RefreshRefused, RefreshUnavailable, RefreshAnswerLost, ReplaceCred,
           PersistRotation
  <2> QED
    BY <2>1, Served, ConstantsAssumption DEF Conn
<1> HIDE DEF c, k
<1>1. CASE CheckStale(r)
  <2>1. KeeperShape' /\ HandlesBacked' /\ TokenShape' /\ HandlesStayIssued
    BY <1>1 DEF CheckStale, TypeOK, KeeperShape, HandlesBacked, TokenShape, HandlesStayIssued,
                keeperVars, tokenVars
  <2>2. seen[r] \in Material /\ UNCHANGED on
    BY <1>0, <1>1 DEF CheckStale, LocalsSet, TypeOK, RequestShape
  <2>3. Inject(r, seen[r]) \/ (Advance(r, "wait") /\ pc[r] = "read")
    BY <1>1 DEF CheckStale, Advance
  <2> QED
    BY <1>0, <2>1, <2>2, <2>3, MoveOn DEF TypeOK
<1>2. CASE LockStale(r) \/ LockForced(r)
  <2> USE <1>2 DEF LockStale, LockForced
  <2>1. HandlesStayIssued
    BY <1>0, DropShape DEF c, TypeOK, HandlesStayIssued
  <2>2. KeeperShape' /\ HandlesBacked'
    <3>1. lock' = lock \/ lock' = [lock EXCEPT ![c] = r]
      BY DEF c
    <3>2. forced' \subseteq Creds /\ needsReauth' \subseteq Conns /\ unsaved' \subseteq Conns
      BY <1>0 DEF c, TypeOK, KeeperShape
    <3>3. vault' = vault /\ disk' = disk /\ handle' = DropExpired(c)
      BY DEF c
    <3> QED
      BY <1>0, <2>1, <3>1, <3>2, <3>3, KeeperFrame
  <2>3. TokenShape' /\ UNCHANGED on
    BY DEF TypeOK, TokenShape, tokenVars
  <2>4. Inject(r, vault[c]) \/ (Advance(r, "refresh") /\ pc[r] = "wait")
    BY DEF c, Advance
  <2> QED
    BY <1>0, <2>1, <2>2, <2>3, <2>4, MoveOn DEF TypeOK
<1>3. CASE RefreshSucceeds(r)
  <2>1. KeeperShape' /\ HandlesBacked' /\ HandlesStayIssued
    BY <1>3 DEF RefreshSucceeds, TypeOK, KeeperShape, HandlesBacked, HandlesStayIssued, keeperVars
  <2>2. TokenShape' /\ [at |-> provider'[k].minted, rt |-> provider'[k].rt] \in Material
    BY <1>0, <1>3, MintShape DEF k, RefreshSucceeds, TypeOK
  <2>3. RequestShape' /\ OthersKeepLocals(r) /\ LocalsSet(r)'
    BY <1>0, <1>3, <2>1, <2>2, ConstantsAssumption
       DEF c, k, RefreshSucceeds, TypeOK, RequestShape, OthersKeepLocals, LocalsSet,
           HandlesStayIssued
  <2> QED
    BY <2>1, <2>2, <2>3, LocalsFrame DEF TypeOK
<1>4. CASE RefreshRefused(r) \/ RefreshUnavailable(r) \/ RefreshAnswerLost(r)
  <2>1. FlagAndFail(r)
    BY <1>4 DEF RefreshRefused, RefreshUnavailable, RefreshAnswerLost
  <2>2. HandlesStayIssued /\ UNCHANGED on
    BY <2>1 DEF FlagAndFail, Flagged, HandlesStayIssued
  <2>3. KeeperShape' /\ HandlesBacked'
    <3>1. needsReauth' \subseteq Conns /\ lock' = [lock EXCEPT ![c] = Nil]
      BY <1>0, <2>1 DEF c, k, FlagAndFail, Flagged, Unlock, TypeOK, KeeperShape
    <3> QED
      BY <1>0, <2>1, <2>2, <3>1, KeeperFrame DEF FlagAndFail, Flagged, TypeOK, KeeperShape
  <2>4. TokenShape'
    <3>1. CASE RefreshRefused(r)
      BY <1>0, <3>1 DEF k, RefreshRefused, TypeOK, TokenShape
    <3>2. CASE RefreshUnavailable(r)
      BY <3>2 DEF RefreshUnavailable, TypeOK, TokenShape, tokenVars
    <3>3. CASE RefreshAnswerLost(r)
      BY <1>0, <3>3, MintShape DEF k, RefreshAnswerLost, TypeOK
    <3> QED
      BY <1>4, <3>1, <3>2, <3>3
  <2> QED
    BY <1>0, <2>1, <2>2, <2>3, <2>4, MoveOn DEF TypeOK, FlagAndFail, Flagged
<1>5. CASE ReplaceCred(r) \/ PersistRotation(r)
  <2> USE <1>5 DEF ReplaceCred, PersistRotation
  <2>0. answer[r] \in Material /\ HandlesStayIssued /\ UNCHANGED on
    BY <1>0 DEF LocalsSet, TypeOK, RequestShape, HandlesStayIssued
  <2>1. KeeperShape' /\ HandlesBacked'
    <3>1. lock' = lock \/ lock' = [lock EXCEPT ![c] = Nil]
      BY DEF c, Unlock
    <3>2. vault' = vault \/ vault' = [vault EXCEPT ![c] = answer[r]]
      BY DEF c
    <3>3. disk' = disk \/ disk' = [disk EXCEPT ![k] = answer[r]]
      BY DEF k
    <3>4. forced' \subseteq Creds /\ needsReauth' \subseteq Conns /\ unsaved' \subseteq Conns
      BY <1>0 DEF k, TypeOK, KeeperShape
    <3> QED
      BY <1>0, <2>0, <3>1, <3>2, <3>3, <3>4, KeeperFrame
  <2>2. TokenShape'
    BY DEF TypeOK, TokenShape, tokenVars
  <2>3. \/ Finish(r) \/ Inject(r, answer[r])
        \/ Advance(r, "persist") /\ pc[r] = "answered"
    BY DEF Advance
  <2> QED
    BY <1>0, <2>0, <2>1, <2>2, <2>3, MoveOn DEF TypeOK
<1> QED
  BY <1>1, <1>2, <1>3, <1>4, <1>5 DEF KeeperStep, OwnStep, TokenRequestEnds

(* So does a request that starts, and an upstream's answer.                *)
LEMMA UpstreamType ==
  ASSUME TypeOK, NEW r \in Requests, Upstream(r) \/ \E c \in Creds : InjectAuth(r, c)
  PROVE  TypeOK'
<1>1. ASSUME NEW c \in Creds, InjectAuth(r, c) PROVE TypeOK'
  <2>1. handle' = DropExpired(c) /\ HandlesStayIssued /\ handle[c] # "none" /\ vault[c] \in Material
    BY <1>1, DropShape DEF InjectAuth, HandlesStayIssued, TypeOK, KeeperShape, HandlesBacked
  <2>2. KeeperShape' /\ HandlesBacked'
    BY <1>1, <2>1, KeeperFrame DEF InjectAuth, TypeOK, KeeperShape
  <2>3. TokenShape'
    BY <1>1 DEF InjectAuth, TypeOK, TokenShape, tokenVars
  <2>4. RequestShape' /\ OthersKeepLocals(r)
    BY <1>1, <2>1 DEF InjectAuth, TypeOK, RequestShape, Finish, OthersKeepLocals
  <2>5. LocalsSet(r)'
    BY <1>1, <2>1, ConstantsAssumption
       DEF InjectAuth, TypeOK, RequestShape, Finish, LocalsSet, HandlesStayIssued
  <2> QED
    BY <2>1, <2>2, <2>3, <2>4, <2>5, LocalsFrame DEF TypeOK
<1>2. CASE UpstreamAnswers(r)
  <2>1. KeeperShape' /\ HandlesBacked' /\ TokenShape' /\ HandlesStayIssued /\ UNCHANGED on
    BY <1>2 DEF UpstreamAnswers, TypeOK, KeeperShape, HandlesBacked, TokenShape, HandlesStayIssued,
                keeperVars, tokenVars
  <2> QED
    BY <1>2, <2>1, MoveOn DEF UpstreamAnswers, TypeOK
<1>3. CASE UpstreamRejects(r) \/ UpstreamRejectsRetry(r)
  <2> USE <1>3 DEF UpstreamRejects, UpstreamRejectsRetry, Flagged
  <2>0. on[r] \in Creds /\ pc[r] = "sent" /\ LocalsSet(r) /\ vault[on[r]] \in Material
        /\ handle[on[r]] # "none"
    BY Served
  <2>1. handle' = DropExpired(on[r]) /\ HandlesStayIssued /\ UNCHANGED on
    BY <2>0, DropShape DEF HandlesStayIssued, TypeOK
  <2>2. KeeperShape' /\ HandlesBacked'
    <3>1. needsReauth' \subseteq Conns
      BY <2>0, ConstantsAssumption DEF TypeOK, KeeperShape
    <3> QED
      BY <2>0, <2>1, <3>1, KeeperFrame DEF TypeOK, KeeperShape
  <2>3. TokenShape'
    BY DEF TypeOK, TokenShape, tokenVars
  <2>4. RequestShape' /\ \A q \in Requests : LocalsSet(q)'
    <3>1. CASE Finish(r)
      BY <2>0, <2>1, <3>1, MoveOn
    <3>2. CASE ~Finish(r)
      <4>1. /\ seen' = [seen EXCEPT ![r] = vault[on[r]]] /\ pc' = [pc EXCEPT ![r] = "wait"]
            /\ retried' = retried \union {r} /\ UNCHANGED <<used, answer>>
        BY <3>2
      <4>2. RequestShape' /\ OthersKeepLocals(r)
        BY <2>0, <2>1, <4>1 DEF TypeOK, RequestShape, OthersKeepLocals
      <4>3. LocalsSet(r)'
        BY <2>0, <2>1, <4>1, ConstantsAssumption
           DEF TypeOK, RequestShape, LocalsSet, HandlesStayIssued
      <4> QED
        BY <2>1, <4>2, <4>3, LocalsFrame DEF TypeOK
    <3> QED
      BY <3>1, <3>2
  <2> QED
    BY <2>2, <2>3, <2>4 DEF TypeOK
<1> QED
  BY <1>1, <1>2, <1>3 DEF Upstream

(* Every reachable state of the keeper is well formed.                     *)
THEOREM TypeCorrect == Spec => []TypeOK
<1>1. Init => TypeOK
  BY InitType
<1>2. TypeOK /\ [Next]_vars => TypeOK'
  <2>1. TypeOK /\ UNCHANGED vars => TypeOK'
    BY DEF vars, keeperVars, tokenVars, requestVars, TypeOK, KeeperShape, HandlesBacked,
           TokenShape, RequestShape, LocalsSet
  <2> QED
    BY <2>1, EnvironmentType, KeeperType, UpstreamType DEF Next
<1> QED
  BY <1>1, <1>2, PTL DEF Spec

-----------------------------------------------------------------------------
(* The lock.                                                               *)

(* A request's own step changes no other request's locals.                 *)
LEMMA OneMoves ==
  ASSUME RequestShape, NEW r \in Requests,
         KeeperStep(r) \/ Upstream(r) \/ \E c \in Creds : InjectAuth(r, c)
  PROVE  OthersKeepLocals(r) /\ (pc[r] # "idle" => UNCHANGED on)
<1> USE DEF RequestShape, OthersKeepLocals, Finish, Inject
<1>1. CASE KeeperStep(r)
  BY <1>1 DEF KeeperStep, OwnStep, TokenRequestEnds, CheckStale, LockStale, LockForced,
              RefreshSucceeds, RefreshRefused, RefreshUnavailable, RefreshAnswerLost, FlagAndFail,
              Flagged, ReplaceCred, PersistRotation
<1>2. CASE Upstream(r)
  BY <1>2 DEF Upstream, UpstreamAnswers, UpstreamRejects, UpstreamRejectsRetry, Flagged
<1>3. CASE \E c \in Creds : InjectAuth(r, c)
  BY <1>3 DEF InjectAuth
<1> QED
  BY <1>1, <1>2, <1>3

(* The four ways a step of r can move through the lock.                    *)
Outside(r) == pc[r] \notin Locked /\ pc'[r] \notin Locked /\ lock' = lock
Acquires(r) == /\ pc[r] = "wait" /\ pc'[r] = "refresh" /\ lock[on[r]] = Nil
               /\ lock' = [lock EXCEPT ![on[r]] = r]
Inside(r) == pc[r] \in Locked /\ pc'[r] \in Locked /\ lock' = lock
Releases(r) == /\ pc[r] \in Locked /\ pc'[r] \notin Locked
               /\ lock' = [lock EXCEPT ![on[r]] = Nil]

LEMMA LockMoves ==
  ASSUME TypeOK, NEW r \in Requests,
         KeeperStep(r) \/ Upstream(r) \/ \E c \in Creds : InjectAuth(r, c)
  PROVE  Outside(r) \/ Acquires(r) \/ Inside(r) \/ Releases(r)
<1> USE DEF TypeOK, RequestShape, Locked, Outside, Acquires, Inside, Releases, Finish, Inject,
            Unlock, keeperVars
<1>1. CASE CheckStale(r) \/ LockStale(r) \/ LockForced(r)
  BY <1>1 DEF CheckStale, LockStale, LockForced
<1>2. CASE \/ RefreshSucceeds(r) \/ RefreshRefused(r) \/ RefreshUnavailable(r)
           \/ RefreshAnswerLost(r) \/ ReplaceCred(r) \/ PersistRotation(r)
  BY <1>2 DEF RefreshSucceeds, RefreshRefused, RefreshUnavailable, RefreshAnswerLost,
              FlagAndFail, Flagged, ReplaceCred, PersistRotation
<1>3. CASE Upstream(r) \/ \E c \in Creds : InjectAuth(r, c)
  BY <1>3 DEF Upstream, UpstreamAnswers, UpstreamRejects, UpstreamRejectsRetry, Flagged, InjectAuth
<1> QED
  BY <1>1, <1>2, <1>3 DEF KeeperStep, OwnStep, TokenRequestEnds

(* The lock has one holder, the request that is refreshing under it.       *)
LEMMA LockKept ==
  ASSUME TypeOK, LockInv, Next
  PROVE  LockInv'
<1>1. ASSUME NEW r \in Requests,
             KeeperStep(r) \/ Upstream(r) \/ \E c \in Creds : InjectAuth(r, c)
      PROVE  LockInv'
  <2>1. OthersKeepLocals(r) /\ (pc[r] # "idle" => UNCHANGED on)
    BY <1>1, OneMoves DEF TypeOK
  <2>2. lock \in [Creds -> Requests \union {Nil}] /\ Nil \notin Requests
        /\ on \in [Requests -> Creds \union {Nil}]
    BY ConstantsAssumption DEF TypeOK, KeeperShape, RequestShape
  <2>3. pc[r] # "idle" /\ pc[r] # "finished" => on[r] \in Creds /\ on'[r] = on[r]
    BY <2>1, Served
  <2>4. \A q \in Requests \ {r} : pc[q] \in Locked => on[q] \in Creds
    BY Served DEF Locked
  <2> USE <2>1, <2>2, <2>3, <2>4 DEF LockInv, OthersKeepLocals
  <2>5. CASE Outside(r)
    BY <2>5 DEF Outside
  <2>6. CASE Acquires(r)
    BY <2>6 DEF Acquires, Locked
  <2>7. CASE Inside(r)
    BY <2>7 DEF Inside, Locked
  <2>8. CASE Releases(r)
    BY <2>8 DEF Releases, Locked
  <2> QED
    BY <1>1, <2>5, <2>6, <2>7, <2>8, LockMoves, SMTT(30)
<1>2. ASSUME (\E c \in Creds : Control(c)) \/ Time PROVE LockInv'
  <2>1. UNCHANGED <<lock, pc, on>>
    BY <1>2 DEF Control, Store, IssueHandle, Revoke, Time, HandleExpires, ForcedWindowEnds,
                TokenAges, keeperVars, requestVars
  <2> QED
    BY <2>1 DEF LockInv
<1> QED
  BY <1>1, <1>2 DEF Next

-----------------------------------------------------------------------------
(* The order of the serial numbers.                                        *)

(* The authorization server only ever issues more.                         *)
ProviderGrows ==
  \A k \in Conns : /\ provider[k].minted <= provider'[k].minted
                   /\ provider[k].rt <= provider'[k].rt

LEMMA MintGrows ==
  ASSUME TokenShape, NEW k \in Conns, NEW life, NEW rotation \in Rotations, Mint(k, life, rotation)
  PROVE  /\ ProviderGrows
         /\ provider'[k].minted = provider[k].minted + 1
         /\ provider'[k].alive = provider[k].alive
         /\ fresh' \subseteq fresh \union {<<k, provider'[k].minted>>}
<1>0. rotation \in Nat
  BY ConstantsAssumption
<1> QED
  BY <1>0 DEF Mint, TokenShape, ProviderGrows

LEMMA ProviderMoves ==
  ASSUME TypeOK, Next
  PROVE  ProviderGrows
<1>0. \A k \in Conns : provider[k].minted \in Nat /\ provider[k].rt \in Nat
  BY DEF TypeOK, TokenShape
<1>1. ASSUME UNCHANGED provider PROVE ProviderGrows
  BY <1>0, <1>1 DEF ProviderGrows
<1>2. ASSUME NEW r \in Requests,
             RefreshSucceeds(r) \/ RefreshAnswerLost(r) \/ RefreshRefused(r)
      PROVE  ProviderGrows
  <2>1. Conn(r) \in Conns
    BY <1>2, Served, ConstantsAssumption
       DEF Conn, RefreshSucceeds, RefreshAnswerLost, RefreshRefused
  <2>2. CASE RefreshSucceeds(r) \/ RefreshAnswerLost(r)
    BY <2>1, <2>2, MintGrows DEF RefreshSucceeds, RefreshAnswerLost, TypeOK
  <2>3. CASE RefreshRefused(r)
    BY <2>1, <2>3, <1>0 DEF RefreshRefused, ProviderGrows, TypeOK, TokenShape
  <2> QED
    BY <1>2, <2>2, <2>3
<1>3. ASSUME NEW r \in Requests, KeeperStep(r),
             ~RefreshSucceeds(r), ~RefreshAnswerLost(r), ~RefreshRefused(r)
      PROVE  UNCHANGED provider
  BY <1>3 DEF KeeperStep, OwnStep, TokenRequestEnds, CheckStale, LockStale, LockForced,
              RefreshUnavailable, ReplaceCred, PersistRotation, tokenVars
<1>4. ASSUME NEW r \in Requests, Upstream(r) \/ \E c \in Creds : InjectAuth(r, c)
      PROVE  UNCHANGED provider
  BY <1>4 DEF Upstream, UpstreamAnswers, UpstreamRejects, UpstreamRejectsRetry, Flagged,
              InjectAuth, tokenVars
<1>5. ASSUME (\E c \in Creds : Control(c)) \/ Time PROVE UNCHANGED provider
  BY <1>5 DEF Control, Store, IssueHandle, Revoke, Time, HandleExpires, ForcedWindowEnds,
              TokenAges, tokenVars
<1> QED
  BY <1>1, <1>2, <1>3, <1>4, <1>5 DEF Next

(* Only the holder of a credential's lock, with the token endpoint's       *)
(* answer in hand, writes over a stored credential.                        *)
Overwritten(c) ==
  /\ lock[c] \in Requests /\ pc[lock[c]] = "answered" /\ on[lock[c]] = c
  /\ vault'[c] = answer[lock[c]]
  /\ ReplaceCred(lock[c])

LEMMA VaultMoves ==
  ASSUME TypeOK, LockInv, Next, NEW c \in Creds, vault[c] # Nil, vault'[c] # vault[c]
  PROVE  Overwritten(c)
<1>1. ASSUME NEW r \in Requests, ReplaceCred(r) PROVE Overwritten(c)
  <2>1. on[r] \in Creds /\ lock[on[r]] = r /\ pc[r] = "answered"
    BY <1>1, Served DEF ReplaceCred, LockInv, Locked
  <2>2. vault' = [vault EXCEPT ![on[r]] = answer[r]]
    BY <1>1 DEF ReplaceCred
  <2> QED
    BY <1>1, <2>1, <2>2 DEF Overwritten, TypeOK, KeeperShape
<1>2. ASSUME NEW r \in Requests, KeeperStep(r), ~ReplaceCred(r) PROVE UNCHANGED vault
  BY <1>2 DEF KeeperStep, OwnStep, TokenRequestEnds, CheckStale, LockStale, LockForced,
              RefreshSucceeds, RefreshRefused, RefreshUnavailable, RefreshAnswerLost, FlagAndFail,
              Flagged, PersistRotation, keeperVars
<1>3. ASSUME NEW r \in Requests, Upstream(r) \/ \E d \in Creds : InjectAuth(r, d)
      PROVE  UNCHANGED vault
  BY <1>3 DEF Upstream, UpstreamAnswers, UpstreamRejects, UpstreamRejectsRetry, Flagged,
              InjectAuth, keeperVars
<1>4. ASSUME NEW d \in Creds, Control(d) PROVE vault'[c] = vault[c]
  BY <1>4 DEF Control, Store, IssueHandle, Revoke, TypeOK, KeeperShape
<1>5. ASSUME Time PROVE UNCHANGED vault
  BY <1>5 DEF Time, HandleExpires, ForcedWindowEnds, TokenAges, keeperVars
<1> QED
  BY <1>1, <1>2, <1>3, <1>4, <1>5 DEF Next

(* Another request's step leaves a request's serials in order: the vault   *)
(* under its credential is as it was or, if it does not hold the lock,     *)
(* newer.                                                                  *)
LEMMA OthersOrdered ==
  ASSUME TypeOK, LockInv, OrderInv, Next, NEW q \in Requests,
         pc'[q] = pc[q], on'[q] = on[q], seen'[q] = seen[q], used'[q] = used[q],
         answer'[q] = answer[q], q \in retried' <=> q \in retried
  PROVE  RequestOrder(q)' \/ (Overwritten(on[q]) /\ lock[on[q]] = q)
<1>1. CASE pc[q] \in {"idle", "finished"}
  BY <1>1 DEF OrderInv, RequestOrder
<1>2. CASE pc[q] \notin {"idle", "finished"}
  <2>0. on[q] \in Creds /\ vault[on[q]] \in Material /\ vault[on[q]] # Nil
    BY <1>2, Served, ConstantsAssumption
  <2>1. ProviderGrows /\ Conn(q) \in Conns /\ Conn(q)' = Conn(q)
    BY <2>0, ProviderMoves, ConstantsAssumption DEF Conn
  <2>2. /\ seen[q] \in Material \union {Nil} /\ used[q] \in Material \union {Nil}
        /\ answer[q] \in Material \union {Nil} /\ LocalsSet(q)
        /\ provider[Conn(q)].minted \in Nat /\ provider[Conn(q)].rt \in Nat
        /\ provider'[Conn(q)].minted \in Nat /\ provider'[Conn(q)].rt \in Nat
    <3>1. TypeOK'
      BY EnvironmentType, KeeperType, UpstreamType DEF Next
    <3> QED
      BY <2>1, <3>1 DEF TypeOK, RequestShape, TokenShape
  <2>3. CASE vault'[on[q]] = vault[on[q]]
    BY <2>0, <2>1, <2>2, <2>3
       DEF OrderInv, RequestOrder, Older, Issued, ProviderGrows, LocalsSet
  <2>4. CASE Overwritten(on[q]) /\ lock[on[q]] # q
    <3>1. pc[q] \notin Locked
      BY <2>4 DEF LockInv
    <3>2. LET h == lock[on[q]]
          IN /\ vault'[on[q]] = answer[h] /\ answer[h] \in Material
             /\ vault[on[q]].at < answer[h].at /\ vault[on[q]].rt <= answer[h].rt
      <4>1. lock[on[q]] \in Requests /\ pc[lock[on[q]]] = "answered" /\ on[lock[on[q]]] = on[q]
        BY <2>4 DEF Overwritten
      <4>2. answer[lock[on[q]]] \in Material
        BY <4>1 DEF TypeOK, LocalsSet, RequestShape
      <4> QED
        BY <2>4, <4>1, <4>2 DEF Overwritten, OrderInv, RequestOrder
    <3> QED
      BY <2>0, <2>1, <2>2, <3>1, <3>2
         DEF OrderInv, RequestOrder, Older, LocalsSet, Locked
  <2> QED
    BY <2>0, <2>3, <2>4, VaultMoves
<1> QED
  BY <1>1, <1>2

(* What is stored, in the vault or on disk, was issued.                    *)
LEMMA StoredKept ==
  ASSUME TypeOK, LockInv, OrderInv, Next
  PROVE  StoredOrder'
<1>0. /\ ProviderGrows /\ TypeOK'
      /\ \A k \in Conns : /\ provider[k].minted \in Nat /\ provider[k].rt \in Nat
                          /\ provider'[k].minted \in Nat /\ provider'[k].rt \in Nat
                          /\ disk[k] \in Material
  <2>1. TypeOK'
    BY EnvironmentType, KeeperType, UpstreamType DEF Next
  <2> QED
    BY <2>1, ProviderMoves DEF TypeOK, TokenShape, KeeperShape
<1>1. ASSUME NEW c \in Creds, vault'[c] # Nil PROVE Issued(vault[c], ConnOf[c])'
  <2>0. ConnOf[c] \in Conns
    BY ConstantsAssumption
  <2>1. CASE vault[c] # Nil /\ vault'[c] = vault[c]
    BY <1>0, <2>0, <2>1 DEF OrderInv, StoredOrder, Issued, ProviderGrows, TypeOK, KeeperShape
  <2>2. CASE Overwritten(c)
    <3>1. lock[c] \in Requests /\ pc[lock[c]] = "answered" /\ on[lock[c]] = c
      BY <2>2 DEF Overwritten
    <3>2. answer[lock[c]] \in Material /\ Issued(answer[lock[c]], ConnOf[c])
      BY <3>1 DEF TypeOK, LocalsSet, RequestShape, OrderInv, RequestOrder, Conn
    <3> QED
      BY <1>0, <2>0, <2>2, <3>2 DEF Overwritten, Issued, ProviderGrows
  <2>3. CASE vault[c] = Nil
    <3>1. vault'[c] = disk[ConnOf[c]]
      <4>1. ASSUME NEW r \in Requests, KeeperStep(r), ~ReplaceCred(r) PROVE UNCHANGED vault
        BY <4>1 DEF KeeperStep, OwnStep, TokenRequestEnds, CheckStale, LockStale, LockForced,
                    RefreshSucceeds, RefreshRefused, RefreshUnavailable, RefreshAnswerLost,
                    FlagAndFail, Flagged, PersistRotation, keeperVars
      <4>2. ASSUME NEW r \in Requests, ReplaceCred(r) PROVE vault'[c] = vault[c]
        BY <4>2, <2>3, Served, ConstantsAssumption DEF ReplaceCred, TypeOK, KeeperShape
      <4>3. ASSUME NEW r \in Requests, Upstream(r) \/ \E d \in Creds : InjectAuth(r, d)
            PROVE  UNCHANGED vault
        BY <4>3 DEF Upstream, UpstreamAnswers, UpstreamRejects, UpstreamRejectsRetry, Flagged,
                    InjectAuth, keeperVars
      <4>4. ASSUME NEW d \in Creds, Control(d)
            PROVE  vault'[c] = vault[c] \/ vault'[c] = disk[ConnOf[c]]
        BY <4>4 DEF Control, Store, IssueHandle, Revoke, TypeOK, KeeperShape
      <4>5. ASSUME Time PROVE UNCHANGED vault
        BY <4>5 DEF Time, HandleExpires, ForcedWindowEnds, TokenAges, keeperVars
      <4> QED
        BY <1>1, <2>3, <4>1, <4>2, <4>3, <4>4, <4>5 DEF Next
    <3> QED
      BY <1>0, <2>0, <3>1 DEF OrderInv, StoredOrder, Issued, ProviderGrows
  <2> QED
    BY <2>1, <2>2, <2>3, VaultMoves
<1>2. ASSUME NEW k \in Conns PROVE Issued(disk[k], k)'
  <2>1. CASE disk'[k] = disk[k]
    BY <1>0, <2>1 DEF OrderInv, StoredOrder, Issued, ProviderGrows
  <2>2. ASSUME NEW r \in Requests, PersistRotation(r) PROVE Issued(disk[k], k)'
    <3>1. pc[r] = "persist" /\ on[r] \in Creds /\ Conn(r) \in Conns
      BY <2>2, Served, ConstantsAssumption DEF PersistRotation, Conn
    <3>2. answer[r] \in Material /\ Issued(answer[r], Conn(r))
      BY <3>1 DEF TypeOK, LocalsSet, RequestShape, OrderInv, RequestOrder
    <3>3. disk'[k] = disk[k] \/ (k = Conn(r) /\ disk'[k] = answer[r])
      BY <2>2 DEF PersistRotation, TypeOK, KeeperShape
    <3> QED
      BY <1>0, <2>1, <3>2, <3>3 DEF Issued, ProviderGrows
  <2>3. ASSUME NEW r \in Requests, KeeperStep(r), ~PersistRotation(r) PROVE UNCHANGED disk
    BY <2>3 DEF KeeperStep, OwnStep, TokenRequestEnds, CheckStale, LockStale, LockForced,
                RefreshSucceeds, RefreshRefused, RefreshUnavailable, RefreshAnswerLost,
                FlagAndFail, Flagged, ReplaceCred, keeperVars
  <2>4. ASSUME NEW r \in Requests, Upstream(r) \/ \E d \in Creds : InjectAuth(r, d)
        PROVE  UNCHANGED disk
    BY <2>4 DEF Upstream, UpstreamAnswers, UpstreamRejects, UpstreamRejectsRetry, Flagged,
                InjectAuth, keeperVars
  <2>5. ASSUME (\E c \in Creds : Control(c)) \/ Time PROVE UNCHANGED disk
    BY <2>5 DEF Control, Store, IssueHandle, Revoke, Time, HandleExpires, ForcedWindowEnds,
                TokenAges, keeperVars
  <2> QED
    BY <2>1, <2>2, <2>3, <2>4, <2>5 DEF Next
<1> QED
  BY <1>1, <1>2 DEF StoredOrder

(* A request's own step leaves its serials in order.                       *)
LEMMA OwnOrdered ==
  ASSUME TypeOK, LockInv, OrderInv, Next, NEW r \in Requests,
         KeeperStep(r) \/ Upstream(r) \/ \E c \in Creds : InjectAuth(r, c)
  PROVE  RequestOrder(r)'
<1>0. RequestOrder(r) /\ RequestShape /\ retried \subseteq Requests
  BY DEF OrderInv, TypeOK, RequestShape
<1>1. ASSUME NEW c \in Creds, InjectAuth(r, c) PROVE RequestOrder(r)'
  <2>1. Live(c) => vault[c] \in Material
    BY DEF Live, TypeOK, HandlesBacked, KeeperShape
  <2>2. CASE Live(c)
    BY <1>0, <1>1, <2>1, <2>2 DEF InjectAuth, RequestShape, RequestOrder, Older
  <2>3. CASE ~Live(c)
    BY <1>0, <1>1, <2>3 DEF InjectAuth, Finish, RequestShape, RequestOrder
  <2> QED
    BY <2>2, <2>3
<1>2. CASE KeeperStep(r) \/ Upstream(r)
  <2>1. /\ pc[r] \notin {"idle", "finished"} /\ UNCHANGED on
    <3>1. pc[r] \notin {"idle", "finished"}
      BY <1>2 DEF KeeperStep, OwnStep, TokenRequestEnds, CheckStale, LockStale, LockForced,
                  RefreshSucceeds, RefreshRefused, RefreshUnavailable, RefreshAnswerLost,
                  ReplaceCred, PersistRotation, Upstream, UpstreamAnswers, UpstreamRejects,
                  UpstreamRejectsRetry, Flagged
    <3> QED
      BY <1>2, <3>1, OneMoves, <1>0
  <2>2. on[r] \in Creds /\ vault[on[r]] \in Material /\ LocalsSet(r) /\ Conn(r) \in Conns
    BY <2>1, Served, ConstantsAssumption DEF Conn
  <2>3. /\ seen[r] \in Material \union {Nil} /\ used[r] \in Material \union {Nil}
        /\ answer[r] \in Material \union {Nil}
    BY <1>0 DEF RequestShape
  <2>4. CASE Finish(r)
    BY <1>0, <2>4 DEF Finish, RequestShape, RequestOrder
  <2>5. CASE CheckStale(r)
    BY <1>0, <2>1, <2>2, <2>3, <2>5
       DEF CheckStale, Inject, keeperVars, RequestShape, RequestOrder, LocalsSet
  <2>6. CASE LockStale(r) \/ LockForced(r)
    <3>1. CASE Inject(r, vault[on[r]])
      BY <1>0, <2>1, <2>2, <2>6, <3>1
         DEF LockStale, LockForced, Inject, RequestShape, RequestOrder, Older
    <3>2. CASE Advance(r, "refresh")
      BY <1>0, <2>1, <2>2, <2>3, <2>6, <3>2
         DEF LockStale, LockForced, Advance, RequestShape, RequestOrder
    <3> QED
      BY <2>6, <3>1, <3>2 DEF LockStale, LockForced, Advance
  <2>7. CASE RefreshSucceeds(r)
    <3>1. /\ answer' = [answer EXCEPT ![r] = [at |-> provider'[Conn(r)].minted,
                                             rt |-> provider'[Conn(r)].rt]]
          /\ UNCHANGED vault /\ pc' = [pc EXCEPT ![r] = "answered"] /\ UNCHANGED <<seen, retried>>
      BY <2>7 DEF RefreshSucceeds, keeperVars
    <3>2. /\ provider'[Conn(r)].minted = provider[Conn(r)].minted + 1
          /\ provider[Conn(r)].rt <= provider'[Conn(r)].rt
      BY <2>2, <2>7, MintGrows DEF RefreshSucceeds, ProviderGrows, TypeOK
    <3>3. Issued(vault[on[r]], Conn(r)) /\ pc[r] = "refresh"
      BY <2>2, <2>7, ConstantsAssumption DEF OrderInv, StoredOrder, Conn, RefreshSucceeds
    <3>4. provider[Conn(r)].minted \in Nat /\ provider[Conn(r)].rt \in Nat
          /\ provider'[Conn(r)].minted \in Nat /\ provider'[Conn(r)].rt \in Nat
      <4>1. TypeOK'
        BY EnvironmentType, KeeperType, UpstreamType DEF Next
      <4> QED
        BY <2>2, <4>1 DEF TypeOK, TokenShape
    <3>5. Conn(r)' = Conn(r) /\ on'[r] = on[r]
      BY <2>1 DEF Conn
    <3> QED
      BY <1>0, <2>2, <2>3, <3>1, <3>2, <3>3, <3>4, <3>5
         DEF RequestShape, RequestOrder, Issued, Older
  <2>8. CASE ReplaceCred(r) /\ ~Finish(r)
    <3>1. vault' = [vault EXCEPT ![on[r]] = answer[r]] /\ pc[r] = "answered"
      BY <2>8 DEF ReplaceCred
    <3>2. vault'[on[r]] = answer[r] /\ answer[r] \in Material
      BY <2>2, <2>3, <3>1 DEF LocalsSet, TypeOK, KeeperShape
    <3>3. CASE Inject(r, answer[r])
      BY <1>0, <2>1, <3>2, <3>3 DEF Inject, RequestShape, RequestOrder, Older
    <3>4. CASE Advance(r, "persist")
      BY <1>0, <2>1, <3>1, <3>2, <3>4, <2>8
         DEF ReplaceCred, Advance, RequestShape, RequestOrder, Issued, Conn, tokenVars
    <3> QED
      BY <2>8, <3>3, <3>4 DEF ReplaceCred, Advance
  <2>9. CASE PersistRotation(r)
    BY <1>0, <2>1, <2>2, <2>3, <2>9
       DEF PersistRotation, Inject, RequestShape, RequestOrder, LocalsSet, Older
  <2>10. CASE UpstreamRejects(r) /\ ~Finish(r)
    BY <1>0, <2>1, <2>2, <2>3, <2>10 DEF UpstreamRejects, RequestShape, RequestOrder, Older
  <2>11. \/ Finish(r) \/ CheckStale(r) \/ LockStale(r) \/ LockForced(r) \/ RefreshSucceeds(r)
         \/ ReplaceCred(r) \/ PersistRotation(r) \/ UpstreamRejects(r)
    BY <1>2 DEF KeeperStep, OwnStep, TokenRequestEnds, Upstream, RefreshRefused,
                RefreshUnavailable, RefreshAnswerLost, FlagAndFail, Flagged, UpstreamAnswers,
                UpstreamRejectsRetry
  <2> QED
    BY <2>4, <2>5, <2>6, <2>7, <2>8, <2>9, <2>10, <2>11
<1> QED
  BY <1>1, <1>2

LEMMA OrderKept ==
  ASSUME TypeOK, LockInv, OrderInv, Next
  PROVE  OrderInv'
<1> SUFFICES ASSUME NEW q \in Requests PROVE RequestOrder(q)'
  BY StoredKept DEF OrderInv
<1>1. CASE KeeperStep(q) \/ Upstream(q) \/ \E c \in Creds : InjectAuth(q, c)
  BY <1>1, OwnOrdered
<1>2. CASE ~(KeeperStep(q) \/ Upstream(q) \/ \E c \in Creds : InjectAuth(q, c))
  <2>1. /\ pc'[q] = pc[q] /\ on'[q] = on[q] /\ seen'[q] = seen[q] /\ used'[q] = used[q]
        /\ answer'[q] = answer[q] /\ (q \in retried' <=> q \in retried)
    <3>1. ASSUME NEW r \in Requests, q # r,
                 KeeperStep(r) \/ Upstream(r) \/ \E c \in Creds : InjectAuth(r, c)
          PROVE  OthersKeepLocals(r)
      BY <3>1, OneMoves DEF TypeOK
    <3>2. ASSUME (\E c \in Creds : Control(c)) \/ Time PROVE UNCHANGED requestVars
      BY <3>2 DEF Control, Store, IssueHandle, Revoke, Time, HandleExpires, ForcedWindowEnds,
                  TokenAges
    <3> QED
      BY <1>2, <3>1, <3>2 DEF Next, OthersKeepLocals, requestVars
  <2>2. ~(Overwritten(on[q]) /\ lock[on[q]] = q)
    BY <1>2 DEF Overwritten, KeeperStep, OwnStep, TokenRequestEnds
  <2> QED
    BY <2>1, <2>2, OthersOrdered
<1> QED
  BY <1>1, <1>2

-----------------------------------------------------------------------------
(* What a refresh spends.                                                  *)

Spends(r) ==
  pc[r] = "refresh" =>
    seen[r] = vault[on[r]] \/ ~Live(on[r]) \/ (r \notin retried /\ Token(on[r]) \notin fresh)

(* A token the vault already holds does not become fresh again: every mint *)
(* has a serial of its own.                                                *)
LEMMA StaleStaysStale ==
  ASSUME TypeOK, OrderInv, Next, NEW c \in Creds, vault[c] # Nil, vault'[c] = vault[c],
         Token(c) \notin fresh
  PROVE  Token(c)' \notin fresh'
<1>0. ConnOf[c] \in Conns /\ Issued(vault[c], ConnOf[c]) /\ vault[c] \in Material
      /\ Token(c)' = Token(c)
  BY ConstantsAssumption DEF OrderInv, StoredOrder, TypeOK, KeeperShape, Token
<1>1. ASSUME NEW r \in Requests, RefreshSucceeds(r) \/ RefreshAnswerLost(r)
      PROVE  Token(c) \notin fresh'
  <2>1. Conn(r) \in Conns
    BY <1>1, Served, ConstantsAssumption DEF Conn, RefreshSucceeds, RefreshAnswerLost
  <2>2. /\ fresh' \subseteq fresh \union {<<Conn(r), provider'[Conn(r)].minted>>}
        /\ provider'[Conn(r)].minted = provider[Conn(r)].minted + 1
    BY <1>1, <2>1, MintGrows DEF RefreshSucceeds, RefreshAnswerLost, TypeOK
  <2>3. provider[ConnOf[c]].minted \in Nat /\ provider[Conn(r)].minted \in Nat
    BY <1>0, <2>1 DEF TypeOK, TokenShape
  <2>4. Token(c) # <<Conn(r), provider'[Conn(r)].minted>>
    BY <1>0, <2>2, <2>3 DEF Token, Issued
  <2> QED
    BY <2>2, <2>4
<1>2. ASSUME NEW r \in Requests, KeeperStep(r), ~RefreshSucceeds(r), ~RefreshAnswerLost(r)
      PROVE  fresh' = fresh
  BY <1>2 DEF KeeperStep, OwnStep, TokenRequestEnds, CheckStale, LockStale, LockForced,
              RefreshRefused, RefreshUnavailable, ReplaceCred, PersistRotation, tokenVars
<1>3. ASSUME NEW r \in Requests, Upstream(r) \/ \E d \in Creds : InjectAuth(r, d)
      PROVE  fresh' = fresh
  BY <1>3 DEF Upstream, UpstreamAnswers, UpstreamRejects, UpstreamRejectsRetry, Flagged,
              InjectAuth, tokenVars
<1>4. ASSUME (\E d \in Creds : Control(d)) \/ Time PROVE fresh' \subseteq fresh
  BY <1>4 DEF Control, Store, IssueHandle, Revoke, Time, HandleExpires, ForcedWindowEnds,
              TokenAges, tokenVars
<1> QED
  BY <1>0, <1>1, <1>2, <1>3, <1>4 DEF Next

(* Nor does an issued handle that no longer resolves come back.            *)
LEMMA DeadStaysDead ==
  ASSUME TypeOK, Next, NEW c \in Creds, handle[c] # "none", ~Live(c)
  PROVE  ~Live(c)' /\ (handle[c] = "gone" => handle'[c] = "gone")
<1>1. handle'[c] = handle[c] \/ handle'[c] = "gone"
  <2>1. handle \in [Creds -> {"none", "live", "expired", "gone"}]
    BY DEF TypeOK, KeeperShape
  <2>2. ASSUME (\E d \in Creds : Control(d)) \/ Time
        PROVE  handle'[c] = handle[c] \/ handle'[c] = "gone"
    BY <2>1, <2>2 DEF Control, Store, IssueHandle, Revoke, Time, HandleExpires, ForcedWindowEnds,
                TokenAges, keeperVars, Live
  <2>3. ASSUME NEW r \in Requests, KeeperStep(r) \/ Upstream(r) \/ \E d \in Creds : InjectAuth(r, d)
        PROVE  UNCHANGED handle \/ \E d \in Creds \union {Nil} : handle' = DropExpired(d)
    <3>1. on[r] \in Creds \union {Nil}
      BY DEF TypeOK, RequestShape
    <3>2. CASE KeeperStep(r)
      BY <3>1, <3>2 DEF KeeperStep, OwnStep, TokenRequestEnds, CheckStale, LockStale, LockForced,
                        RefreshSucceeds, RefreshRefused, RefreshUnavailable, RefreshAnswerLost,
                        FlagAndFail, Flagged, ReplaceCred, PersistRotation, keeperVars
    <3>3. CASE Upstream(r) \/ \E d \in Creds : InjectAuth(r, d)
      BY <3>1, <3>3 DEF Upstream, UpstreamAnswers, UpstreamRejects, UpstreamRejectsRetry, Flagged,
         InjectAuth, keeperVars
    <3> QED
      BY <2>3, <3>2, <3>3
  <2> QED
    BY <2>1, <2>2, <2>3 DEF Next, DropExpired
<1> QED
  BY <1>1 DEF Live

(* A request waiting on the token endpoint has the lock, so nobody moves   *)
(* the credential it spends; one that gets there does so either with the   *)
(* vault's credential or through one of the code's two fallbacks.          *)
LEMMA SpendKept ==
  ASSUME TypeOK, LockInv, OrderInv, RefreshSpendsLiveCredential, Next
  PROVE  RefreshSpendsLiveCredential'
<1> SUFFICES ASSUME NEW q \in Requests, pc'[q] = "refresh" PROVE Spends(q)'
  BY DEF RefreshSpendsLiveCredential, Spends
<1>1. CASE LockStale(q)
  BY <1>1, Served DEF LockStale, Spends, Live, Token, Inject, DropExpired, tokenVars, TypeOK,
                      KeeperShape, RequestShape
<1>2. CASE LockForced(q)
  <2>1. on[q] \in Creds /\ vault[on[q]] \in Material /\ LocalsSet(q) /\ pc[q] = "wait" /\ q \in retried
    BY <1>2, Served DEF LockForced
  <2>2. ~Live(on[q]) \/ vault[on[q]].at = used[q].at
    BY <1>2, <2>1 DEF LockForced, Inject, TypeOK, RequestShape
  <2>3. Older(used[q], seen[q]) /\ Older(seen[q], vault[on[q]])
    BY <2>1 DEF OrderInv, RequestOrder
  <2>4. used[q] \in Material /\ seen[q] \in Material
    BY <2>1 DEF LocalsSet, TypeOK, RequestShape
  <2>5. ~Live(on[q]) \/ seen[q] = vault[on[q]]
    BY <2>1, <2>2, <2>3, <2>4 DEF Older
  <2>6. UNCHANGED <<vault, seen, on>> /\ (Live(on[q])' => Live(on[q]))
    BY <1>2, <2>1 DEF LockForced, Inject, Live, DropExpired, TypeOK, KeeperShape, RequestShape
  <2> QED
    BY <2>5, <2>6 DEF Spends
<1>3. CASE pc[q] = "refresh" /\ pc'[q] = "refresh"
  <2>1. on[q] \in Creds /\ handle[on[q]] # "none" /\ vault[on[q]] # Nil /\ lock[on[q]] = q
    BY <1>3, Served, ConstantsAssumption DEF LockInv, Locked
  <2>2. vault'[on[q]] = vault[on[q]]
    BY <1>3, <2>1, VaultMoves DEF Overwritten
  <2>3. on'[q] = on[q] /\ seen'[q] = seen[q] /\ (q \in retried' <=> q \in retried)
    <3>1. ASSUME NEW r \in Requests, q # r,
                 KeeperStep(r) \/ Upstream(r) \/ \E c \in Creds : InjectAuth(r, c)
          PROVE  OthersKeepLocals(r)
      BY <3>1, OneMoves DEF TypeOK
    <3>2. ASSUME (\E c \in Creds : Control(c)) \/ Time PROVE UNCHANGED requestVars
      BY <3>2 DEF Control, Store, IssueHandle, Revoke, Time, HandleExpires, ForcedWindowEnds,
                  TokenAges
    <3>3. ~KeeperStep(q) /\ ~Upstream(q) /\ ~\E c \in Creds : InjectAuth(q, c)
      BY <1>3 DEF KeeperStep, OwnStep, TokenRequestEnds, CheckStale, LockStale, LockForced,
                  RefreshSucceeds, RefreshRefused, RefreshUnavailable, RefreshAnswerLost,
                  FlagAndFail, Flagged, Finish, ReplaceCred, PersistRotation, Upstream,
                  UpstreamAnswers, UpstreamRejects, UpstreamRejectsRetry, InjectAuth, TypeOK,
                  RequestShape
    <3> QED
      BY <3>1, <3>2, <3>3 DEF Next, OthersKeepLocals, requestVars
  <2>4. Spends(q)
    BY <1>3 DEF RefreshSpendsLiveCredential, Spends
  <2>5. Live(on[q])' => Live(on[q])
    BY <2>1, <2>3, DeadStaysDead DEF Live
  <2>6. Token(on[q]) \notin fresh => Token(on[q])' \notin fresh'
    BY <2>1, <2>2, <2>3, StaleStaysStale DEF Token
  <2> QED
    BY <1>3, <2>2, <2>3, <2>4, <2>5, <2>6 DEF Spends, Live, Token
<1>4. LockStale(q) \/ LockForced(q) \/ pc[q] = "refresh"
  <2>1. ASSUME NEW r \in Requests, q # r,
               KeeperStep(r) \/ Upstream(r) \/ \E c \in Creds : InjectAuth(r, c)
        PROVE  pc[q] = "refresh"
    BY <2>1, OneMoves DEF TypeOK, OthersKeepLocals
  <2>2. ASSUME (\E c \in Creds : Control(c)) \/ Time PROVE pc[q] = "refresh"
    BY <2>2 DEF Control, Store, IssueHandle, Revoke, Time, HandleExpires, ForcedWindowEnds,
                TokenAges, requestVars
  <2>3. ASSUME KeeperStep(q) \/ Upstream(q) \/ \E c \in Creds : InjectAuth(q, c)
        PROVE  LockStale(q) \/ LockForced(q)
    BY <2>3 DEF KeeperStep, OwnStep, TokenRequestEnds, CheckStale, RefreshSucceeds, RefreshRefused,
       RefreshUnavailable, RefreshAnswerLost, FlagAndFail, Flagged, Finish, Inject, ReplaceCred,
       PersistRotation, Upstream, UpstreamAnswers, UpstreamRejects, UpstreamRejectsRetry,
       InjectAuth, TypeOK, RequestShape
  <2> QED
    BY <2>1, <2>2, <2>3 DEF Next
<1> QED
  BY <1>1, <1>2, <1>3, <1>4

(* IInv is inductive.                                                      *)
LEMMA Inductive ==
  /\ Init => IInv
  /\ IInv /\ [Next]_vars => IInv'
<1>1. Init => IInv
  <2> SUFFICES ASSUME Init PROVE LockInv /\ OrderInv /\ RefreshSpendsLiveCredential
    BY InitType DEF IInv
  <2>1. LockInv /\ RefreshSpendsLiveCredential
    BY DEF Init, LockInv, Locked, RefreshSpendsLiveCredential
  <2>2. OrderInv
    BY DEF Init, OrderInv, StoredOrder, RequestOrder, Issued
  <2> QED
    BY <2>1, <2>2
<1>2. IInv /\ UNCHANGED vars => IInv'
  <2> SUFFICES ASSUME IInv, UNCHANGED vars PROVE IInv'
    OBVIOUS
  <2> USE DEF IInv, vars, keeperVars, tokenVars, requestVars
  <2>1. TypeOK'
    BY DEF TypeOK, KeeperShape, HandlesBacked, TokenShape, RequestShape, LocalsSet
  <2>2. LockInv' /\ RefreshSpendsLiveCredential'
    BY DEF LockInv, RefreshSpendsLiveCredential, Live, Token
  <2>3. OrderInv'
    BY DEF OrderInv, StoredOrder, RequestOrder, Issued, Older, Conn
  <2> QED
    BY <2>1, <2>2, <2>3
<1>3. IInv /\ Next => IInv'
  BY EnvironmentType, KeeperType, UpstreamType, LockKept, OrderKept, SpendKept DEF IInv, Next
<1> QED
  BY <1>1, <1>2, <1>3

(* Whatever the interleaving of racing requests, a refresh spends the      *)
(* refresh token the vault holds, except through refreshIfStale's and      *)
(* forceRefresh's fallbacks to the credential read before the lock.        *)
THEOREM RefreshIsCurrent == Spec => []RefreshSpendsLiveCredential
<1>1. IInv => RefreshSpendsLiveCredential
  BY DEF IInv
<1> QED
  BY <1>1, Inductive, PTL DEF Spec

(* No rotation ever puts an older token over a newer one.                  *)
THEOREM VaultOnlyAdvances == Spec => VaultMovesForward
<1>1. IInv /\ [Next]_vars =>
        [\A c \in Creds : vault[c] # Nil => vault'[c].at >= vault[c].at]_vars
  <2> SUFFICES ASSUME IInv, Next, NEW c \in Creds, vault[c] # Nil
               PROVE  vault'[c].at >= vault[c].at
    OBVIOUS
  <2>1. vault[c] \in Material
    BY DEF IInv, TypeOK, KeeperShape
  <2>2. CASE vault'[c] = vault[c]
    BY <2>1, <2>2
  <2>3. CASE Overwritten(c)
    <3>1. answer[lock[c]] \in Material /\ vault[c].at < answer[lock[c]].at
      BY <2>3 DEF Overwritten, IInv, TypeOK, LocalsSet, RequestShape, OrderInv, RequestOrder
    <3> QED
      BY <2>1, <2>3, <3>1 DEF Overwritten
  <2> QED
    BY <2>2, <2>3, VaultMoves DEF IInv
<1> QED
  BY <1>1, Inductive, PTL DEF Spec, VaultMovesForward

-----------------------------------------------------------------------------
(* The grant behind a pod that is alone on its connection.                 *)

(* Stored credentials stay stored, so a credential alone on its connection *)
(* after a step was alone before it.                                       *)
LEMMA StillStored ==
  ASSUME IInv, Next
  PROVE  /\ \A c \in Creds : vault[c] # Nil => vault'[c] # Nil
         /\ \A c \in Creds : Sole(c)' => Sole(c)
<1>1. ASSUME NEW c \in Creds, vault[c] # Nil PROVE vault'[c] # Nil
  <2>1. CASE Overwritten(c)
    BY <2>1, ConstantsAssumption DEF Overwritten, IInv, TypeOK, LocalsSet, RequestShape
  <2> QED
    BY <1>1, <2>1, VaultMoves DEF IInv
<1> QED
  BY <1>1 DEF Sole

LEMMA SoleRequest ==
  ASSUME TypeOK, NEW c \in Creds, Sole(c), NEW r \in Requests,
         pc[r] \notin {"idle", "finished"}, Conn(r) = ConnOf[c]
  PROVE  on[r] = c
BY Served, ConstantsAssumption DEF Sole, Conn

(* What a step leaves alone when it is no keeper step for c.               *)
QuietFor(c) ==
  /\ provider'[ConnOf[c]] = provider[ConnOf[c]]
  /\ disk'[ConnOf[c]] = disk[ConnOf[c]]
  /\ ConnOf[c] \in needsReauth => ConnOf[c] \in needsReauth'
  /\ ConnOf[c] \in unsaved => ConnOf[c] \in unsaved'
  /\ vault'[c] = vault[c] /\ lock'[c] = lock[c]
  /\ lock[c] # Nil => pc'[lock[c]] = pc[lock[c]] /\ answer'[lock[c]] = answer[lock[c]]

LEMMA Quiet ==
  ASSUME IInv, Next, NEW c \in Creds, vault[c] # Nil, Sole(c)',
         \A r \in Requests : KeeperStep(r) => on[r] # c
  PROVE  QuietFor(c)
<1>0. /\ TypeOK /\ LockInv /\ Sole(c) /\ ConnOf[c] \in Conns
      /\ lock[c] # Nil => /\ lock[c] \in Requests /\ on[lock[c]] = c /\ pc[lock[c]] \in Locked
  BY StillStored, ConstantsAssumption DEF IInv, LockInv, TypeOK, KeeperShape
<1>1. ASSUME NEW r \in Requests, KeeperStep(r) PROVE QuietFor(c)
  <2>1. pc[r] \notin {"idle", "finished"} /\ on[r] \in Creds /\ on[r] # c /\ Conn(r) \in Conns
    <3>1. pc[r] \notin {"idle", "finished"}
      BY <1>1 DEF KeeperStep, OwnStep, TokenRequestEnds, CheckStale, LockStale, LockForced,
                  RefreshSucceeds, RefreshRefused, RefreshUnavailable, RefreshAnswerLost,
                  ReplaceCred, PersistRotation
    <3> QED
      BY <1>1, <3>1, Served, <1>0, ConstantsAssumption DEF Conn
  <2>2. Conn(r) # ConnOf[c]
    BY <1>0, <2>1, SoleRequest
  <2>3. OthersKeepLocals(r) /\ lock[c] # r
    BY <1>0, <1>1, <2>1, OneMoves, ConstantsAssumption DEF TypeOK
  <2>4. lock[c] # Nil => pc'[lock[c]] = pc[lock[c]] /\ answer'[lock[c]] = answer[lock[c]]
    BY <1>0, <2>3 DEF OthersKeepLocals
  <2>5. vault'[c] = vault[c] /\ lock'[c] = lock[c]
    <3>1. lock' = lock \/ \E v \in {r, Nil} : lock' = [lock EXCEPT ![on[r]] = v]
      BY <1>0, <1>1, LockMoves DEF Outside, Acquires, Inside, Releases
    <3>2. UNCHANGED vault \/ vault' = [vault EXCEPT ![on[r]] = answer[r]]
      BY <1>1 DEF KeeperStep, OwnStep, TokenRequestEnds, CheckStale, LockStale, LockForced,
                  RefreshSucceeds, RefreshRefused, RefreshUnavailable, RefreshAnswerLost,
                  FlagAndFail, Flagged, ReplaceCred, PersistRotation, keeperVars
    <3> QED
      BY <1>0, <2>1, <3>1, <3>2 DEF TypeOK, KeeperShape
  <2>6. provider'[ConnOf[c]] = provider[ConnOf[c]]
    BY <1>0, <1>1, <2>2
       DEF KeeperStep, OwnStep, TokenRequestEnds, CheckStale, LockStale, LockForced,
           RefreshSucceeds, RefreshRefused, RefreshUnavailable, RefreshAnswerLost, ReplaceCred,
           PersistRotation, Mint, tokenVars, TypeOK, TokenShape
  <2>7. /\ disk'[ConnOf[c]] = disk[ConnOf[c]]
        /\ ConnOf[c] \in needsReauth => ConnOf[c] \in needsReauth'
        /\ ConnOf[c] \in unsaved => ConnOf[c] \in unsaved'
    BY <1>0, <1>1, <2>2
       DEF KeeperStep, OwnStep, TokenRequestEnds, CheckStale, LockStale, LockForced,
           RefreshSucceeds, RefreshRefused, RefreshUnavailable, RefreshAnswerLost, FlagAndFail,
           Flagged, ReplaceCred, PersistRotation, keeperVars, TypeOK, KeeperShape
  <2> QED
    BY <2>4, <2>5, <2>6, <2>7 DEF QuietFor
<1>2. ASSUME NEW r \in Requests, Upstream(r) \/ \E d \in Creds : InjectAuth(r, d)
      PROVE  QuietFor(c)
  <2>1. OthersKeepLocals(r) /\ lock[c] # r
    <3>1. pc[r] \notin Locked
      BY <1>2 DEF Upstream, UpstreamAnswers, UpstreamRejects, UpstreamRejectsRetry, Flagged,
                  InjectAuth, Locked
    <3> QED
      BY <1>0, <1>2, <3>1, OneMoves, ConstantsAssumption DEF TypeOK
  <2>2. lock[c] # Nil => pc'[lock[c]] = pc[lock[c]] /\ answer'[lock[c]] = answer[lock[c]]
    BY <1>0, <2>1 DEF OthersKeepLocals
  <2>3. UNCHANGED <<provider, disk, unsaved, vault, lock>> /\ needsReauth \subseteq needsReauth'
    BY <1>2 DEF Upstream, UpstreamAnswers, UpstreamRejects, UpstreamRejectsRetry, Flagged,
                InjectAuth, keeperVars, tokenVars
  <2> QED
    BY <2>2, <2>3 DEF QuietFor
<1>3. ASSUME NEW d \in Creds, Control(d) PROVE QuietFor(c)
  <2>1. CASE Store(d)
    <3>1. d # c /\ ConnOf[d] # ConnOf[c] /\ vault'[c] = vault[c]
      <4>1. d # c /\ vault'[d] # Nil
        BY <2>1, ConstantsAssumption DEF Store, IInv, TypeOK, KeeperShape
      <4> QED
        BY <2>1, <4>1 DEF Sole, Store, IInv, TypeOK, KeeperShape
    <3> QED
      BY <2>1, <3>1 DEF Store, QuietFor, tokenVars, requestVars
  <2>2. CASE IssueHandle(d) \/ Revoke(d)
    BY <2>2 DEF IssueHandle, Revoke, QuietFor, tokenVars, requestVars
  <2> QED
    BY <1>3, <2>1, <2>2 DEF Control
<1>4. ASSUME Time PROVE QuietFor(c)
  BY <1>4 DEF Time, HandleExpires, ForcedWindowEnds, TokenAges, QuietFor, keeperVars, tokenVars,
              requestVars
<1> QED
  BY <1>1, <1>2, <1>3, <1>4 DEF Next

GrantHeld(c) ==
  ConnOf[c] \in WriteBack /\ vault[c] # Nil /\ handle[c] # "gone" /\ Sole(c) =>
    \/ ConnOf[c] \in needsReauth
    \/ provider[ConnOf[c]].alive /\ CurrentRt(c) = provider[ConnOf[c]].rt

(* A keeper step for c spends the grant's refresh token and keeps the new  *)
(* one, or flags the connection.                                           *)
LEMMA GrantByKeeper ==
  ASSUME IInv, Next, NEW r \in Requests, KeeperStep(r), GrantHeld(on[r])
  PROVE  GrantHeld(on[r])'
<1> DEFINE c == on[r]
           k == Conn(r)
<1>0. /\ pc[r] \notin {"idle", "finished"} /\ c \in Creds /\ k \in Conns /\ k = ConnOf[c]
      /\ vault[c] \in Material /\ vault[c] # Nil /\ on'[r] = on[r]
      /\ TypeOK /\ LockInv /\ OrderInv
  <2>1. pc[r] \notin {"idle", "finished"}
    BY DEF KeeperStep, OwnStep, TokenRequestEnds, CheckStale, LockStale, LockForced,
           RefreshSucceeds, RefreshRefused, RefreshUnavailable, RefreshAnswerLost, ReplaceCred,
           PersistRotation
  <2> QED
    BY <2>1, Served, OneMoves, ConstantsAssumption DEF Conn, IInv, TypeOK
<1>1. SUFFICES ASSUME k \in WriteBack, handle'[c] # "gone", Sole(c)'
               PROVE  \/ k \in needsReauth'
                      \/ provider'[k].alive /\ CurrentRt(c)' = provider'[k].rt
  BY <1>0 DEF GrantHeld, Conn
<1>2. Sole(c) /\ needsReauth \subseteq needsReauth'
  <2>1. Sole(c)
    BY <1>0, <1>1, StillStored DEF Sole
  <2>2. needsReauth \subseteq needsReauth'
    BY DEF KeeperStep, OwnStep, TokenRequestEnds, CheckStale, LockStale, LockForced,
           RefreshSucceeds, RefreshRefused, RefreshUnavailable, RefreshAnswerLost, FlagAndFail,
           Flagged, ReplaceCred, PersistRotation, keeperVars
  <2> QED
    BY <2>1, <2>2
<1>3. handle[c] # "gone"
  BY <1>0, <1>1
     DEF KeeperStep, OwnStep, TokenRequestEnds, CheckStale, LockStale, LockForced,
         RefreshSucceeds, RefreshRefused, RefreshUnavailable, RefreshAnswerLost, FlagAndFail,
         Flagged, ReplaceCred, PersistRotation, keeperVars, DropExpired, TypeOK, KeeperShape
<1>4. SUFFICES ASSUME k \notin needsReauth'
               PROVE  provider'[k].alive /\ CurrentRt(c)' = provider'[k].rt
  OBVIOUS
<1>5. provider[k].alive /\ CurrentRt(c) = provider[k].rt
  BY <1>0, <1>1, <1>2, <1>3, <1>4 DEF GrantHeld
<1> USE <1>0
<1>6. CASE CheckStale(r)
  <2>1. UNCHANGED <<vault, lock, answer, provider>>
        \/ (lock[c] # r /\ UNCHANGED <<vault, lock, provider>>)
    BY <1>6, ConstantsAssumption DEF CheckStale, keeperVars, tokenVars, LockInv, Locked, TypeOK,
                                     KeeperShape
  <2>2. lock[c] # Nil => lock[c] \in Requests /\ lock[c] # r
    BY <1>6, ConstantsAssumption DEF CheckStale, LockInv, Locked, TypeOK, KeeperShape
  <2>3. OthersKeepLocals(r)
    BY OneMoves DEF TypeOK
  <2> QED
    BY <1>5, <1>6, <2>1, <2>2, <2>3 DEF CheckStale, CurrentRt, OthersKeepLocals
<1>7. CASE LockStale(r) \/ LockForced(r)
  <2>1. lock[c] = Nil /\ UNCHANGED <<vault, provider>> /\ pc' \in {[pc EXCEPT ![r] = "sent"], [pc EXCEPT ![r] = "refresh"]}
        /\ (lock' = lock \/ lock' = [lock EXCEPT ![c] = r]) /\ pc[r] = "wait"
    BY <1>7 DEF LockStale, LockForced, Inject, tokenVars
  <2>2. lock'[c] \in {r, Nil} /\ pc'[r] # "answered"
    BY <2>1 DEF TypeOK, KeeperShape, RequestShape
  <2> QED
    BY <1>5, <2>1, <2>2 DEF CurrentRt
<1>8. CASE RefreshSucceeds(r)
  <2>1. provider'[k].alive = provider[k].alive
    BY <1>8, MintGrows DEF RefreshSucceeds, TypeOK
  <2>2. /\ lock'[c] = r /\ pc'[r] = "answered" /\ answer'[r].rt = provider'[k].rt
    BY <1>8 DEF RefreshSucceeds, LockInv, Locked, keeperVars, TypeOK, RequestShape
  <2> QED
    BY <1>5, <2>1, <2>2, ConstantsAssumption DEF CurrentRt
<1>9. CASE RefreshRefused(r) \/ RefreshUnavailable(r) \/ RefreshAnswerLost(r)
  BY <1>1, <1>4, <1>9 DEF RefreshRefused, RefreshUnavailable, RefreshAnswerLost, FlagAndFail,
                          Flagged
<1>10. CASE ReplaceCred(r)
  <2>1. /\ vault'[c] = answer[r] /\ lock[c] = r /\ pc[r] = "answered" /\ UNCHANGED provider
        /\ lock'[c] = Nil \/ (lock'[c] = r /\ pc'[r] = "persist")
    BY <1>3, <1>10 DEF ReplaceCred, Unlock, LockInv, Locked, TypeOK, KeeperShape, RequestShape,
                       tokenVars
  <2> QED
    BY <1>5, <2>1, ConstantsAssumption DEF CurrentRt
<1>11. CASE PersistRotation(r)
  <2>1. lock[c] = r /\ lock'[c] = Nil /\ pc[r] = "persist" /\ UNCHANGED <<vault, provider>>
    BY <1>11 DEF PersistRotation, Unlock, LockInv, Locked, TypeOK, KeeperShape, tokenVars
  <2> QED
    BY <1>5, <2>1, ConstantsAssumption DEF CurrentRt
<1> QED
  BY <1>6, <1>7, <1>8, <1>9, <1>10, <1>11 DEF KeeperStep, OwnStep, TokenRequestEnds

(* Before anything of a connection is stored, its grant is untouched.      *)
Untouched(k) ==
  (\A c \in Creds : ConnOf[c] = k => vault[c] = Nil) =>
    provider[k].alive /\ disk[k].rt = provider[k].rt

LEMMA UntouchedKept ==
  ASSUME IInv, Next, NEW k \in Conns, Untouched(k)
  PROVE  Untouched(k)'
<1> SUFFICES ASSUME \A c \in Creds : ConnOf[c] = k => vault'[c] = Nil
             PROVE  provider'[k].alive /\ disk'[k].rt = provider'[k].rt
  BY DEF Untouched
<1>0. \A c \in Creds : ConnOf[c] = k => vault[c] = Nil
  BY StillStored
<1>1. provider[k].alive /\ disk[k].rt = provider[k].rt
  BY <1>0 DEF Untouched
<1>2. ASSUME NEW r \in Requests, KeeperStep(r)
      PROVE  provider'[k] = provider[k] /\ disk'[k] = disk[k]
  <2>1. Conn(r) # k /\ Conn(r) \in Conns
    <3>1. pc[r] \notin {"idle", "finished"}
      BY <1>2 DEF KeeperStep, OwnStep, TokenRequestEnds, CheckStale, LockStale, LockForced,
                  RefreshSucceeds, RefreshRefused, RefreshUnavailable, RefreshAnswerLost,
                  ReplaceCred, PersistRotation
    <3> QED
      BY <3>1, <1>0, Served, ConstantsAssumption DEF Conn, IInv
  <2> QED
    BY <1>2, <2>1
       DEF KeeperStep, OwnStep, TokenRequestEnds, CheckStale, LockStale, LockForced,
           RefreshSucceeds, RefreshRefused, RefreshUnavailable, RefreshAnswerLost, FlagAndFail,
           Flagged, ReplaceCred, PersistRotation, Mint, keeperVars, tokenVars, IInv, TypeOK,
           TokenShape, KeeperShape
<1>3. ASSUME NEW r \in Requests, Upstream(r) \/ \E d \in Creds : InjectAuth(r, d)
      PROVE  UNCHANGED <<provider, disk>>
  BY <1>3 DEF Upstream, UpstreamAnswers, UpstreamRejects, UpstreamRejectsRetry, Flagged, InjectAuth,
              keeperVars, tokenVars
<1>4. ASSUME (\E d \in Creds : Control(d)) \/ Time PROVE UNCHANGED <<provider, disk>>
  BY <1>4 DEF Control, Store, IssueHandle, Revoke, Time, HandleExpires, ForcedWindowEnds,
              TokenAges, keeperVars, tokenVars
<1> QED
  BY <1>1, <1>2, <1>3, <1>4 DEF Next

(* A credential enters the vault as the connection's material on disk,     *)
(* with nobody holding its lock.                                           *)
LEMMA StoredFromDisk ==
  ASSUME IInv, Next, NEW c \in Creds, vault[c] = Nil, vault'[c] # Nil
  PROVE  Store(c) /\ lock[c] = Nil
<1>1. Store(c)
  <2>1. ASSUME NEW r \in Requests, KeeperStep(r) PROVE vault'[c] = vault[c]
    <3>1. CASE ReplaceCred(r)
      BY <3>1, Served, ConstantsAssumption DEF ReplaceCred, IInv, TypeOK, KeeperShape
    <3>2. CASE ~ReplaceCred(r)
      BY <2>1, <3>2
         DEF KeeperStep, OwnStep, TokenRequestEnds, CheckStale, LockStale, LockForced,
             RefreshSucceeds, RefreshRefused, RefreshUnavailable, RefreshAnswerLost, FlagAndFail,
             Flagged, PersistRotation, keeperVars
    <3> QED
      BY <3>1, <3>2
  <2>2. ASSUME NEW r \in Requests, Upstream(r) \/ \E d \in Creds : InjectAuth(r, d)
        PROVE  UNCHANGED vault
    BY <2>2 DEF Upstream, UpstreamAnswers, UpstreamRejects, UpstreamRejectsRetry, Flagged,
                InjectAuth, keeperVars
  <2>3. ASSUME NEW d \in Creds, Control(d) PROVE Store(c) \/ vault'[c] = vault[c]
    BY <2>3 DEF Control, Store, IssueHandle, Revoke, IInv, TypeOK, KeeperShape
  <2>4. ASSUME Time PROVE UNCHANGED vault
    BY <2>4 DEF Time, HandleExpires, ForcedWindowEnds, TokenAges, keeperVars
  <2> QED
    BY <2>1, <2>2, <2>3, <2>4 DEF Next
<1>2. lock[c] = Nil
  <2> SUFFICES ASSUME lock[c] # Nil PROVE FALSE
    OBVIOUS
  <2>1. lock[c] \in Requests /\ on[lock[c]] = c /\ pc[lock[c]] \in Locked
    BY DEF IInv, LockInv, TypeOK, KeeperShape
  <2> QED
    BY <2>1, Served, ConstantsAssumption DEF IInv, Locked
<1> QED
  BY <1>1, <1>2

LEMMA GrantKept ==
  ASSUME IInv, Next, GrantInv
  PROVE  GrantInv'
<1>1. \A k \in Conns : Untouched(k)'
  BY UntouchedKept DEF GrantInv, Untouched
<1>2. ASSUME NEW c \in Creds PROVE GrantHeld(c)'
  <2>0. GrantHeld(c) /\ ConnOf[c] \in Conns
    BY ConstantsAssumption DEF GrantInv, GrantHeld
  <2>1. SUFFICES ASSUME vault'[c] # Nil, Sole(c)', handle'[c] # "gone" PROVE GrantHeld(c)'
    BY DEF GrantHeld
  <2>2. CASE vault[c] = Nil
    <3>1. Store(c) /\ lock[c] = Nil /\ vault'[c] = disk[ConnOf[c]]
      BY <2>1, <2>2, StoredFromDisk DEF Store, IInv, TypeOK, KeeperShape
    <3>2. \A d \in Creds : ConnOf[d] = ConnOf[c] => vault[d] = Nil
      BY <2>1, <2>2, StillStored DEF Sole
    <3>3. provider[ConnOf[c]].alive /\ disk[ConnOf[c]].rt = provider[ConnOf[c]].rt
      BY <2>0, <3>2 DEF GrantInv
    <3>4. UNCHANGED <<lock, provider>>
      BY <3>1 DEF Store, tokenVars
    <3> QED
      BY <3>1, <3>3, <3>4 DEF GrantHeld, CurrentRt
  <2>3. CASE vault[c] # Nil /\ \E r \in Requests : KeeperStep(r) /\ on[r] = c
    <3>1. PICK r \in Requests : KeeperStep(r) /\ on[r] = c
      BY <2>3
    <3>2. GrantHeld(on[r])' /\ on'[r] = on[r]
      BY <2>0, <3>1, GrantByKeeper, OneMoves
         DEF IInv, TypeOK, KeeperStep, OwnStep, TokenRequestEnds, CheckStale, LockStale,
             LockForced, RefreshSucceeds, RefreshRefused, RefreshUnavailable, RefreshAnswerLost,
             FlagAndFail, Flagged, ReplaceCred, PersistRotation
    <3> QED
      BY <3>1, <3>2 DEF GrantHeld, Sole, CurrentRt
  <2>4. CASE vault[c] # Nil /\ \A r \in Requests : KeeperStep(r) => on[r] # c
    <3>1. QuietFor(c) /\ Sole(c)
      BY <2>1, <2>4, Quiet, StillStored
    <3>2. handle[c] # "gone"
      <4>1. handle[c] = "gone" => handle'[c] = "gone"
        BY DeadStaysDead DEF IInv, Live
      <4> QED
        BY <2>1, <4>1
    <3>3. CurrentRt(c)' = CurrentRt(c)
      BY <3>1 DEF QuietFor, CurrentRt
    <3> QED
      BY <2>0, <2>4, <3>1, <3>2, <3>3 DEF GrantHeld, QuietFor
  <2> QED
    BY <2>2, <2>3, <2>4
<1> QED
  BY <1>1, <1>2 DEF GrantInv, Untouched, GrantHeld

(* A pod alone on a connection with a WriteBackKey holds the grant's       *)
(* current refresh token, or the connection is flagged for reauth.         *)
THEOREM LostGrantNoticed == Spec => []LostGrantIsFlagged
<1>1. Init => GrantInv
  BY DEF Init, GrantInv
<1>2. IInv /\ GrantInv /\ [Next]_vars => GrantInv'
  <2>1. GrantInv /\ UNCHANGED vars => GrantInv'
    BY DEF GrantInv, Sole, CurrentRt, vars, keeperVars, tokenVars, requestVars
  <2> QED
    BY <2>1, GrantKept
<1>3. IInv /\ GrantInv => LostGrantIsFlagged
  <2> SUFFICES ASSUME IInv, GrantInv, NEW c \in Creds, ConnOf[c] \in WriteBack,
                      Live(c), lock[c] = Nil, Sole(c)
               PROVE  \/ provider[ConnOf[c]].alive /\ vault[c].rt = provider[ConnOf[c]].rt
                      \/ ConnOf[c] \in needsReauth
    BY DEF LostGrantIsFlagged
  <2>1. vault[c] # Nil /\ handle[c] # "gone"
    BY DEF IInv, TypeOK, HandlesBacked, Live
  <2> QED
    BY <2>1 DEF GrantInv, CurrentRt
<1> QED
  BY <1>1, <1>2, <1>3, Inductive, PTL DEF Spec

-----------------------------------------------------------------------------
(* The mirror on disk.                                                     *)

Mirrored(c) ==
  /\ ConnOf[c] \in WriteBack /\ vault[c] # Nil /\ Sole(c)
  /\ lock[c] # Nil => pc[lock[c]] # "persist"
  => disk[ConnOf[c]].rt = vault[c].rt \/ ConnOf[c] \in unsaved

LEMMA MirrorByKeeper ==
  ASSUME IInv, Next, NEW r \in Requests, KeeperStep(r), Mirrored(on[r])
  PROVE  Mirrored(on[r])'
<1> DEFINE c == on[r]
           k == Conn(r)
<1>0. /\ pc[r] \notin {"idle", "finished"} /\ c \in Creds /\ k \in Conns /\ k = ConnOf[c]
      /\ vault[c] \in Material /\ vault[c] # Nil /\ on'[r] = on[r] /\ RequestOrder(r)
      /\ TypeOK /\ LockInv /\ LocalsSet(r)
  <2>1. pc[r] \notin {"idle", "finished"}
    BY DEF KeeperStep, OwnStep, TokenRequestEnds, CheckStale, LockStale, LockForced,
           RefreshSucceeds, RefreshRefused, RefreshUnavailable, RefreshAnswerLost, ReplaceCred,
           PersistRotation
  <2> QED
    BY <2>1, Served, OneMoves, ConstantsAssumption DEF Conn, IInv, TypeOK, OrderInv
<1>1. SUFFICES ASSUME k \in WriteBack, Sole(c)', lock'[c] # Nil => pc'[lock'[c]] # "persist"
               PROVE  disk'[k].rt = vault'[c].rt \/ k \in unsaved'
  BY <1>0 DEF Mirrored, Conn
<1>2. Sole(c)
  BY <1>0, <1>1, StillStored DEF Sole
<1> USE <1>0
<1>3. ASSUME pc[r] \in Locked PROVE lock[c] = r
  BY <1>3 DEF LockInv
<1>4. CASE PersistRotation(r)
  BY <1>4 DEF PersistRotation, RequestOrder, TypeOK, KeeperShape
<1>5. CASE ReplaceCred(r) /\ vault' # vault
  <2>1. /\ vault'[c] = answer[r] /\ lock[c] = r /\ pc[r] = "answered"
        /\ UNCHANGED <<disk, unsaved>>
    BY <1>3, <1>5 DEF ReplaceCred, Locked, TypeOK, KeeperShape
  <2>2. answer[r].rt = seen[r].rt
    BY <1>1, <1>5, <2>1, ConstantsAssumption DEF ReplaceCred, TypeOK, RequestShape
  <2>3. vault[c].rt = answer[r].rt
    <3>1. seen[r] \in Material /\ answer[r] \in Material
      BY <2>1 DEF LocalsSet, TypeOK, RequestShape
    <3> QED
      BY <2>1, <2>2, <3>1 DEF RequestOrder, Older
  <2> QED
    BY <1>1, <1>2, <2>1, <2>3, ConstantsAssumption DEF Mirrored
<1>6. CASE ~PersistRotation(r) /\ UNCHANGED vault
  <2>1. UNCHANGED <<disk, unsaved>>
    BY <1>6
       DEF KeeperStep, OwnStep, TokenRequestEnds, CheckStale, LockStale, LockForced,
           RefreshSucceeds, RefreshRefused, RefreshUnavailable, RefreshAnswerLost, FlagAndFail,
           Flagged, ReplaceCred, keeperVars
  <2>2. lock[c] # Nil => pc[lock[c]] # "persist"
    <3>1. CASE pc[r] \in Locked
      <4>1. pc[r] # "persist"
        BY <1>6
           DEF KeeperStep, OwnStep, TokenRequestEnds, CheckStale, LockStale, LockForced,
               RefreshSucceeds, RefreshRefused, RefreshUnavailable, RefreshAnswerLost, ReplaceCred
      <4> QED
        BY <1>3, <3>1, <4>1
    <3>2. CASE pc[r] \notin Locked
      <4>1. lock[c] # Nil => lock[c] \in Requests /\ lock[c] # r
        BY <3>2 DEF LockInv, TypeOK, KeeperShape
      <4>2. lock[c] # Nil => lock' = lock /\ pc'[lock[c]] = pc[lock[c]]
        <5>1. OthersKeepLocals(r)
          BY OneMoves DEF TypeOK
        <5>2. lock[c] # Nil => lock' = lock
          BY <3>2, LockMoves DEF Outside, Acquires, Inside, Releases
        <5> QED
          BY <4>1, <5>1, <5>2 DEF OthersKeepLocals
      <4> QED
        BY <1>1, <4>2
    <3> QED
      BY <3>1, <3>2
  <2> QED
    BY <1>1, <1>2, <1>6, <2>1, <2>2 DEF Mirrored
<1>7. PersistRotation(r) \/ ReplaceCred(r) \/ UNCHANGED vault
  BY DEF KeeperStep, OwnStep, TokenRequestEnds, CheckStale, LockStale, LockForced,
         RefreshSucceeds, RefreshRefused, RefreshUnavailable, RefreshAnswerLost, FlagAndFail,
         Flagged, keeperVars
<1> QED
  BY <1>4, <1>5, <1>6, <1>7

LEMMA MirrorKept ==
  ASSUME IInv, Next, MirrorInv
  PROVE  MirrorInv'
<1> SUFFICES ASSUME NEW c \in Creds PROVE Mirrored(c)'
  BY DEF MirrorInv, Mirrored
<1>0. Mirrored(c)
  BY DEF MirrorInv, Mirrored
<1>1. SUFFICES ASSUME vault'[c] # Nil, Sole(c)' PROVE Mirrored(c)'
  BY DEF Mirrored
<1>2. CASE vault[c] = Nil
  <2>1. vault'[c] = disk[ConnOf[c]] /\ UNCHANGED disk
    BY <1>1, <1>2, StoredFromDisk DEF Store, IInv, TypeOK, KeeperShape
  <2> QED
    BY <2>1 DEF Mirrored
<1>3. CASE vault[c] # Nil /\ \E r \in Requests : KeeperStep(r) /\ on[r] = c
  <2>1. PICK r \in Requests : KeeperStep(r) /\ on[r] = c
    BY <1>3
  <2>2. Mirrored(on[r])' /\ on'[r] = on[r]
    BY <1>0, <2>1, MirrorByKeeper, OneMoves
       DEF IInv, TypeOK, KeeperStep, OwnStep, TokenRequestEnds, CheckStale, LockStale, LockForced,
           RefreshSucceeds, RefreshRefused, RefreshUnavailable, RefreshAnswerLost, FlagAndFail,
           Flagged, ReplaceCred, PersistRotation
  <2> QED
    BY <2>1, <2>2 DEF Mirrored, Sole
<1>4. CASE vault[c] # Nil /\ \A r \in Requests : KeeperStep(r) => on[r] # c
  <2>1. QuietFor(c) /\ Sole(c)
    BY <1>1, <1>4, Quiet, StillStored
  <2> QED
    BY <1>0, <1>4, <2>1 DEF Mirrored, QuietFor
<1> QED
  BY <1>2, <1>3, <1>4

(* With no refresh under way, what a restart finds on disk is the refresh  *)
(* token the vault held, or the failed write was logged.                   *)
THEOREM MirrorIsCurrent == Spec => []MirrorFollowsVault
<1>1. Init => MirrorInv
  BY DEF Init, MirrorInv
<1>2. IInv /\ MirrorInv /\ [Next]_vars => MirrorInv'
  <2>1. MirrorInv /\ UNCHANGED vars => MirrorInv'
    BY DEF MirrorInv, Sole, vars, keeperVars, tokenVars, requestVars
  <2> QED
    BY <2>1, MirrorKept
<1>3. MirrorInv => MirrorFollowsVault
  BY DEF MirrorInv, MirrorFollowsVault
<1> QED
  BY <1>1, <1>2, <1>3, Inductive, PTL DEF Spec

=============================================================================
