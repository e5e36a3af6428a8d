----------------------------- MODULE KeeperOAuth -----------------------------
(***************************************************************************)
(* The credential keeper's OAuth side: the vault, the handle registry, the *)
(* refresh of a stale access token (proactive, on the way to an upstream)  *)
(* and of a rejected one (reactive, after a 401), the per-credential lock  *)
(* both share, the on-disk mirror of rotated refresh tokens and the set of *)
(* connections that need `connect reauth`.                                 *)
(*                                                                         *)
(* Requests are the goroutines that serve one pod request each.  A pod     *)
(* owns one credential and one handle to it (poddled issues exactly one    *)
(* handle for every credential it stores), so a credential names both.     *)
(* Two pods on one connection own two credentials, both copied from the    *)
(* connection's material on disk.  Only a connection to an MCP server      *)
(* gives its credentials a WriteBackKey (applyMCPConnector); an HTTP       *)
(* connector's carry none (applyConnector), and then nothing is mirrored   *)
(* or flagged.                                                             *)
(*                                                                         *)
(* There is no clock.  A token is fresh (its expiry is more than           *)
(* refreshSkew away), has no known expiry, or is neither; time passing     *)
(* takes a token out of the fresh ones, a handle past its TTL and a        *)
(* credential out of the forced-refresh window, at any moment.             *)
(***************************************************************************)
EXTENDS Integers, FiniteSets

CONSTANTS
  Requests,   \* the pod requests
  Creds,      \* the credentials (one handle each) poddled may come to hold
  Conns,      \* the OAuth connections (WriteBackKey)
  ConnOf,     \* the connection a credential belongs to
  WriteBack,  \* the connections whose credentials carry a WriteBackKey
  Lifetimes,  \* what a minted access token may be: fresh, stale or unknown
  Rotations,  \* 1: the token endpoint issues a new refresh token, 0: it keeps it
  Faults,     \* what may go wrong: transient, lost, persist
  MaxMint,    \* bound on the access tokens minted for one connection
  Nil         \* no credential, no holder, no token

ASSUME ConstantsAssumption ==
  /\ ConnOf \in [Creds -> Conns] /\ WriteBack \subseteq Conns
  /\ Lifetimes \subseteq {"fresh", "stale", "unknown"}
  /\ Rotations \subseteq {0, 1}
  /\ Faults \subseteq {"transient", "lost", "persist"}
  /\ MaxMint \in Nat
  /\ Nil \notin Requests /\ Nil \notin Creds /\ Nil \notin [at : Nat, rt : Nat]

VARIABLES
  vault,        \* the sealed credential under each credID, Nil before Store
  handle,       \* each credential's handle: none, live, expired or gone
  lock,         \* the request that holds the per-credID mutex, or Nil
  forced,       \* the credentials inside minForcedRefreshInterval
  needsReauth,  \* the connections flagged for `connect reauth`
  disk,         \* the connection's newest OAuth material on disk
  unsaved,      \* the connections whose mirror write failed (and was logged)
  provider,     \* the authorization server's view of each connection's grant
  fresh,        \* the tokens whose expiry is more than refreshSkew away
  noExpiry,     \* the tokens issued without expires_in
  pc, on,       \* where a request is, and the credential it is for
  seen,         \* the credential it read before it took the lock
  used,         \* the credential whose access token it last injected
  answer,       \* the material the token endpoint answered it with
  retried       \* the requests in their one reactive retry

keeperVars == <<vault, handle, lock, forced, needsReauth, disk, unsaved>>
tokenVars == <<provider, fresh, noExpiry>>
requestVars == <<pc, on, seen, used, answer, retried>>
vars == <<keeperVars, tokenVars, requestVars>>

(* An access token and the refresh token issued beside it.  Serial numbers *)
(* stand for the opaque strings: a connection's at-th access token, its    *)
(* rt-th refresh token.  Equal serials are equal strings, so a token's     *)
(* fingerprint is its serial.                                              *)
Material == [at : Nat, rt : Nat]

(* The grant: how many access tokens it minted, the one refresh token that *)
(* is not yet consumed, and whether the family is still alive.             *)
Grant == [minted : Nat, rt : Nat, alive : BOOLEAN]

(* The requests that hold their credential's lock, and those the keeper    *)
(* works on.                                                               *)
Locked == {"refresh", "answered", "persist"}
InKeeper == {"read", "wait"} \union Locked

Conn(r) == ConnOf[on[r]]
Token(c) == <<ConnOf[c], vault[c].at>>

(* flagReauth: a connection without a WriteBackKey is never flagged.       *)
Flagged(k) == needsReauth \union ({k} \intersect WriteBack)
Live(c) == handle[c] = "live"

(* Resolve on a handle past its expiry removes the record.                 *)
DropExpired(c) == [handle EXCEPT ![c] = IF @ = "expired" THEN "gone" ELSE @]

Init ==
  /\ vault = [c \in Creds |-> Nil]
  /\ handle = [c \in Creds |-> "none"]
  /\ lock = [c \in Creds |-> Nil]
  /\ forced = {}
  /\ needsReauth = {}
  /\ disk = [k \in Conns |-> [at |-> 0, rt |-> 0]]
  /\ unsaved = {}
  /\ provider = [k \in Conns |-> [minted |-> 0, rt |-> 0, alive |-> TRUE]]
  /\ fresh = Conns \X {0}
  /\ noExpiry = {}
  /\ pc = [r \in Requests |-> "idle"]
  /\ on = [r \in Requests |-> Nil]
  /\ seen = [r \in Requests |-> Nil]
  /\ used = [r \in Requests |-> Nil]
  /\ answer = [r \in Requests |-> Nil]
  /\ retried = {}

-----------------------------------------------------------------------------
(* The control API.                                                        *)

(* Mutant: a handle for a credID the vault does not hold.                  *)
IssueHandleUnchecked(c) ==
  /\ handle[c] = "none"
  /\ handle' = [handle EXCEPT ![c] = "live"]
  /\ UNCHANGED <<vault, lock, forced, needsReauth, disk, unsaved, tokenVars, requestVars>>

(* `up` stores the connection's material as it is on disk; a store clears  *)
(* the connection's needs-reauth flag.                                     *)
Store(c) ==
  /\ vault[c] = Nil
  /\ vault' = [vault EXCEPT ![c] = disk[ConnOf[c]]]
  /\ needsReauth' = needsReauth \ {ConnOf[c]}
  /\ UNCHANGED <<handle, lock, forced, disk, unsaved, tokenVars, requestVars>>

IssueHandle(c) ==
  /\ vault[c] # Nil
  /\ handle[c] = "none"
  /\ handle' = [handle EXCEPT ![c] = "live"]
  /\ UNCHANGED <<vault, lock, forced, needsReauth, disk, unsaved, tokenVars, requestVars>>

Revoke(c) ==
  /\ handle[c] \in {"live", "expired"}
  /\ handle' = [handle EXCEPT ![c] = "gone"]
  /\ UNCHANGED <<vault, lock, forced, needsReauth, disk, unsaved, tokenVars, requestVars>>

-----------------------------------------------------------------------------
(* Time passing.                                                           *)

HandleExpires(c) ==
  /\ handle[c] = "live"
  /\ handle' = [handle EXCEPT ![c] = "expired"]
  /\ UNCHANGED <<vault, lock, forced, needsReauth, disk, unsaved, tokenVars, requestVars>>

TokenAges(t) ==
  /\ t \in fresh
  /\ fresh' = fresh \ {t}
  /\ UNCHANGED <<keeperVars, provider, noExpiry, requestVars>>

ForcedWindowEnds(c) ==
  /\ c \in forced
  /\ forced' = forced \ {c}
  /\ UNCHANGED <<vault, handle, lock, needsReauth, disk, unsaved, tokenVars, requestVars>>

-----------------------------------------------------------------------------
(* How a request moves on.                                                 *)

Finish(r) ==
  /\ pc' = [pc EXCEPT ![r] = "finished"]
  /\ seen' = [seen EXCEPT ![r] = Nil]
  /\ used' = [used EXCEPT ![r] = Nil]
  /\ answer' = [answer EXCEPT ![r] = Nil]
  /\ retried' = retried \ {r}

(* The header mutation for m goes back to the gateway, which sends (or     *)
(* replays) the request.                                                   *)
Inject(r, m) ==
  /\ pc' = [pc EXCEPT ![r] = "sent"]
  /\ seen' = [seen EXCEPT ![r] = Nil]
  /\ used' = [used EXCEPT ![r] = m]
  /\ answer' = [answer EXCEPT ![r] = Nil]
  /\ UNCHANGED retried

Unlock(r) == lock' = [lock EXCEPT ![on[r]] = Nil]

-----------------------------------------------------------------------------
(* InjectAuth.                                                             *)

(* The handle is resolved without the lock: what is read here may be       *)
(* superseded before the lock is taken.                                    *)
InjectAuth(r, c) ==
  /\ pc[r] = "idle"
  /\ handle[c] # "none"
  /\ handle' = DropExpired(c)
  /\ on' = [on EXCEPT ![r] = c]
  /\ IF Live(c)
     THEN /\ seen' = [seen EXCEPT ![r] = vault[c]]
          /\ pc' = [pc EXCEPT ![r] = "read"]
          /\ UNCHANGED <<used, answer, retried>>
     ELSE Finish(r)
  /\ UNCHANGED <<vault, lock, forced, needsReauth, disk, unsaved, tokenVars>>

(* refreshIfStale, before the lock: a token with no known expiry and one   *)
(* that is comfortably valid are injected as they are.                     *)
CheckStale(r) ==
  /\ pc[r] = "read"
  /\ IF <<Conn(r), seen[r].at>> \in fresh \union noExpiry
     THEN Inject(r, seen[r])
     ELSE /\ pc' = [pc EXCEPT ![r] = "wait"]
          /\ UNCHANGED <<seen, used, answer, retried>>
  /\ UNCHANGED <<keeperVars, tokenVars, on>>

(* Mutant: the lock is taken and the credential is not read again.         *)
LockStaleNoReread(r) ==
  /\ pc[r] = "wait"
  /\ r \notin retried
  /\ lock[on[r]] = Nil
  /\ lock' = [lock EXCEPT ![on[r]] = r]
  /\ pc' = [pc EXCEPT ![r] = "refresh"]
  /\ UNCHANGED <<vault, handle, forced, needsReauth, disk, unsaved, tokenVars, on,
                 seen, used, answer, retried>>

(* refreshIfStale, under the lock: a peer's token is reused only when the  *)
(* handle still resolves and the token's expiry is known and far enough;   *)
(* otherwise the refresh goes out with what was read before the lock.      *)
LockStale(r) ==
  LET c == on[r]
  IN /\ pc[r] = "wait"
     /\ r \notin retried
     /\ lock[c] = Nil
     /\ handle' = DropExpired(c)
     /\ IF Live(c) /\ Token(c) \in fresh
        THEN Inject(r, vault[c]) /\ UNCHANGED lock
        ELSE /\ lock' = [lock EXCEPT ![c] = r]
             /\ pc' = [pc EXCEPT ![r] = "refresh"]
             /\ UNCHANGED <<seen, used, answer, retried>>
     /\ UNCHANGED <<vault, forced, needsReauth, disk, unsaved, tokenVars, on>>

-----------------------------------------------------------------------------
(* The upstream's answer, and ForceReinject.                               *)

(* Anything but a 401, or a transport error: nothing more to do.           *)
UpstreamAnswers(r) ==
  /\ pc[r] = "sent"
  /\ Finish(r)
  /\ UNCHANGED <<keeperVars, tokenVars, on>>

(* The first 401 of a request: it is retried once, under a forced refresh. *)
UpstreamRejects(r) ==
  LET c == on[r]
  IN /\ pc[r] = "sent"
     /\ r \notin retried
     /\ handle' = DropExpired(c)
     /\ IF Live(c)
        THEN /\ seen' = [seen EXCEPT ![r] = vault[c]]
             /\ pc' = [pc EXCEPT ![r] = "wait"]
             /\ retried' = retried \union {r}
             /\ UNCHANGED <<used, answer>>
        ELSE Finish(r)
     /\ UNCHANGED <<vault, lock, forced, needsReauth, disk, unsaved, tokenVars, on>>

(* A 401 of the retry too: the grant is taken for dead.                    *)
UpstreamRejectsRetry(r) ==
  LET c == on[r]
  IN /\ pc[r] = "sent"
     /\ r \in retried
     /\ handle' = DropExpired(c)
     /\ needsReauth' = IF Live(c) THEN Flagged(ConnOf[c]) ELSE needsReauth
     /\ Finish(r)
     /\ UNCHANGED <<vault, lock, forced, disk, unsaved, tokenVars, on>>

(* forceRefresh: a token that is not the rejected one is a peer's, and a   *)
(* second forced refresh within the window achieves nothing; both reuse    *)
(* what the vault holds.                                                   *)
LockForced(r) ==
  LET c == on[r]
  IN /\ pc[r] = "wait"
     /\ r \in retried
     /\ lock[c] = Nil
     /\ handle' = DropExpired(c)
     /\ IF Live(c) /\ (vault[c].at # used[r].at \/ c \in forced)
        THEN Inject(r, vault[c]) /\ UNCHANGED <<lock, forced>>
        ELSE /\ lock' = [lock EXCEPT ![c] = r]
             /\ forced' = forced \union {c}
             /\ pc' = [pc EXCEPT ![r] = "refresh"]
             /\ UNCHANGED <<seen, used, answer, retried>>
     /\ UNCHANGED <<vault, needsReauth, disk, unsaved, tokenVars, on>>

-----------------------------------------------------------------------------
(* rotate: the token request, and what follows its answer.  The lock is    *)
(* held from here to persistRotation.                                      *)

(* The token endpoint honours the grant's current refresh token and may    *)
(* rotate it.                                                              *)
Mint(k, life, rotation) ==
  LET n == provider[k].minted + 1
  IN /\ n <= MaxMint
     /\ provider' = [provider EXCEPT ![k].minted = n, ![k].rt = @ + rotation]
     /\ fresh' = IF life = "fresh" THEN fresh \union {<<k, n>>} ELSE fresh
     /\ noExpiry' = IF life = "unknown" THEN noExpiry \union {<<k, n>>} ELSE noExpiry

Honoured(r) == provider[Conn(r)].alive /\ seen[r].rt = provider[Conn(r)].rt

(* Mutant: the lock is let go around the token request.                    *)
RefreshSucceedsUnlocked(r) ==
  /\ pc[r] = "refresh"
  /\ Honoured(r)
  /\ \E life \in Lifetimes, rotation \in Rotations : Mint(Conn(r), life, rotation)
  /\ answer' = [answer EXCEPT ![r] = [at |-> provider'[Conn(r)].minted,
                                      rt |-> provider'[Conn(r)].rt]]
  /\ pc' = [pc EXCEPT ![r] = "answered"]
  /\ Unlock(r)
  /\ UNCHANGED <<vault, handle, forced, needsReauth, disk, unsaved, on, seen, used, retried>>

RefreshSucceeds(r) ==
  /\ pc[r] = "refresh"
  /\ Honoured(r)
  /\ \E life \in Lifetimes, rotation \in Rotations : Mint(Conn(r), life, rotation)
  /\ answer' = [answer EXCEPT ![r] = [at |-> provider'[Conn(r)].minted,
                                      rt |-> provider'[Conn(r)].rt]]
  /\ pc' = [pc EXCEPT ![r] = "answered"]
  /\ UNCHANGED <<keeperVars, on, seen, used, retried>>

(* Mutants: the connection is not flagged; the lock is not released.       *)
FailUnflagged(r) ==
  /\ Unlock(r)
  /\ Finish(r)
  /\ UNCHANGED <<vault, handle, forced, needsReauth, disk, unsaved, on>>

FailLocked(r) ==
  /\ needsReauth' = Flagged(Conn(r))
  /\ Finish(r)
  /\ UNCHANGED <<vault, handle, lock, forced, disk, unsaved, on>>

(* What rotate does with an error from the token endpoint: a connection    *)
(* that has a WriteBackKey is flagged.                                     *)
FlagAndFail(r) ==
  /\ needsReauth' = Flagged(Conn(r))
  /\ Unlock(r)
  /\ Finish(r)
  /\ UNCHANGED <<vault, handle, forced, disk, unsaved, on>>

(* A consumed refresh token, or one of a dead family, is refused, and      *)
(* presenting a consumed one kills the family (reuse detection).           *)
RefreshRefused(r) ==
  /\ pc[r] = "refresh"
  /\ ~Honoured(r)
  /\ provider' = [provider EXCEPT ![Conn(r)].alive = FALSE]
  /\ FlagAndFail(r)
  /\ UNCHANGED <<fresh, noExpiry>>

(* The endpoint is unreachable, or the request's context ends first.       *)
RefreshUnavailable(r) ==
  /\ "transient" \in Faults
  /\ pc[r] = "refresh"
  /\ FlagAndFail(r)
  /\ UNCHANGED tokenVars

(* The endpoint rotates and its answer is lost.                            *)
RefreshAnswerLost(r) ==
  /\ "lost" \in Faults
  /\ pc[r] = "refresh"
  /\ Honoured(r)
  /\ \E life \in Lifetimes, rotation \in Rotations : Mint(Conn(r), life, rotation)
  /\ FlagAndFail(r)

(* Mutant: the rotated refresh token stays in memory.                      *)
ReplaceCredUnmirrored(r) ==
  /\ pc[r] = "answered"
  /\ IF handle[on[r]] = "gone"
     THEN Finish(r) /\ UNCHANGED vault
     ELSE vault' = [vault EXCEPT ![on[r]] = answer[r]] /\ Inject(r, answer[r])
  /\ Unlock(r)
  /\ UNCHANGED <<handle, forced, needsReauth, disk, unsaved, tokenVars, on>>

(* ReplaceCred looks the handle up but not its expiry.  A revoked handle   *)
(* ends the rotation here: nothing is stored, persisted or flagged.  There *)
(* is nothing to persist if the refresh token is the old one, or if the    *)
(* connection has no WriteBackKey.                                         *)
ReplaceCred(r) ==
  LET c == on[r]
  IN /\ pc[r] = "answered"
     /\ IF handle[c] = "gone"
        THEN Unlock(r) /\ Finish(r) /\ UNCHANGED vault
        ELSE /\ vault' = [vault EXCEPT ![c] = answer[r]]
             /\ IF answer[r].rt = seen[r].rt \/ Conn(r) \notin WriteBack
                THEN Unlock(r) /\ Inject(r, answer[r])
                ELSE /\ pc' = [pc EXCEPT ![r] = "persist"]
                     /\ UNCHANGED <<lock, seen, used, answer, retried>>
     /\ UNCHANGED <<handle, forced, needsReauth, disk, unsaved, tokenVars, on>>

(* persistRotation: best effort, a failure is logged and the request goes  *)
(* on with the new token.                                                  *)
PersistRotation(r) ==
  LET k == Conn(r)
  IN /\ pc[r] = "persist"
     /\ \/ disk' = [disk EXCEPT ![k] = answer[r]] /\ unsaved' = unsaved \ {k}
        \/ /\ "persist" \in Faults
           /\ unsaved' = unsaved \union {k} /\ UNCHANGED disk
     /\ Unlock(r)
     /\ Inject(r, answer[r])
     /\ UNCHANGED <<vault, handle, forced, needsReauth, tokenVars, on>>

-----------------------------------------------------------------------------
Control(c) == Store(c) \/ IssueHandle(c) \/ Revoke(c)

Time == \/ \E c \in Creds : HandleExpires(c) \/ ForcedWindowEnds(c)
        \/ \E t \in fresh : TokenAges(t)

(* What the keeper does for a request by itself, and how a token request   *)
(* ends, if it does.                                                       *)
OwnStep(r) ==
  CheckStale(r) \/ LockStale(r) \/ LockForced(r) \/ ReplaceCred(r) \/ PersistRotation(r)

TokenRequestEnds(r) ==
  RefreshSucceeds(r) \/ RefreshRefused(r) \/ RefreshUnavailable(r) \/ RefreshAnswerLost(r)

KeeperStep(r) == OwnStep(r) \/ TokenRequestEnds(r)

Upstream(r) == UpstreamAnswers(r) \/ UpstreamRejects(r) \/ UpstreamRejectsRetry(r)

Next ==
  \/ \E c \in Creds : Control(c)
  \/ Time
  \/ \E r \in Requests, c \in Creds : InjectAuth(r, c)
  \/ \E r \in Requests : KeeperStep(r) \/ Upstream(r)

Spec == Init /\ [][Next]_vars

(* The keeper's goroutines run.  Nothing is assumed of the token endpoint: *)
(* in the in-process broker a token request has no deadline, only the      *)
(* pod's own request to end it.                                            *)
KeeperFairness == \A r \in Requests : WF_vars(OwnStep(r))
-----------------------------------------------------------------------------
(* The shape of every reachable state, part by part; where a request is    *)
(* determines which of its locals are set.                                 *)
KeeperShape ==
  /\ vault \in [Creds -> Material \union {Nil}]
  /\ handle \in [Creds -> {"none", "live", "expired", "gone"}]
  /\ lock \in [Creds -> Requests \union {Nil}]
  /\ forced \subseteq Creds
  /\ needsReauth \subseteq Conns /\ unsaved \subseteq Conns
  /\ disk \in [Conns -> Material]

HandlesBacked == \A c \in Creds : handle[c] # "none" => vault[c] # Nil

TokenShape ==
  /\ provider \in [Conns -> Grant]
  /\ fresh \subseteq Conns \X Nat /\ noExpiry \subseteq Conns \X Nat

RequestShape ==
  /\ pc \in [Requests -> {"idle", "read", "wait", "refresh", "answered", "persist",
                          "sent", "finished"}]
  /\ on \in [Requests -> Creds \union {Nil}]
  /\ seen \in [Requests -> Material \union {Nil}]
  /\ used \in [Requests -> Material \union {Nil}]
  /\ answer \in [Requests -> Material \union {Nil}]
  /\ retried \subseteq Requests

LocalsSet(r) ==
  /\ pc[r] \notin {"idle", "finished"} => on[r] # Nil /\ handle[on[r]] # "none"
  /\ pc[r] \in {"read", "wait", "refresh", "answered", "persist"} => seen[r] # Nil
  /\ pc[r] \in {"answered", "persist"} => answer[r] # Nil
  /\ pc[r] = "sent" \/ r \in retried => used[r] # Nil

TypeOK ==
  /\ KeeperShape /\ HandlesBacked /\ TokenShape /\ RequestShape
  /\ \A r \in Requests : LocalsSet(r)

(* A refresh spends the refresh token the vault holds now, although the    *)
(* request read it before it waited for the lock.  The only exceptions are *)
(* a handle that no longer resolves and, on the proactive path, a peer's   *)
(* token that is already stale or came without an expiry: then the code    *)
(* falls back on what it read before the lock.                             *)
RefreshSpendsLiveCredential ==
  \A r \in Requests :
    pc[r] = "refresh" =>
      \/ seen[r] = vault[on[r]]
      \/ ~Live(on[r])
      \/ r \notin retried /\ Token(on[r]) \notin fresh

(* No rotation puts an older token over a newer one: whatever the order in *)
(* which racing requests get their answers, what the vault holds under a   *)
(* credID only moves forward.                                              *)
VaultMovesForward ==
  [][\A c \in Creds : vault[c] # Nil => vault'[c].at >= vault[c].at]_vars

Sole(c) == \A d \in Creds \ {c} : ConnOf[d] = ConnOf[c] => vault[d] = Nil

(* A pod whose handle works, alone on a connection with a WriteBackKey and *)
(* with no refresh under way, holds the grant's current refresh token, or  *)
(* operators are told: the connection is flagged for reauth.  Whatever     *)
(* went wrong (a lost answer, a replayed token, a dead family) does not go *)
(* unnoticed.                                                              *)
LostGrantIsFlagged ==
  \A c \in Creds :
    ConnOf[c] \in WriteBack /\ Live(c) /\ lock[c] = Nil /\ Sole(c) =>
      \/ provider[ConnOf[c]].alive /\ vault[c].rt = provider[ConnOf[c]].rt
      \/ ConnOf[c] \in needsReauth

(* With no refresh under way, the mirror on disk has the refresh token of  *)
(* the one credential of a connection with a WriteBackKey, or its write    *)
(* failed and was logged: what a restart finds is what the vault held.     *)
MirrorFollowsVault ==
  \A c \in Creds :
    ConnOf[c] \in WriteBack /\ vault[c] # Nil /\ lock[c] = Nil /\ Sole(c) =>
      \/ disk[ConnOf[c]].rt = vault[c].rt
      \/ ConnOf[c] \in unsaved

(* Some token request for r's credential never ends.                       *)
EndpointSilent(r) == <>[](\E q \in Requests : pc[q] = "refresh" /\ on[q] = on[r])

(* Every request the keeper works on comes back to its caller, unless a    *)
(* token request for the same credential hangs for ever, which only the    *)
(* two-process keeper has a timeout against.  Nothing else keeps the       *)
(* credential's lock or leaves a waiter behind.                            *)
KeeperAnswers ==
  \A r \in Requests :
    (pc[r] \in InKeeper ~> pc[r] \in {"sent", "finished"}) \/ EndpointSilent(r)

(* keeper.go's promise for racing requests: while a pod's handle works and *)
(* its connection is not flagged, no request presents a refresh token the  *)
(* provider has already consumed.                                          *)
NoRefreshTokenReplay ==
  \A r \in Requests :
    pc[r] = "refresh" /\ Live(on[r]) => Honoured(r) \/ Conn(r) \in needsReauth

(* oauthpersist.go's promise: with no refresh under way, the grant's       *)
(* current refresh token is on disk, unless the mirror's write failed or   *)
(* the connection is flagged.                                              *)
RotationSurvives ==
  \A c \in Creds :
    lock[c] = Nil /\ Sole(c) =>
      \/ disk[ConnOf[c]].rt = provider[ConnOf[c]].rt
      \/ ConnOf[c] \in needsReauth \union unsaved
=============================================================================
