---------------------------- MODULE CertAuthority ----------------------------
(***************************************************************************)
(* The interception CA: two files written one after the other by a broker  *)
(* that may crash in between, read back by its next start and by up, which *)
(* puts the certificate in a pod's trust store; and the leaves signed with *)
(* it, cached by the keeper and again by the front.                        *)
(*                                                                         *)
(* A file is missing, torn by a crash or a failed write, or the one of the *)
(* n-th CA; whether a start can read one that is there is a choice.  A     *)
(* leaf is the time it has left.                                           *)
(***************************************************************************)
EXTENDS Naturals, Sequences, SequencesExt

CONSTANTS
  CAPods,      \* pods whose policy intercepts
  Hosts,       \* names leaves are minted for
  Conns,       \* intercepted connections
  MaxCAs,      \* bound: CAs generated
  LeafTTL,     \* a fresh leaf's life
  RenewBefore, \* what a cached leaf must have left
  LeafCap      \* how many leaves the keeper caches

ASSUME CAAssumption ==
  /\ MaxCAs \in Nat /\ LeafTTL \in Nat /\ RenewBefore \in Nat /\ LeafCap \in Nat
  /\ 0 < RenewBefore /\ RenewBefore < LeafTTL /\ LeafCap > 0
  /\ Hosts # {}

VARIABLES
  certFile, keyFile, \* what is on disk
  start,    \* the broker: down, writing the certificate or the key, up
  authority,\* the CA it has loaded, 0 if none: interception is unavailable
  newest,   \* how many CAs have been generated
  mounted,  \* the pods with the certificate's file mounted
  trust,    \* pod -> the CA in its trust store, 0 if none
  sound,    \* history: those mounted while the broker could sign, until a
            \* start that finds the key and cannot read it
  lru,      \* the keeper's leaves, most recently used first
  front,    \* the front's leaves: host -> time left, NoLeaf if none
  shake     \* an intercepted connection: where it is, for which host, the
            \* time left of its leaf when the keeper gave it, and when shown

fileVars == <<certFile, keyFile, start, authority, newest>>
leafVars == <<lru, front, shake>>
podVars == <<mounted, trust, sound>>
caVars == <<fileVars, podVars, leafVars>>

Missing == MaxCAs + 1
Torn == MaxCAs + 2
Mismatch == MaxCAs + 3  \* a certificate loaded with another CA's key
NoLeaf == LeafTTL + 1

NoShake == [at |-> "idle", host |-> CHOOSE h \in Hosts : TRUE, given |-> NoLeaf,
            shown |-> NoLeaf]

CAInit ==
  /\ certFile = Missing /\ keyFile = Missing
  /\ start = "down" /\ authority = 0 /\ newest = 0
  /\ mounted = {} /\ trust = [p \in CAPods |-> 0] /\ sound = {}
  /\ lru = << >>
  /\ front = [h \in Hosts |-> NoLeaf]
  /\ shake = [c \in Conns |-> NoShake]

-----------------------------------------------------------------------------
(* Loading.                                                                *)

Good(f) == f # Missing /\ f # Torn

Up(ca) == start' = "up" /\ authority' = ca

Loaded ==
  IF ~Good(certFile) \/ ~Good(keyFile) THEN 0
  ELSE IF certFile = keyFile THEN certFile ELSE Mismatch

(* Both files can be read: they are the CA, or the load fails and the      *)
(* broker comes up without one; as it does when the certificate is there   *)
(* and cannot be read.                                                     *)
LoadFiles ==
  /\ start = "down" /\ certFile # Missing
  /\ \/ keyFile # Missing /\ Up(Loaded)
     \/ Up(0)
  /\ UNCHANGED <<certFile, keyFile, newest, podVars, leafVars>>

(* One of them is missing, or the key is there and cannot be read: a new   *)
(* CA takes their place.                                                   *)
Generate ==
  /\ start = "down"
  /\ newest < MaxCAs
  /\ start' = "cert" /\ newest' = newest + 1
  /\ sound' = IF Missing \in {certFile, keyFile} THEN sound ELSE {}
  /\ UNCHANGED <<certFile, keyFile, authority, mounted, trust, leafVars>>

(* A write that fails leaves the broker without a CA.                      *)
WriteCert ==
  /\ start = "cert"
  /\ \/ certFile' = newest /\ start' = "key" /\ UNCHANGED authority
     \/ certFile' \in {certFile, Torn} /\ Up(0)
  /\ UNCHANGED <<keyFile, newest, podVars, leafVars>>

(* Mutant: the broker goes on with the CA it has not been able to store.   *)
WriteKeyAnyway ==
  /\ start = "key"
  /\ keyFile' \in {keyFile, Torn, newest} /\ Up(newest)
  /\ UNCHANGED <<certFile, newest, podVars, leafVars>>

WriteKey ==
  /\ start = "key"
  /\ \/ keyFile' = newest /\ Up(newest)
     \/ keyFile' \in {keyFile, Torn} /\ Up(0)
  /\ UNCHANGED <<certFile, newest, podVars, leafVars>>

(* The broker goes down, in the middle of a write if there is one, and its *)
(* leaves with it.                                                         *)
CACrash ==
  /\ start # "down"
  /\ start' = "down" /\ authority' = 0
  /\ certFile' \in IF start = "cert" THEN {certFile, Torn} ELSE {certFile}
  /\ keyFile' \in IF start = "key" THEN {keyFile, Torn} ELSE {keyFile}
  /\ lru' = << >> /\ front' = [h \in Hosts |-> NoLeaf]
  /\ shake' = [c \in Conns |-> NoShake]
  /\ UNCHANGED <<newest, podVars>>

(* up makes a pod with an intercepting policy, which the broker has taken: *)
(* the certificate is there and gets mounted.                              *)
InjectEgressCA(p) ==
  /\ start = "up" /\ p \notin mounted /\ certFile # Missing
  /\ mounted' = mounted \union {p}
  /\ sound' = IF authority \in 1..MaxCAs THEN sound \union {p} ELSE sound
  /\ UNCHANGED <<fileVars, trust, leafVars>>

(* The pod's setup copies it to its trust store, as it is by then.         *)
TrustCopy(p) ==
  /\ p \in mounted /\ trust[p] = 0
  /\ trust' = [trust EXCEPT ![p] = certFile]
  /\ UNCHANGED <<fileVars, mounted, sound, leafVars>>

-----------------------------------------------------------------------------
(* Leaves.                                                                 *)

Cached(h) == \E i \in 1..Len(lru) : lru[i].host = h

Place(h) == CHOOSE i \in 1..Len(lru) : lru[i].host = h

LeftOf(h) == lru[Place(h)].left

Others(h) == IF Cached(h) THEN RemoveAt(lru, Place(h)) ELSE lru

Fresh(h) == Cached(h) /\ LeftOf(h) >= RenewBefore

(* Mutant: the least recently used leaf is not evicted.                    *)
PutUnbounded(h, left) == <<[host |-> h, left |-> left]>> \o Others(h)

Put(h, left) ==
  LET new == <<[host |-> h, left |-> left]>> \o Others(h)
  IN SubSeq(new, 1, IF Len(new) < LeafCap THEN Len(new) ELSE LeafCap)

(* The front has a leaf for the name: for good, its age does not matter.   *)
FrontHit(c, h) ==
  /\ shake[c].at = "idle" /\ authority # 0 /\ front[h] # NoLeaf
  /\ shake' = [shake EXCEPT ![c] = [@ EXCEPT !.host = h, !.at = "shown", !.shown = front[h]]]
  /\ UNCHANGED <<fileVars, podVars, lru, front>>

FrontMiss(c, h) ==
  /\ shake[c].at = "idle" /\ authority # 0 /\ front[h] = NoLeaf
  /\ shake' = [shake EXCEPT ![c] = [@ EXCEPT !.host = h, !.at = "asked"]]
  /\ UNCHANGED <<fileVars, podVars, lru, front>>

(* The keeper's side, under its mutex: a hit moves to the front of the     *)
(* list, a stale entry is minted anew.  Nothing is signed with a key that  *)
(* is not the certificate's.                                               *)
SignLeaf(c) ==
  LET h == shake[c].host
      left == IF Fresh(h) THEN LeftOf(h) ELSE LeafTTL
  IN /\ shake[c].at = "asked" /\ authority # Mismatch
     /\ lru' = Put(h, left)
     /\ shake' = [shake EXCEPT ![c].at = "given", ![c].given = left]
     /\ UNCHANGED <<fileVars, podVars, front>>

FrontPut(c) ==
  /\ shake[c].at = "given"
  /\ front' = [front EXCEPT ![shake[c].host] = shake[c].given]
  /\ shake' = [shake EXCEPT ![c].at = "shown", ![c].shown = shake[c].given]
  /\ UNCHANGED <<fileVars, podVars, lru>>

(* The keeper has no leaf to give, or the connection is over.              *)
Hangup(c) ==
  /\ shake[c].at \in {"asked", "shown"}
  /\ shake' = [shake EXCEPT ![c] = NoShake]
  /\ UNCHANGED <<fileVars, podVars, lru, front>>

Older(left) == IF left \in {0, NoLeaf} THEN left ELSE left - 1

(* A leaf is shown as soon as the front has it, so only what is cached     *)
(* ages.                                                                   *)
Age ==
  /\ start = "up"
  /\ \A c \in Conns : shake[c].at # "given"
  /\ lru' = [i \in 1..Len(lru) |-> [lru[i] EXCEPT !.left = Older(@)]]
  /\ front' = [h \in Hosts |-> Older(front[h])]
  /\ UNCHANGED <<fileVars, podVars, shake>>

CALoad == LoadFiles \/ Generate \/ WriteCert \/ WriteKey

Handshake(c) ==
  \/ \E h \in Hosts : FrontHit(c, h) \/ FrontMiss(c, h)
  \/ SignLeaf(c) \/ FrontPut(c) \/ Hangup(c)

CANext ==
  \/ CALoad \/ CACrash \/ Age
  \/ \E p \in CAPods : InjectEgressCA(p) \/ TrustCopy(p)
  \/ \E c \in Conns : Handshake(c)

CASpec == CAInit /\ [][CANext]_caVars

-----------------------------------------------------------------------------
Lefts == 0..NoLeaf

CATypeOK ==
  /\ certFile \in (1..MaxCAs) \union {Missing, Torn}
  /\ keyFile \in (1..MaxCAs) \union {Missing, Torn}
  /\ start \in {"down", "cert", "key", "up"}
  /\ authority \in (0..newest) \union {Mismatch} /\ newest \in 0..MaxCAs
  /\ trust \in [CAPods -> (0..MaxCAs) \union {Torn}]
  /\ sound \subseteq mounted /\ mounted \subseteq CAPods
  /\ lru \in Seq([host : Hosts, left : Lefts]) /\ Len(lru) <= LeafCap
  /\ front \in [Hosts -> Lefts]
  /\ shake \in [Conns -> [at : {"idle", "asked", "given", "shown"}, host : Hosts,
                          given : Lefts, shown : Lefts]]

(* A pod made while the broker could sign trusts the CA the broker signs   *)
(* with, or the broker does not intercept at all, whatever crashes, failed *)
(* writes and certificates that cannot be read come after: a CA that has   *)
(* once loaded is replaced by nothing but a start that finds its key and   *)
(* cannot read it.                                                         *)
PodTrustsBroker ==
  \A p \in sound :
    /\ trust[p] \in {0, certFile}
    /\ start = "up" => authority \in {0, certFile}

(* No handshake is shown an expired leaf.                                  *)
NoExpiredLeaf == \A c \in Conns : shake[c].shown > 0
=============================================================================
