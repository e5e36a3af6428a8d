------------------------------ MODULE PolicyRules ------------------------------
(***************************************************************************)
(* What a policy says of a request: Decide, with its host matching.        *)
(*                                                                         *)
(* A host is its labels from the root down and how it is spelled: letter   *)
(* case and trailing dots make several spellings of one name.  A pattern   *)
(* is a host, or a dot and a host, which stands for its subdomains too.    *)
(***************************************************************************)
EXTENDS Naturals, Sequences

CONSTANTS
  Labels,    \* what a host is made of
  Names,     \* hosts, each a sequence of labels
  Spellings, \* how they may be written
  Plain,     \* the spelling that DNS resolves
  Verbs      \* request methods; CONNECT is one more

ASSUME RulesAssumption == Plain \in Spellings /\ Names \subseteq Seq(Labels)

VARIABLE
  asked  \* the last request: its policy, host, method, and the verdict

WrittenHosts == [of : Names, as : Spellings]

Patterns == [of : Names, as : Spellings, sub : BOOLEAN]

(* The keys of a policy's method rules, the catch-all among them.          *)
Star == [of |-> << >>, as |-> Plain, sub |-> TRUE]
Keys == Patterns \union {Star}

(* Mutant: names are compared as they are written.                         *)
CanonicalHostAsIs(h) == h

CanonicalHost(h) == [h EXCEPT !.as = Plain]

(* The text of the host ends in the pattern's, after a dot.                *)
HasSuffix(h, p) ==
  h.as = p.as /\ Len(p.of) <= Len(h.of) /\ SubSeq(h.of, 1, Len(p.of)) = p.of

Same(h, p) == h.of = p.of /\ h.as = p.as

Matches(host, pattern) ==
  LET h == CanonicalHost(host)
      p == CanonicalHost(pattern)
  IN (~p.sub /\ Same(h, p)) \/ (p.sub /\ HasSuffix(h, p))

MatchHost(host, patterns) == \E p \in patterns : Matches(host, p)

(* The methods a host may be left with: those of its own rule, or else of  *)
(* a suffix's, whichever the map yields first, or else of the catch-all.   *)
MethodsFor(methods, host) ==
  LET rules == DOMAIN methods \ {Star}
      exact == {k \in rules : ~k.sub /\ Matches(host, k)}
      suffix == {k \in rules : k.sub /\ Matches(host, k)}
      best == IF exact # {} THEN exact ELSE IF suffix # {} THEN suffix
              ELSE DOMAIN methods \intersect {Star}
  IN {methods[k] : k \in best}

(* The verdicts the code may come to.                                      *)
Verdicts(policy, host, verb) ==
  LET found == MethodsFor(policy.methods, host)
      judged == {verb = "CONNECT" \/ verb \in ms : ms \in found}
  IN IF MatchHost(host, policy.deny) THEN {FALSE}
     ELSE IF policy.allow # {} /\ ~MatchHost(host, policy.allow) THEN {FALSE}
     ELSE IF found = {} THEN {TRUE} ELSE judged

-----------------------------------------------------------------------------
(* Policies with at most one entry of a kind, and two method rules.        *)

Small(S) == {{}} \union {{x} : x \in S}

MethodRules ==
  UNION {[ks -> {{v} : v \in Verbs}] : ks \in {{}} \union {{a, b} : a, b \in Keys}}

Nothing == [of |-> << >>, as |-> Plain]

RulesInit ==
  asked = [policy |-> [deny |-> {}, allow |-> {}, methods |-> << >>],
           host |-> Nothing, verb |-> "CONNECT", verdict |-> TRUE]

(* A policy with host rules, or one with method rules.                     *)
Ask(policy, host, verb) ==
  /\ asked.host = Nothing
  /\ \E v \in Verdicts(policy, host, verb) :
       asked' = [policy |-> policy, host |-> host, verb |-> verb, verdict |-> v]

AskAgain ==
  /\ asked.host # Nothing
  /\ asked' = [policy |-> [deny |-> {}, allow |-> {}, methods |-> << >>],
               host |-> Nothing, verb |-> "CONNECT", verdict |-> TRUE]

RulesNext ==
  \/ AskAgain
  \/ \E host \in WrittenHosts, verb \in Verbs \union {"CONNECT"} :
       \/ \E d, a \in Small(Patterns) : Ask([deny |-> d, allow |-> a, methods |-> << >>], host, verb)
       \/ \E m \in MethodRules : Ask([deny |-> {}, allow |-> {}, methods |-> m], host, verb)

RulesSpec == RulesInit /\ [][RulesNext]_asked

-----------------------------------------------------------------------------
(* What the rules mean, told of names alone: a rule covers a name that is  *)
(* its own or lies below it.                                               *)

LiesBelow(name, top) == \E rest \in {SubSeq(name, i, Len(name)) : i \in 1..(Len(name) + 1)} : name = top \o rest

Covers(p, name) == IF p.sub THEN LiesBelow(name, p.of) ELSE name = p.of

DecidedByName(policy, name, verb, verdict) ==
  LET hit == {k \in DOMAIN policy.methods : Covers(k, name)}
      rank(k) == IF k = Star THEN 0 ELSE IF k.sub THEN 1 ELSE 2
      first == {k \in hit : \A o \in hit : rank(o) <= rank(k)}
      denied == \E p \in policy.deny : Covers(p, name)
      listed == policy.allow = {} \/ \E p \in policy.allow : Covers(p, name)
      free == verb = "CONNECT" \/ hit = {}
  IN IF verdict
     THEN ~denied /\ listed /\ (free \/ \E k \in first : verb \in policy.methods[k])
     ELSE denied \/ ~listed \/ (~free /\ \E k \in first : verb \notin policy.methods[k])

(* The verdict depends on the name that is asked for and not on how host   *)
(* or rule are spelled; a denied name is refused, so is one off a list of  *)
(* allowed ones; and a name's own method rule is the one that counts, then *)
(* a domain's, then the catch-all.                                         *)
DecideByName == DecidedByName(asked.policy, asked.host.of, asked.verb, asked.verdict)
=====
