---------------------------- MODULE MCKeeperOAuth ----------------------------
(* Two pods on one connection: the second one copies the first one's       *)
(* material from disk, whenever it comes up.                               *)
EXTENDS KeeperOAuth, TLC

CONSTANT k1

MCConnOf == [c \in Creds |-> k1]

Symmetry == Permutations(Requests)
=============================================================================
