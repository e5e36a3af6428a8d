SPECIFICATION Spec
CONSTANTS
  Requests = {r1, r2}
  Creds = {c1, c2}
  k1 = k1
  Conns = {k1}
  ConnOf <- MCConnOf
  WriteBack = {k1}
  Lifetimes = {"fresh", "unknown"}
  Rotations = {0, 1}
  Faults = {"transient", "lost", "persist"}
  MaxMint = 2
  Nil = Nil
INVARIANTS
  TypeOK
  RefreshSpendsLiveCredential
  LostGrantIsFlagged
  MirrorFollowsVault
PROPERTIES
  VaultMovesForward

SYMMETRY Symmetry
CHECK_DEADLOCK FALSE
