SPECIFICATION Spec
CONSTANTS
  Requests = {r1, r2}
  Creds = {c1}
  k1 = k1
  Conns = {k1}
  ConnOf <- MCConnOf
  WriteBack = {k1}
  Lifetimes = {"fresh"}
  Rotations = {1}
  Faults = {"transient"}
  MaxMint = 2
  Nil = Nil
INVARIANT
  RotationSurvives
CHECK_DEADLOCK FALSE
