SPECIFICATION AllFairSpec
CONSTANTS
  Requests = {r1, r2, r3}
  Creds = {c1}
  k1 = k1
  Conns = {k1}
  ConnOf <- MCConnOf
  WriteBack = {k1}
  Lifetimes = {"fresh"}
  Rotations = {1}
  Faults = {"transient"}
  MaxMint = 1
  Nil = Nil
  AutoPods = {g1}
  Ups = {u1, u2}
  Sustain = 2
  CoolTicks = 2
  MaxStarting = 2
  FlowTimeout = 8
  Intervals = {0, 2}
  CodeLives = {0, 3}
INVARIANTS
  AutoscalerRuns
  ActsOnlyWhenDue
  FlowHonest
PROPERTIES
  KeeperAnswers
  GrowsUnderPressure
  FlowEnds
CHECK_DEADLOCK FALSE
