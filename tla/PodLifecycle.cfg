SPECIFICATION Spec
CONSTANTS
  Pods = {p1}
  Clis = {c1, c2}
  Named = {strict}
  Derived = Derived
  Ambient = Nil
  Connectors = {"none", "l4"}
  MaxTokens = 2
  Nil = Nil
SYMMETRY CliSymmetry
INVARIANTS
  TypeOK
  LivePodIsGoverned
  NeverUngoverned
  TokensAreBehindTheLock
  DownLeavesNothing
