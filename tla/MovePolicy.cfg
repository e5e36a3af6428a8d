SPECIFICATION Spec
CONSTANTS
  Pods = {p1}
  Clis = {c1}
  Named = {strict}
  Derived = Derived
  Ambient = Nil
  Connectors = {"none"}
  MaxTokens = 3
  Nil = Nil
INVARIANT
  MovePreservesGovernance
CHECK_DEADLOCK FALSE
