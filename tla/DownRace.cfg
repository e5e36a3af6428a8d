SPECIFICATION RegSpec
CONSTANTS
  Pods = {p1, p2}
  Handles = {h1, h2}
  EgressTokens = {e1}
  Methods <- MCMethods
  Policies <- MCPolicies
  Nil = Nil
INVARIANT
  DownRevokesAll
CHECK_DEADLOCK FALSE
