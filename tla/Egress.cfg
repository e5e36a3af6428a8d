SPECIFICATION MCSpec
CONSTANTS
  Pods = {p1}
  Handles = {h1}
  EgressTokens = {e1}
  Methods <- MCMethods
  Policies <- MCPolicies
  Requests = {r1}
  Leaves = TRUE
  Nil = Nil
  NoStore = NoStore
  Stores = {s1, s2}
  Handlers = {d1}
  Events = {x1, x2}
  ChanCap = 1
  MaxAppends = 3
  MaxTampers = 1
SYMMETRY StoreSymmetry
INVARIANTS
  MCTypeOK
  EgressWasPermitted RecordTellsFate ForgottenIsRevoked
  ChainIntact VerifyCatches StreamFollowsLog PanicsOnlyAfterClose
PROPERTIES
  ImplementsAppendLog
CHECK_DEADLOCK FALSE
