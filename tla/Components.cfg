SPECIFICATION Spec
CONSTANTS
  CAPods = {i1}
  Hosts = {api, db}
  Conns = {t1, t2}
  MaxCAs = 3
  LeafTTL = 3
  RenewBefore = 2
  LeafCap = 1
  CnPods = {c1, c2}
  MaxMint = 3
  MaxStamp = 3
  Queries = 2
  Answers = 2
  Labels = {"x", "a", "b"}
  Names <- MCNames
  Spellings = {"plain", "odd"}
  Plain = "plain"
  Verbs = {"GET", "POST"}
  NoName = NoName
  a = a
  b = b
  Projects <- MCProjects
  PsNames = {a, b}
  Editors = {d1, d2}
  PsUps = {q1}
INVARIANTS
  TypeOK
  PodTrustsBroker
  SeedIsCurrent
  SpliceKeepsStream SessionAuthenticated
  DecideByName
  DefaultGoverns NoDanglingDefault
  DeathIsReported
CHECK_DEADLOCK FALSE
