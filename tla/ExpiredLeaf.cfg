SPECIFICATION CASpec
CONSTANTS
  CAPods = {i1}
  Hosts = {api, db}
  Conns = {t1}
  MaxCAs = 1
  LeafTTL = 3
  RenewBefore = 1
  LeafCap = 1
INVARIANT NoExpiredLeaf
CHECK_DEADLOCK FALSE
