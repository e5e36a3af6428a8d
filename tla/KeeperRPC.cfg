SPECIFICATION FairSpec
CONSTANTS
  Callers = {c1, c2}
  MaxCalls = 3
  SocketRoom = 1
  InflightLimit = 1
  None = None
INVARIANTS
  RPCTypeOK
  HandOverNeverBlocks
  NoWaiterForgotten
  NoWaiterLeaked
PROPERTIES
  CallsReturn
  ImplementsKeeperCall
CHECK_DEADLOCK FALSE
