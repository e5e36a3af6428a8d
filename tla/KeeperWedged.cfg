SPECIFICATION WedgedKeeperSpec
CONSTANTS
  Callers = {c1, c2}
  MaxCalls = 3
  SocketRoom = 1
  InflightLimit = 1
  None = None
PROPERTY
  TimeoutBoundsCall
CHECK_DEADLOCK FALSE
