SPECIFICATION Spec
CONSTANTS
  Roles = {"initiator"}
  Disconnecters = {"initiator"}
  Sessions = {x}
  MaxFd = 1
  NoConn = noConn
  Unbound = unbound
  MaxPending = 0
  MaxMade = 1
  MaxQueue = 1
  MaxPipe = 1
INVARIANT NoOrphan
CHECK_DEADLOCK FALSE
