SPECIFICATION FairSpec
CONSTANTS
  Roles = {"acceptor", "initiator"}
  Disconnecters = {"acceptor"}
  Sessions = {x}
  MaxFd = 2
  NoConn = noConn
  Unbound = unbound
  MaxPending = 1
  MaxMade = 3
  MaxQueue = 2
  MaxPipe = 1
INVARIANTS ReportsOwn HeldOnce OneLiveConnection NoOrphan WakeNotLost
PROPERTY Reaped
CHECK_DEADLOCK FALSE
