SPECIFICATION FairSpec
CONSTANTS
  Sessions = {x}
  NoSession = noSession
  MaxPending = 1
  Tries = 2
  Scopes <- Both
  MaxFd = 4
  MaxCaller = 2
  MaxMade = 4
  MaxMessages = 2
INVARIANTS OwnDescriptor OneOwner StopComplete OneLiveConnection PendingBounded
PROPERTY StopReturns
CHECK_DEADLOCK FALSE
