SPECIFICATION FairSpec
CONSTANTS
  Apps = {a1}
  Net = net
  None = none
  Size = 2
  Limit = 3
  Buffer = 3
  MaxMessages = 3
INVARIANTS WireInOrder WakeNotLost Bounded FreedUnused
PROPERTIES Flushed SendReturns DisconnectReturns
CHECK_DEADLOCK FALSE
