SPECIFICATION FairSpec
CONSTANTS
  Scenarios <- CatchingUp
  BusinessReject = businessReject
  NoBody = noBody
  MaxHeartbeat = 12
CHECK_DEADLOCK FALSE
PROPERTY CatchUp
