SPECIFICATION Spec
CONSTANTS
  Scenarios <- Recovering
  BusinessReject = businessReject
  NoBody = noBody
  MaxHeartbeat = 12
CHECK_DEADLOCK FALSE
INVARIANT NoGapLeft CaughtUp
PROPERTY Delivers
