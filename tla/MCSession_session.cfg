SPECIFICATION Spec
CONSTANTS
  Configs <- Acceptor
  Payloads = {p}
  BusinessReject = businessReject
  NoBody = noBody
  HeartBtInts = {0}
  Events = {"reset", "setTarget"}
  Incoming <- SessionMessages
  MaxSeq = 2
  MaxSent = 3
  MaxAge = 0
INVARIANTS QueueAhead SeenBelow StoreComplete RetransmitCovers CountsExpected
