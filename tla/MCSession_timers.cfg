SPECIFICATION FairSpec
CONSTANTS
  Configs <- Both
  Payloads = {p}
  BusinessReject = businessReject
  NoBody = noBody
  HeartBtInts = {0, 1}
  Events = {"enable"}
  Incoming <- TimerMessages
  MaxSeq = 2
  MaxSent = 2
  MaxAge = 3
PROPERTIES PeerWatched LogonTimesOut
