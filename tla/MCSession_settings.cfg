SPECIFICATION Spec
CONSTANTS
  Configs <- Settings
  Payloads = {p}
  BusinessReject = businessReject
  NoBody = noBody
  HeartBtInts = {0}
  Events = {"enable", "calendar"}
  Incoming <- SettingsMessages
  MaxSeq = 2
  MaxSent = 3
  MaxAge = 0
INVARIANTS ConnectionClean 
