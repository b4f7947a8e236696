SPECIFICATION Spec
CONSTANTS
  Messages = {m1, m2}
  Part = part
  Windows <- Closed
  MaxSeq = 3
  MaxBody = 2
  MaxCrashes = 2
INVARIANTS ReopenAgrees CreationKept
PROPERTY Durable
