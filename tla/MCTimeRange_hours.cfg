SPECIFICATION Spec
CONSTANTS
  SecondsPerDay = 4
  Ranges <- AllHours
  Horizon = 92
INVARIANTS OpenOnTime StartedOver
PROPERTY KeptWithin
