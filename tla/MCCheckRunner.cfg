SPECIFICATION FairSpec
CONSTANTS
  Count = 3
  Calls = 2
  Global = 5
  PerCheck <- MCPerCheck
  MaxHold = 3
INVARIANTS
  SkipsAreEarned
  EndsInTime
PROPERTIES
  EveryCheckHasVerdict
CHECK_DEADLOCK FALSE
