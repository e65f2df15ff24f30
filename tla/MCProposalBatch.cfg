SPECIFICATION FairSpec
CONSTANTS
  Count = 2
  Moves <- MCMoves
  MaxAge = 0
  MaxAttempts = 2
  MaxTime = 1
  MaxFaults = 2
  MaxPushes = 1
  None = None
  Torn = Torn
INVARIANTS
  PublishedIsComplete
PROPERTIES
  ReusedIsCurrent
  EveryEndIsReported
CHECK_DEADLOCK FALSE
