SPECIFICATION Spec
CONSTANTS
  Count = 1
  Moves <- MCMovesToCanceled
  MaxAge = 0
  MaxAttempts = 1
  MaxTime = 1
  MaxFaults = 0
  MaxPushes = 0
  None = None
  Torn = Torn
INVARIANTS
  TerminalIsNotRerun
CHECK_DEADLOCK FALSE
