SPECIFICATION FairSpec
CONSTANTS
  RateLimitEnabled = TRUE
  Window = 1
  MaxRequests = 2
  PruneSize = 0
  MsPerSecond = 1
  Instances = {i1}
  Requests = {r1, r2, r3}
  Clients = {c1}
  Hashes = {h1}
  Keys = {h1}
  None = None
  StoreMode = "memory"
  CompletedCap = 1
  LookupCap = 2
  MaxTime = 1
  MaxRestarts = 1
INVARIANTS
  AnsweredIdResolves
PROPERTIES
  EveryAwaitEnds
CHECK_DEADLOCK FALSE
