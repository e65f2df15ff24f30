SPECIFICATION Spec
CONSTANTS
  RateLimitEnabled = FALSE
  Window = 1
  MaxRequests = 1
  PruneSize = 0
  MsPerSecond = 1
  Instances = {i1}
  Requests = {r1, r2, r3}
  Clients = {c1}
  Hashes = {h1, h2}
  Keys = {h1, h2}
  None = None
  StoreMode = "upstash"
  CompletedCap = 1
  LookupCap = 1
  MaxTime = 0
  MaxRestarts = 1
SYMMETRY RequestSymmetry
INVARIANTS
  InFlightIsLive
  RepublishOnlyAfterEviction
  AnswerIsForThisArtifact
PROPERTIES
  ImplementsIdempotentPublish
CHECK_DEADLOCK FALSE
