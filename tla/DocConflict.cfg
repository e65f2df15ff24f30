SPECIFICATION Spec
CONSTANTS
  RateLimitEnabled = FALSE
  Window = 1
  MaxRequests = 1
  PruneSize = 0
  MsPerSecond = 1
  Instances = {i1, i2}
  Requests = {r1, r2}
  Clients = {c1}
  Hashes = {h1, h2}
  Keys = {h1, h2}
  None = None
  StoreMode = "upstash"
  CompletedCap = 2
  LookupCap = 1
  MaxTime = 0
  MaxRestarts = 0
SYMMETRY RequestSymmetry
INVARIANTS
  KeyServesOneArtifact
CHECK_DEADLOCK FALSE
