SPECIFICATION MCSpec
CONSTANTS
  RateLimitEnabled = TRUE
  Window = 3
  MaxRequests = 2
  PruneSize = 1
  MsPerSecond = 2
  Clients = {c1, c2}
  MaxTime = 7
  MaxArrivals = 7
  First = c1
  FirstJob = j1
  ShareClients = {c1, c2}
  ShareWindow = 3
  ShareMax = 2
  ShareSecond = 2
  ShareEnd = 5
  ShareRequests = 5
  Seconds <- MCSeconds
  Limit <- MCLimit
  Calls = {t1, t2}
  Gap = 2
  Attempts = 3
  BackoffBase = 1
  BackoffMax = 3
  Pids = {p1, p2}
  MaxCode = 1
  MaxFaults = 2
  Execs = {e1}
  first = first
  second = second
  None = None
  Reports <- MCReports
  Chains = {main, other}
  Home = main
  Jobs = {j1, j2}
  MaxVisits = 2
INVARIANTS
  LimitIsExact
  RetryAfterSuffices
  ShareLimitIsExact
  AllowanceIsHonest
  AnsweredIsDone
  SignedIsReviewed
PROPERTIES
  EveryCallEnds
  AccessRegained
CHECK_DEADLOCK FALSE
