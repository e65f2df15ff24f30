------------------------------ MODULE RateLimit ------------------------------
(***************************************************************************)
(* The publish endpoint's fixed-window rate limit (relay/server.ts): a map *)
(* from client address to the start of its current window and the number   *)
(* of requests admitted in it.  The operators are pure; RateLimiter runs   *)
(* them on their own and PublishRelay as the first step of every request.  *)
(***************************************************************************)
EXTENDS Integers, FiniteSets

CONSTANTS
  RateLimitEnabled,   \* SEATBELT_RELAY_RATE_LIMIT_ENABLED
  Window,             \* rateLimitWindowMs
  MaxRequests,        \* rateLimitMaxRequests
  PruneSize,          \* 10_000 in the code
  MsPerSecond         \* 1000 in the code

ASSUME RateLimitAssumption ==
  /\ RateLimitEnabled \in BOOLEAN
  /\ {Window, MaxRequests, MsPerSecond} \subseteq Nat \ {0}
  /\ PruneSize \in Nat

\* A client without an entry in the map is one whose count is 0.
NoBucket == [count |-> 0, start |-> 0]
Bucket == [count: 0..MaxRequests, start: Nat]

Tracked(b) == {c \in DOMAIN b : b[c].count > 0}

\* Mutant of Pruned: past the threshold every bucket goes, live windows included.
PrunedAll(b, now) ==
  IF Cardinality(Tracked(b)) <= PruneSize
    THEN b
    ELSE [c \in DOMAIN b |-> NoBucket]

\* Past PruneSize entries, those whose window began over two windows ago go.
Pruned(b, now) ==
  IF Cardinality(Tracked(b)) <= PruneSize
    THEN b
    ELSE [c \in DOMAIN b |->
            IF now - b[c].start > 2 * Window THEN NoBucket ELSE b[c]]

\* No bucket yet, or one whose window is over.
OpensWindow(bucket, now) ==
  \/ bucket.count = 0
  \/ now - bucket.start >= Window

\* An open window with allowance left, or a new one.
Admits(bucket, now) ==
  \/ ~RateLimitEnabled
  \/ OpensWindow(bucket, now)
  \/ bucket.count < MaxRequests

\* The bucket after the admission of a request.
Charged(bucket, now) ==
  CASE ~RateLimitEnabled -> bucket
    [] RateLimitEnabled /\ OpensWindow(bucket, now) -> [count |-> 1, start |-> now]
    [] OTHER -> [bucket EXCEPT !.count = @ + 1]

\* Mutant of RetryAfter: the remaining time is rounded down.
RetryAfterFloor(bucket, now) ==
  LET seconds == (Window - (now - bucket.start)) \div MsPerSecond
  IN  IF seconds < 1 THEN 1 ELSE seconds

\* Retry-After of a refusal, in whole seconds, rounded up and never 0.
RetryAfter(bucket, now) ==
  LET leftMs == Window - (now - bucket.start)
      seconds == (leftMs + MsPerSecond - 1) \div MsPerSecond
  IN  IF seconds < 1 THEN 1 ELSE seconds
=============================================================================
