----------------------------- MODULE RateLimiter -----------------------------
(***************************************************************************)
(* The rate limit of one relay instance under arrivals of several clients. *)
(* `log' is a history of every arrival and its verdict; the properties say *)
(* what clients may count on over any stretch of time, which the code, that*)
(* only ever looks at one bucket, never states.                            *)
(***************************************************************************)
EXTENDS RateLimit, Sequences

CONSTANTS
  Clients,
  MaxTime,            \* bound: the clock stops there
  MaxArrivals         \* bound: length of the history

VARIABLES now, buckets, log

vars == <<now, buckets, log>>

Init ==
  /\ now = 0
  /\ buckets = [c \in Clients |-> NoBucket]
  /\ log = <<>>

\* A POST: prune, then admit and charge, or refuse with a Retry-After.
Request(c) ==
  LET b == Pruned(buckets, now) IN
  /\ Len(log) < MaxArrivals
  /\ \/ /\ Admits(b[c], now)
        /\ buckets' = [b EXCEPT ![c] = Charged(@, now)]
        /\ log' = Append(log, [client |-> c, at |-> now, ok |-> TRUE,
                               retryAfter |-> 0])
     \/ /\ ~Admits(b[c], now)
        /\ buckets' = b
        /\ log' = Append(log, [client |-> c, at |-> now, ok |-> FALSE,
                               retryAfter |-> RetryAfter(b[c], now)])
  /\ UNCHANGED now

Tick ==
  /\ now < MaxTime
  /\ now' = now + 1
  /\ UNCHANGED <<buckets, log>>

Next == Tick \/ \E c \in Clients : Request(c)

Spec == Init /\ [][Next]_vars
-----------------------------------------------------------------------------
\* The admissions of client c at times in S.
Admissions(c, S) == {n \in DOMAIN log : /\ log[n].client = c
                                        /\ log[n].ok
                                        /\ log[n].at \in S}

(***************************************************************************)
(* No stretch of one window's length, wherever it begins, holds more than  *)
(* twice the allowance of a client, though windows restart and buckets are *)
(* pruned; and a client is refused only after it was granted its full      *)
(* allowance in the window's length before, whatever other clients did     *)
(* (ensureRateLimitAllowance, maybePruneRateLimitBuckets).                 *)
(***************************************************************************)
LimitIsExact ==
  /\ \A c \in Clients, t \in 0..MaxTime :
       Cardinality(Admissions(c, t..(t + Window - 1))) <= 2 * MaxRequests
  /\ \A n \in DOMAIN log :
       ~log[n].ok =>
         Cardinality({m \in Admissions(log[n].client,
                                       (log[n].at - Window + 1)..log[n].at) :
                        m < n}) >= MaxRequests

(***************************************************************************)
(* Retry-After is enough: a client that waits out the seconds it was told  *)
(* is refused again only if another of its requests was admitted meanwhile.*)
(***************************************************************************)
RetryAfterSuffices ==
  \A m, n \in DOMAIN log :
    /\ m < n
    /\ log[m].client = log[n].client
    /\ ~log[m].ok /\ ~log[n].ok
    /\ log[n].at >= log[m].at + log[m].retryAfter * MsPerSecond
    => \E p \in (m + 1)..(n - 1) : log[p].client = log[n].client /\ log[p].ok
-----------------------------------------------------------------------------
(* Why the limit holds.                                                    *)

LimiterTypes ==
  /\ now \in Nat
  /\ buckets \in [Clients -> Bucket]
  /\ log \in Seq([client: Clients, at: Nat, ok: BOOLEAN, retryAfter: Nat])
  /\ \A n \in DOMAIN log : log[n].at <= now

\* A bucket counts the admissions of its window, and there were no more than
\* the allowance in the time before it; where there is none, there were none.
BucketIsExact(c) ==
  LET b == buckets[c] IN
  /\ b.count = 0 => Admissions(c, (now - Window)..now) = {}
  /\ b.count > 0 =>
       /\ b.start <= now
       /\ Cardinality(Admissions(c, b.start..now)) = b.count
       /\ Admissions(c, b.start..now) = Admissions(c, b.start..(b.start + Window - 1))
       /\ Cardinality(Admissions(c, (b.start - Window)..(b.start - 1))) <= MaxRequests

\* The window that refused a client is over when its Retry-After is.
RefusalIsHonest(m) ==
  LET e == log[m] b == buckets[e.client] IN
  ~e.ok =>
    \/ \E p \in (m + 1)..Len(log) : log[p].client = e.client /\ log[p].ok
    \/ b.count = 0
    \/ b.start + Window <= e.at + e.retryAfter * MsPerSecond

LimiterInv ==
  /\ LimiterTypes
  /\ RateLimitEnabled => LimitIsExact /\ \A c \in Clients : BucketIsExact(c)
  /\ RetryAfterSuffices /\ \A m \in DOMAIN log : RefusalIsHonest(m)
=============================================================================
