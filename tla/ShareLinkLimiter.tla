--------------------------- MODULE ShareLinkLimiter ---------------------------
(***************************************************************************)
(* The share button's own limit (frontend/src/app/api/share-link/route.ts):*)
(* a sliding log per client, kept in one instance, unlike the relay's fixed*)
(* windows.  `shareLog' is a history of every request and its verdict.     *)
(***************************************************************************)
EXTENDS Integers, Sequences, FiniteSets

CONSTANTS
  ShareClients,
  ShareWindow,        \* getShareLinkRateLimitWindowMs
  ShareMax,           \* getShareLinkRateLimitMaxRequests
  ShareSecond,        \* 1000 in the code
  ShareEnd,           \* bound: the clock stops there
  ShareRequests       \* bound: length of the history

ASSUME ShareAssumption ==
  {ShareWindow, ShareMax, ShareSecond, ShareEnd, ShareRequests} \subseteq Nat \ {0}

VARIABLES clock, stamps, shareLog

shareVars == <<clock, stamps, shareLog>>

ShareInit ==
  /\ clock = 0
  /\ stamps = [c \in ShareClients |-> <<>>]
  /\ shareLog = <<>>

\* The stamps later than t, in their order.
Later(times, t) ==
  LET upTo[n \in 0..Len(times)] ==
        IF n = 0 THEN <<>>
        ELSE IF times[n] > t THEN Append(upTo[n - 1], times[n]) ELSE upTo[n - 1]
  IN  upTo[Len(times)]

\* Mutant of Recent: a stamp as old as the window still counts.
RecentOrEqual(c) == Later(stamps[c], clock - ShareWindow - 1)

Recent(c) == Later(stamps[c], clock - ShareWindow)

\* enforceShareLinkRateLimit; a refused request leaves no stamp.
ShareRequest(c) ==
  LET recent == Recent(c)
      full == Len(recent) >= ShareMax
      wait == recent[1] + ShareWindow - clock
      entry == [client |-> c, at |-> clock, ok |-> ~full,
                retry |-> IF ~full THEN 0
                          ELSE (wait + ShareSecond - 1) \div ShareSecond]
  IN /\ Len(shareLog) < ShareRequests
     /\ stamps' = [stamps EXCEPT ![c] = IF full THEN recent
                                        ELSE Append(recent, clock)]
     /\ shareLog' = Append(shareLog, entry)
     /\ UNCHANGED clock

ShareTick ==
  /\ clock < ShareEnd
  /\ clock' = clock + 1
  /\ UNCHANGED <<stamps, shareLog>>

ShareNext == ShareTick \/ \E c \in ShareClients : ShareRequest(c)

ShareSpec == ShareInit /\ [][ShareNext]_shareVars
-----------------------------------------------------------------------------
\* The requests of c that were let in at times in S.
LetIn(c, S) == {n \in DOMAIN shareLog : /\ shareLog[n].client = c
                                        /\ shareLog[n].ok
                                        /\ shareLog[n].at \in S}

(***************************************************************************)
(* The share limit is exact, wherever a window is laid: never more than    *)
(* ShareMax of a client's requests in one, a refusal only when its own     *)
(* requests fill the window that ends there, and a client that waits as it *)
(* was told is refused again only if it was let in meanwhile.              *)
(***************************************************************************)
ShareLimitIsExact ==
  /\ \A c \in ShareClients, t \in 0..ShareEnd :
       Cardinality(LetIn(c, t..(t + ShareWindow - 1))) <= ShareMax
  /\ \A n \in DOMAIN shareLog :
       LET r == shareLog[n] IN
       ~r.ok => Cardinality({m \in LetIn(r.client, (r.at - ShareWindow + 1)..r.at) :
                               m < n}) = ShareMax
  /\ \A m, n \in DOMAIN shareLog :
       LET q == shareLog[m] r == shareLog[n] IN
       /\ m < n /\ q.client = r.client /\ ~q.ok /\ ~r.ok
       /\ r.at >= q.at + q.retry * ShareSecond
       => \E p \in LetIn(q.client, q.at..r.at) : m < p /\ p < n
=============================================================================
