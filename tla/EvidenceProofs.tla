---------------------------- MODULE EvidenceProofs ----------------------------
(***************************************************************************)
(* The two searches of a chain - the block at a time, for every chain,     *)
(* time and number of attempts, and the events of a proposal, for chains   *)
(* of any length, chunks and windows of any size -, the decision that a    *)
(* report is read for, for any jobs, checks and findings, the bridge       *)
(* messages of a proposal, for any list of actions, and the simulation     *)
(* that all of it is evidence of (ProposalExecution): any calls a proposal *)
(* may have, any growth of the chain, any times and costs, both governors. *)
(***************************************************************************)
EXTENDS BlockSearch, EventSearch, ReportDecision, BridgeMessages, ProposalExecution,
        FiniteSetTheorems, NaturalsInduction, WellFoundedInduction, TLAPS
-----------------------------------------------------------------------------
(* BlockSearch: blocks below `low' are early enough, blocks above `high'   *)
(* are not, and `best' is the one below `low'.                             *)

Rigid ==
  /\ stamp \in [0..LastBlock -> 0..MaxStamp]
  /\ \A a, b \in 0..LastBlock : a <= b => stamp[a] <= stamp[b]
  /\ target \in 0..MaxStamp

Bracketed ==
  /\ low \in 0..latest /\ high \in 0..latest /\ low <= high
  /\ \A b \in 0..latest : b < low => stamp[b] <= target
  /\ \A b \in 0..latest : b > high => stamp[b] > target
  /\ best = (IF low = 0 THEN 0 ELSE low - 1)

SearchInv ==
  /\ Rigid
  /\ head \in 0..LastBlock /\ latest \in 0..LastBlock
  /\ pc \in {"number", "latest", "probe", "found", "failed"}
  /\ pc = "probe" => Bracketed
  /\ SearchFindsLast

\* The middle of a bracket lies in it.
LEMMA MidIsBetween ==
  ASSUME NEW l \in Nat, NEW h \in Nat, l <= h
  PROVE  (l + h) \div 2 \in l..h
OBVIOUS

\* A candidate that is early enough moves the lower end.
LEMMA EarlyCandidate ==
  ASSUME SearchInv, pc = "probe", stamp[Mid] <= target,
         best' = Mid, low' = Mid + 1, high' = high,
         UNCHANGED <<stamp, target, latest>>
  PROVE  IF low' <= high' THEN Bracketed'
         ELSE best' \in AtOrBefore' /\ \A b \in AtOrBefore' : b <= best'
<1> DEFINE m == Mid
<1>1. m \in low..high /\ low \in Nat /\ high \in Nat /\ latest \in 0..LastBlock
  BY MidIsBetween DEF SearchInv, Bracketed, Mid
<1>2. \A b \in 0..latest : b <= m => stamp[b] <= target
  <2>1. /\ stamp \in [0..LastBlock -> 0..MaxStamp] /\ target \in 0..MaxStamp
        /\ \A a, b \in 0..LastBlock : a <= b => stamp[a] <= stamp[b]
        /\ high <= latest /\ LastBlock \in Nat /\ MaxStamp \in Nat
    BY SearchAssumption DEF SearchInv, Rigid, Bracketed
  <2>2. TAKE b \in 0..latest
  <2>3. HAVE b <= m
  <2>4. b \in 0..LastBlock /\ m \in 0..LastBlock
    BY <1>1, <2>1, <2>3
  <2>5. stamp[b] <= stamp[m] /\ stamp[b] \in Int /\ stamp[m] \in Int
    BY <2>1, <2>3, <2>4
  <2> QED
    BY <2>1, <2>5
<1>3. \A b \in 0..latest : b > high => stamp[b] > target
  BY DEF SearchInv, Bracketed
<1>4. CASE low' <= high'
  <2>1. /\ low' = m + 1 /\ high' = high /\ best' = m /\ high \in 0..latest
    BY DEF SearchInv, Bracketed
  <2>2. low' \in 0..latest /\ high' \in 0..latest /\ low' # 0 /\ best' = low' - 1
    BY <1>1, <1>4, <2>1
  <2>3. \A b \in 0..latest : b < low' => stamp[b] <= target
    BY <1>1, <1>2, <2>1
  <2>4. \A b \in 0..latest : b > high' => stamp[b] > target
    BY <1>3, <2>1
  <2> QED
    BY <1>4, <2>2, <2>3, <2>4 DEF Bracketed
<1>5. CASE ~(low' <= high')
  <2>1. m = high /\ m \in 0..latest
    BY <1>1, <1>5 DEF SearchInv, Bracketed
  <2>2. m \in AtOrBefore'
    BY <2>1 DEF AtOrBefore
  <2>3. ASSUME NEW b \in AtOrBefore' PROVE b <= m
    <3>1. b \in 0..latest /\ stamp[b] <= target /\ stamp[b] \in Int /\ target \in Int
      BY SearchAssumption DEF AtOrBefore, SearchInv, Rigid
    <3>2. ~(b > high)
      BY <1>3, <3>1
    <3> QED
      BY <1>1, <2>1, <3>1, <3>2
  <2> QED
    BY <1>5, <2>2, <2>3
<1> QED
  BY <1>4, <1>5

\* A candidate that is too late moves the upper end.
LEMMA LateCandidate ==
  ASSUME SearchInv, pc = "probe", ~(stamp[Mid] <= target),
         best' = best, low' = low, high' = Mid - 1,
         UNCHANGED <<stamp, target, latest>>
  PROVE  IF low' <= high' THEN Bracketed'
         ELSE \/ best' \in AtOrBefore' /\ \A b \in AtOrBefore' : b <= best'
              \/ AtOrBefore' = {} /\ best' = 0
<1> DEFINE m == Mid
<1>1. m \in low..high /\ low \in Nat /\ high \in Nat /\ latest \in 0..LastBlock
  BY MidIsBetween DEF SearchInv, Bracketed, Mid
<1>2. \A b \in 0..latest : b >= m => stamp[b] > target
  <2>1. /\ stamp \in [0..LastBlock -> 0..MaxStamp] /\ target \in 0..MaxStamp
        /\ \A a, b \in 0..LastBlock : a <= b => stamp[a] <= stamp[b]
        /\ high <= latest /\ LastBlock \in Nat /\ MaxStamp \in Nat
    BY SearchAssumption DEF SearchInv, Rigid, Bracketed
  <2>2. TAKE b \in 0..latest
  <2>3. HAVE b >= m
  <2>4. b \in 0..LastBlock /\ m \in 0..LastBlock /\ m <= b
    BY <1>1, <2>1, <2>3
  <2>5. stamp[m] <= stamp[b] /\ stamp[b] \in Int /\ stamp[m] \in Int
    BY <2>1, <2>4
  <2> QED
    BY <2>1, <2>5
<1>3. /\ \A b \in 0..latest : b < low => stamp[b] <= target
      /\ low \in 0..latest /\ high \in 0..latest
      /\ best = (IF low = 0 THEN 0 ELSE low - 1)
  BY DEF SearchInv, Bracketed
<1>4. CASE low' <= high'
  <2>1. low' = low /\ high' = m - 1 /\ best' = best
    OBVIOUS
  <2>2. high' \in 0..latest /\ low <= high'
    BY <1>1, <1>3, <1>4, <2>1
  <2>3. \A b \in 0..latest : b > high' => stamp[b] > target
    BY <1>1, <1>2, <2>1
  <2> QED
    BY <1>3, <1>4, <2>1, <2>2, <2>3 DEF Bracketed
<1>5. CASE ~(low' <= high')
  <2>1. m = low
    BY <1>1, <1>5
  <2>2. \A b \in AtOrBefore' : b \in 0..latest /\ b < low
    <3>1. TAKE b \in AtOrBefore'
    <3>2. b \in 0..latest /\ stamp[b] <= target /\ stamp[b] \in Int /\ target \in Int
      BY SearchAssumption DEF AtOrBefore, SearchInv, Rigid
    <3> QED
      BY <1>1, <1>2, <2>1, <3>2
  <2>3. CASE low = 0
    BY <1>3, <1>5, <2>2, <2>3
  <2>4. CASE low # 0
    <3>1. best = low - 1 /\ best \in 0..latest /\ best < low
      BY <1>1, <1>3, <2>4
    <3>2. best' \in AtOrBefore'
      BY <1>3, <3>1 DEF AtOrBefore
    <3> QED
      BY <1>1, <1>5, <2>2, <3>1, <3>2
  <2> QED
    BY <2>3, <2>4
<1> QED
  BY <1>4, <1>5

\* The invariant holds at first and is kept by every step.
LEMMA SearchInvHolds == SearchSpec => []SearchInv
<1>1. SearchInit => SearchInv
  BY SearchAssumption DEF SearchInit, SearchInv, Rigid, SearchFindsLast
<1>2. SearchInv /\ [SearchNext]_searchVars => SearchInv'
  <2> SUFFICES ASSUME SearchInv, [SearchNext]_searchVars PROVE SearchInv'
    OBVIOUS
  <2>1. CASE LatestNumber
    BY <2>1 DEF LatestNumber, SearchInv, Rigid, SearchFindsLast
  <2>2. CASE LatestBlock
    <3>1. CASE stamp[latest] <= target
      <4>1. latest \in AtOrBefore' /\ \A b \in AtOrBefore' : b <= latest
        BY <2>2, <3>1, SearchAssumption DEF LatestBlock, AtOrBefore, SearchInv
      <4> QED
        BY <2>2, <3>1, <4>1
        DEF LatestBlock, SearchInv, Rigid, SearchFindsLast, AtOrBefore
    <3>2. CASE ~(stamp[latest] <= target)
      BY <2>2, <3>2, SearchAssumption
      DEF LatestBlock, SearchInv, Rigid, SearchFindsLast, Bracketed
    <3> QED
      BY <3>1, <3>2
  <2>3. CASE Probe
    <3>1. /\ pc = "probe" /\ Narrow(stamp[Mid] <= target)
          /\ pc' = IF low' <= high' THEN "probe" ELSE "found"
          /\ UNCHANGED <<stamp, target, head, latest>>
      BY <2>3 DEF Probe
    <3>2. /\ pc' = "probe" => Bracketed'
          /\ SearchFindsLast'
      <4>1. CASE stamp[Mid] <= target
        BY <3>1, <4>1, EarlyCandidate DEF Narrow, SearchFindsLast
      <4>2. CASE ~(stamp[Mid] <= target)
        BY <3>1, <4>2, LateCandidate DEF Narrow, SearchFindsLast
      <4> QED
        BY <4>1, <4>2
    <3> QED
      BY <3>1, <3>2 DEF SearchInv, Rigid
  <2>4. CASE RequestFails
    BY <2>4 DEF RequestFails, SearchInv, Rigid, SearchFindsLast, Bracketed
  <2>5. CASE NewBlock
    BY <2>5, SearchAssumption
    DEF NewBlock, SearchInv, Rigid, SearchFindsLast, Bracketed, AtOrBefore
  <2>6. CASE UNCHANGED searchVars
    BY <2>6
    DEF searchVars, SearchInv, Rigid, SearchFindsLast, Bracketed, AtOrBefore
  <2> QED
    BY <2>1, <2>2, <2>3, <2>4, <2>5, <2>6 DEF SearchNext
<1> QED
  BY <1>1, <1>2, PTL DEF SearchSpec

(***************************************************************************)
(* findBlockNumberAtOrBeforeTimestamp is right for chains of any length.   *)
(***************************************************************************)
THEOREM SearchIsRight == SearchSpec => []SearchFindsLast
<1>1. SearchInv => SearchFindsLast
  BY DEF SearchInv
<1> QED
  BY <1>1, SearchInvHolds, PTL
-----------------------------------------------------------------------------
(* EventSearch: what the chunks have brought so far, and that some range   *)
(* still to be asked for covers a wanted event.                            *)

Spans == [first: Nat, last: Nat \cup {Newest}]

Covers(r) == r.first <= event /\ event <= r.last

\* Of the ranges still to be asked for, one covers a wanted event.
Pending ==
  /\ wanted.last = Newest => ranges = <<wanted>>
  /\ wanted.last # Newest =>
       /\ \A n \in 1..Len(ranges) : ranges[n].last # Newest
       /\ Covers(wanted) => \E n \in 1..Len(ranges) : Covers(ranges[n])

\* What has been received of the current range.
Received ==
  LET r == ranges[1] IN
  /\ step = "whole" => from = r.first /\ end \in Nat /\ r.last \in {Newest, end}
  /\ step = "chunk" => /\ from \in Nat /\ end \in Nat
                       /\ r.first <= from /\ from <= end
                       /\ r.last \in {Newest, end}
                       /\ got = Blocks(r.first, from - 1)
  /\ step = "reply" => /\ end \in Nat /\ r.last \in {Newest, end}
                       /\ got = Blocks(r.first, end)

EventInv ==
  /\ tip \in Nat /\ event \in Nat
  /\ wanted \in Spans /\ ranges \in Seq(Spans)
  /\ step \in {"ask", "whole", "chunk", "reply", "found", "missing", "failed"}
  /\ step \notin {"missing"} => ranges # <<>> /\ Pending
  /\ Received
  /\ MissingIsNowhere

-----------------------------------------------------------------------------
\* Division by a positive number.
LEMMA DivisionFacts ==
  ASSUME NEW a \in Nat, NEW b \in Nat, a <= b, NEW c \in Nat \ {0}
  PROVE  /\ a \div c \in Nat /\ b \div c \in Nat
         /\ (a \div c) * c <= a
         /\ a < (a \div c) * c + c
         /\ a \div c <= b \div c
<1>1. /\ a \div c \in Int /\ b \div c \in Int
      /\ (a \div c) * c <= a /\ a < (a \div c) * c + c
      /\ (b \div c) * c <= b /\ b < (b \div c) * c + c
  BY SMTT(30)
<1> QED
  BY <1>1, SMTT(30)

\* Sequences of the same elements are the same.
LEMMA SameSequence ==
  ASSUME NEW s \in Seq(Int), NEW t \in Seq(Int), Len(s) = Len(t),
         \A n \in 1..Len(s) : s[n] = t[n]
  PROVE  s = t
OBVIOUS

\* Elements of a concatenation.
LEMMA ConcatElements ==
  ASSUME NEW s \in Seq(Int), NEW t \in Seq(Int), NEW n \in 1..Len(s) + Len(t)
  PROVE  /\ s \o t \in Seq(Int) /\ Len(s \o t) = Len(s) + Len(t)
         /\ n <= Len(s) => (s \o t)[n] = s[n]
         /\ n > Len(s) => (s \o t)[n] = t[n - Len(s)]
OBVIOUS

\* Neighbouring runs of blocks make one.
LEMMA BlocksJoin ==
  ASSUME NEW a \in Nat, NEW b \in Nat, NEW c \in Nat, a <= b, b <= c + 1
  PROVE  Blocks(a, b - 1) \o Blocks(b, c) = Blocks(a, c)
<1> DEFINE s == Blocks(a, b - 1)
           t == Blocks(b, c)
<1>1. s \in Seq(Int) /\ Len(s) = b - a /\ \A n \in 1..(b - a) : s[n] = a + n - 1
  BY DEF Blocks
<1>2. t \in Seq(Int) /\ Len(t) = c + 1 - b /\ \A n \in 1..(c + 1 - b) : t[n] = b + n - 1
  BY DEF Blocks
<1>3. /\ Blocks(a, c) \in Seq(Int) /\ Len(Blocks(a, c)) = c + 1 - a
      /\ \A n \in 1..(c + 1 - a) : Blocks(a, c)[n] = a + n - 1
  BY DEF Blocks
<1>4. s \o t \in Seq(Int) /\ Len(s \o t) = c + 1 - a
  BY <1>1, <1>2
<1> HIDE DEF s, t
<1>5. ASSUME NEW n \in 1..(c + 1 - a) PROVE (s \o t)[n] = Blocks(a, c)[n]
  <2>1. n \in 1..Len(s) + Len(t) /\ Len(s) = b - a /\ b - a \in Nat
    BY <1>1, <1>2
  <2>2. CASE n <= b - a
    <3>1. (s \o t)[n] = s[n] /\ n \in 1..(b - a)
      BY <1>1, <1>2, <2>1, <2>2, ConcatElements
    <3> QED
      BY <1>1, <1>3, <3>1
  <2>3. CASE n > b - a
    <3>0. Len(s) = b - a /\ n > Len(s)
      BY <1>1, <2>3
    <3>1. (s \o t)[n] = t[n - (b - a)]
      <4>1. s \in Seq(Int) /\ t \in Seq(Int)
        BY <1>1, <1>2
      <4>2. (s \o t)[n] = t[n - Len(s)]
        BY <2>1, <3>0, <4>1, ConcatElements
      <4> QED
        BY <3>0, <4>2
    <3>2. n - (b - a) \in 1..(c + 1 - b)
      BY <2>3
    <3>3. t[n - (b - a)] = b + (n - (b - a)) - 1
      BY <1>2, <3>2
    <3>4. b + (n - (b - a)) - 1 = a + n - 1
      OBVIOUS
    <3> QED
      BY <1>3, <3>1, <3>3, <3>4
  <2>4. n <= b - a \/ n > b - a
    OBVIOUS
  <2> QED
    BY <2>2, <2>3, <2>4
<1>6. s \o t = Blocks(a, c)
  BY <1>3, <1>4, <1>5, SameSequence
<1> QED
  BY <1>6 DEF s, t

\* The windows, the last of them the whole chain, cover every block.
LEMMA NearBlockCovers ==
  ASSUME NEW approx \in Nat, NEW newest \in Nat
  PROVE  LET s == NearBlock(approx, newest) IN
         /\ s \in Seq(Spans) /\ s # <<>>
         /\ \A n \in 1..Len(s) : s[n].last # Newest
         /\ \E n \in 1..Len(s) : s[n] = Span(0, newest)
<1> DEFINE s == NearBlock(approx, newest)
           k == Len(Windows) + 1
<1>1. k \in Nat \ {0} /\ \A w \in 1..k : w <= Len(Windows) => Windows[w] \in Nat
  BY EventAssumption
<1>2. Smaller(approx, newest) \in Nat
  BY DEF Smaller
<1>3. ASSUME NEW w \in 1..k PROVE s[w] \in Spans /\ s[w].last \in Nat
  <2>1. CASE w > Len(Windows)
    BY <2>1 DEF NearBlock, Span, Spans
  <2>2. CASE ~(w > Len(Windows))
    <3>1. Windows[w] \in Nat
      BY <1>1, <2>2
    <3> QED
      BY <1>2, <2>2, <3>1 DEF NearBlock, Span, Spans, Smaller
  <2> QED
    BY <2>1, <2>2
<1>4. s \in Seq(Spans) /\ Len(s) = k
  BY <1>1, <1>3 DEF NearBlock
<1>5. s[k] = Span(0, newest) /\ k \in 1..Len(s)
  BY <1>1, <1>4 DEF NearBlock
<1> QED
  BY <1>3, <1>4, <1>5 DEF Newest

\* The ranges of one request each cover every block from the start on.
LEMMA OnwardsCovers ==
  ASSUME NEW start \in Nat, NEW newest \in Nat, start <= newest
  PROVE  LET s == Onwards(start, newest) IN
         /\ s \in Seq(Spans) /\ s # <<>>
         /\ \A n \in 1..Len(s) : s[n].last # Newest
         /\ \A e \in start..newest :
              \E n \in 1..Len(s) : s[n].first <= e /\ e <= s[n].last
<1> DEFINE s == Onwards(start, newest)
           k == (newest - start) \div Chunk + 1
<1>1. Chunk \in Nat \ {0} /\ newest - start \in Nat
  BY EventAssumption
<1>2. k \in Nat \ {0}
  BY <1>1, DivisionFacts
<1>3. ASSUME NEW n \in 1..k
      PROVE /\ s[n] = Span(start + (n - 1) * Chunk, Smaller(start + n * Chunk - 1, newest))
            /\ s[n] \in Spans /\ s[n].last \in Nat
  <2>1. (n - 1) * Chunk \in Nat /\ n * Chunk \in Nat /\ n * Chunk >= 1
    BY <1>1
  <2> QED
    BY <1>1, <2>1 DEF Onwards, Span, Spans, Smaller
<1>4. s \in Seq(Spans) /\ Len(s) = k
  <2>1. s = [n \in 1..k |-> Span(start + (n - 1) * Chunk,
                                Smaller(start + n * Chunk - 1, newest))]
    BY DEF Onwards
  <2> HIDE DEF s, k
  <2>2. s \in [1..k -> Spans]
    BY <1>3, <2>1
  <2> QED
    BY <1>2, <2>2
<1>5. ASSUME NEW e \in start..newest
      PROVE  \E n \in 1..Len(s) : s[n].first <= e /\ e <= s[n].last
  <2> DEFINE d == (e - start) \div Chunk
  <2>1. /\ d \in Nat /\ d <= k - 1
        /\ d * Chunk <= e - start /\ e - start < d * Chunk + Chunk
    <3>1. e - start \in Nat /\ e - start <= newest - start
      OBVIOUS
    <3> QED
      BY <1>1, <3>1, DivisionFacts
  <2>2. d + 1 \in 1..k /\ (d + 1) * Chunk = d * Chunk + Chunk /\ d * Chunk \in Nat
    BY <1>1, <1>2, <2>1
  <2>3. s[d + 1] = Span(start + d * Chunk, Smaller(start + (d + 1) * Chunk - 1, newest))
    BY <1>3, <2>1, <2>2
  <2>4. s[d + 1].first <= e /\ e <= s[d + 1].last
    BY <1>1, <2>1, <2>2, <2>3 DEF Span, Smaller
  <2> QED
    BY <1>4, <2>2, <2>4
<1> QED
  BY <1>2, <1>3, <1>4, <1>5 DEF Newest

-----------------------------------------------------------------------------
LEMMA EventInvInit == EventInit => EventInv
<1> SUFFICES ASSUME EventInit PROVE EventInv
  OBVIOUS
<1>1. tip \in Nat /\ event \in Nat /\ step = "ask" /\ Received /\ MissingIsNowhere
  BY EventAssumption DEF EventInit, Received, MissingIsNowhere
<1>2. /\ wanted \in Spans /\ ranges \in Seq(Spans) /\ ranges # <<>> /\ Pending
  <2>1. ASSUME NEW approx \in 0..Final,
               ranges = NearBlock(approx, tip), wanted = Span(0, tip)
        PROVE  wanted \in Spans /\ ranges \in Seq(Spans) /\ ranges # <<>> /\ Pending
    <3>1. wanted \in Spans /\ wanted.last # Newest
      BY <1>1, <2>1 DEF Span, Spans, Newest
    <3>2. approx \in Nat
      BY EventAssumption
    <3> QED
      BY <1>1, <2>1, <3>1, <3>2, NearBlockCovers DEF Pending
  <2>2. ASSUME NEW start \in 0..tip,
               ranges = Onwards(start, tip), wanted = Span(start, tip)
        PROVE  wanted \in Spans /\ ranges \in Seq(Spans) /\ ranges # <<>> /\ Pending
    <3>1. wanted \in Spans /\ wanted.last # Newest /\ wanted.first = start /\ wanted.last = tip
      BY <1>1, <2>2 DEF Span, Spans, Newest
    <3>2. start \in Nat /\ start <= tip
      BY <1>1
    <3>3. /\ ranges \in Seq(Spans) /\ ranges # <<>>
          /\ \A n \in 1..Len(ranges) : ranges[n].last # Newest
          /\ \A e \in start..tip :
               \E n \in 1..Len(ranges) : ranges[n].first <= e /\ e <= ranges[n].last
      BY <1>1, <2>2, <3>2, OnwardsCovers
    <3>4. Covers(wanted) => event \in start..tip
      BY <1>1, <3>1, <3>2 DEF Covers
    <3> QED
      BY <3>1, <3>3, <3>4 DEF Pending, Covers
  <2>3. ASSUME NEW start \in 0..Final, NEW last \in {Newest} \cup 0..Final,
               ranges = <<Span(start, last)>>, wanted = Span(start, last)
        PROVE  wanted \in Spans /\ ranges \in Seq(Spans) /\ ranges # <<>> /\ Pending
    <3>1. wanted \in Spans /\ ranges = <<wanted>>
      BY <2>3, EventAssumption DEF Span, Spans
    <3> QED
      BY <3>1 DEF Pending, Covers
  <2> QED
    BY <2>1, <2>2, <2>3 DEF EventInit
<1> QED
  BY <1>1, <1>2 DEF EventInv

\* The head of the ranges is their first one.
LEMMA HeadOfRanges ==
  ASSUME EventInv, step # "missing"
  PROVE  /\ ranges # <<>> /\ Len(ranges) \in Nat \ {0}
         /\ Head(ranges) = ranges[1] /\ ranges[1] \in Spans
BY DEF EventInv

LEMMA EventInvNext == EventInv /\ [EventNext]_eventVars => EventInv'
<1> SUFFICES ASSUME EventInv, [EventNext]_eventVars PROVE EventInv'
  OBVIOUS
<1>1. CASE Ask
  <2>1. /\ step = "ask" /\ ranges[1] \in Spans /\ Head(ranges) = ranges[1]
        /\ tip \in Nat
    BY <1>1, HeadOfRanges DEF Ask, EventInv
  <2>2. /\ from' = ranges[1].first /\ from' \in Nat /\ end' \in Nat
        /\ ranges[1].last \in {Newest, end'}
        /\ step' = (IF end' - from' >= Chunk THEN "chunk" ELSE "whole")
        /\ got' = <<>>
    BY <1>1, <2>1 DEF Ask, Spans
  <2>3. Received'
    <3>1. step' = "chunk" => from' <= end' /\ got' = Blocks(ranges[1].first, from' - 1)
      BY <2>2, EventAssumption DEF Blocks
    <3> QED
      BY <1>1, <2>2, <3>1 DEF Ask, Received
  <2> QED
    BY <1>1, <2>1, <2>2, <2>3
    DEF Ask, EventInv, Pending, Covers, MissingIsNowhere
<1>2. CASE AskWhole
  <2>1. /\ step = "whole" /\ ranges[1] \in Spans /\ Head(ranges) = ranges[1]
        /\ tip \in Nat /\ from = ranges[1].first /\ end \in Nat
        /\ ranges[1].last \in {Newest, end}
    BY <1>2, HeadOfRanges DEF AskWhole, EventInv, Received
  <2>2. Received' /\ step' \in {"failed", "reply"}
    BY <1>2, <2>1 DEF AskWhole, Received
  <2> QED
    BY <1>2, <2>1, <2>2
    DEF AskWhole, EventInv, Pending, Covers, MissingIsNowhere
<1>3. CASE AskChunk
  <2>1. /\ step = "chunk" /\ ranges[1] \in Spans
        /\ from \in Nat /\ end \in Nat /\ ranges[1].first <= from /\ from <= end
        /\ ranges[1].last \in {Newest, end} /\ ranges[1].first \in Nat
        /\ got = Blocks(ranges[1].first, from - 1)
    BY <1>3, HeadOfRanges DEF AskChunk, EventInv, Received, Spans
  <2>2. /\ Chunk \in Nat \ {0} /\ ChunkEnd \in Nat /\ from <= ChunkEnd + 1
        /\ from + Chunk <= end => ChunkEnd = from + Chunk - 1
        /\ ~(from + Chunk <= end) => ChunkEnd = end
    BY <2>1, EventAssumption DEF ChunkEnd, Smaller
  <2>3. got' = Blocks(ranges[1].first, ChunkEnd)
    BY <1>3, <2>1, <2>2, BlocksJoin DEF AskChunk
  <2>4. Received' /\ step' \in {"chunk", "reply"}
    <3>1. /\ from' = from + Chunk /\ end' = end /\ ranges' = ranges
          /\ step' = (IF from' <= end THEN "chunk" ELSE "reply")
      BY <1>3 DEF AskChunk
    <3>2. CASE from' <= end
      <4>1. /\ step' = "chunk" /\ from' \in Nat /\ from <= from'
            /\ ChunkEnd = from' - 1 /\ ranges[1].first <= from'
        BY <2>1, <2>2, <3>1, <3>2
      <4>2. got' = Blocks(ranges[1].first, from' - 1)
        BY <2>3, <4>1
      <4> QED
        BY <2>1, <3>1, <3>2, <4>1, <4>2 DEF Received
    <3>3. CASE ~(from' <= end)
      <4>1. step' = "reply" /\ got' = Blocks(ranges[1].first, end)
        BY <2>2, <2>3, <3>1, <3>3
      <4> QED
        BY <2>1, <3>1, <4>1 DEF Received
    <3> QED
      BY <3>2, <3>3
  <2> QED
    BY <1>3, <2>1, <2>4
    DEF AskChunk, EventInv, Pending, Covers, MissingIsNowhere
<1>4. CASE Reply
  <2>0. Len(ranges) \in Nat \ {0}
    BY <1>4, HeadOfRanges DEF Reply
  <2>1. /\ step = "reply" /\ ranges[1] \in Spans /\ end \in Nat
        /\ ranges[1].last \in {Newest, end} /\ event \in Nat
        /\ got = Blocks(ranges[1].first, end) /\ Len(ranges) \in Nat \ {0}
    BY <1>4, HeadOfRanges DEF Reply, EventInv, Received
  <2>2. CASE Holds
    BY <1>4, <2>1, <2>2
    DEF Reply, EventInv, Pending, Covers, Received, MissingIsNowhere
  <2>3. CASE ~Holds
    <3>1. ~(ranges[1].first <= event /\ event <= end)
      <4> SUFFICES ASSUME ranges[1].first <= event, event <= end PROVE FALSE
        OBVIOUS
      <4> DEFINE n == event - ranges[1].first + 1
      <4>1. ranges[1].first \in Nat
        BY <2>1 DEF Spans
      <4>2. n \in DOMAIN got /\ got[n] = event
        <5>1. PICK a \in Nat, b \in Nat, e \in Nat : a = ranges[1].first /\ b = end /\ e = event
          BY <2>1, <4>1
        <5>2. got = Blocks(a, b) /\ n = e - a + 1 /\ a <= e /\ e <= b
          BY <2>1, <5>1
        <5>3. n \in 1..(IF b < a THEN 0 ELSE b - a + 1) /\ a + n - 1 = e
          BY <5>2
        <5> HIDE DEF n
        <5> QED
          BY <5>1, <5>2, <5>3 DEF Blocks
      <4> QED
        BY <2>3, <4>2 DEF Holds
    <3>2. /\ ranges' = Tail(ranges) /\ ranges' \in Seq(Spans)
          /\ Len(ranges') = Len(ranges) - 1
          /\ \A n \in 1..Len(ranges') : ranges'[n] = ranges[n + 1]
          /\ step' = (IF Len(ranges) > 1 THEN "ask" ELSE "missing")
          /\ UNCHANGED <<tip, event, wanted, end>>
      <4>1. ranges' = Tail(ranges) /\ UNCHANGED <<tip, event, wanted, end>>
        BY <1>4, <2>1, <2>3 DEF Reply
      <4>2. step' = (IF Len(ranges) > 1 THEN "ask" ELSE "missing")
        BY <1>4, <2>1, <2>3 DEF Reply
      <4>3. ranges \in Seq(Spans) /\ ranges # <<>>
        BY <1>4, <2>1 DEF EventInv, Reply
      <4>4. /\ Tail(ranges) \in Seq(Spans) /\ Len(Tail(ranges)) = Len(ranges) - 1
            /\ \A n \in 1..Len(Tail(ranges)) : Tail(ranges)[n] = ranges[n + 1]
        BY <4>3
      <4> QED
        BY <4>1, <4>2, <4>4
    <3>3. CASE Len(ranges) > 1
      <4>1. wanted.last # Newest
        <5>1. Len(<<wanted>>) = 1
          OBVIOUS
        <5>2. ASSUME ranges = <<wanted>> PROVE FALSE
          <6>1. Len(ranges) = 1
            BY <5>1, <5>2
          <6> QED
            BY <3>3, <6>1
        <5> QED
          BY <2>1, <5>2 DEF EventInv, Pending
      <4>2. ASSUME Covers(wanted) PROVE \E n \in 1..Len(ranges') : Covers(ranges'[n])
        <5>1. PICK n \in 1..Len(ranges) : Covers(ranges[n])
          BY <2>1, <4>1, <4>2 DEF EventInv, Pending
        <5>2. n # 1
          <6>1. ranges[1].last = end
            BY <2>1, <4>1 DEF EventInv, Pending
          <6> QED
            BY <3>1, <5>1, <6>1 DEF Covers
        <5>3. n - 1 \in 1..Len(ranges') /\ ranges'[n - 1] = ranges[n]
          BY <2>1, <3>2, <5>2
        <5> QED
          BY <5>1, <5>3
      <4>3. Pending'
        <5>1. \A n \in 1..Len(ranges') : ranges'[n].last # Newest
          <6>1. \A n \in 1..Len(ranges) : ranges[n].last # Newest
            BY <2>1, <4>1 DEF EventInv, Pending
          <6> QED
            BY <2>1, <3>2, <6>1
        <5> QED
          BY <3>2, <4>1, <4>2, <5>1 DEF Pending, Covers
      <4>4. step' = "ask" /\ ranges' # <<>>
        <5>1. Len(ranges') = Len(ranges) - 1
          BY <3>2
        <5>2. ranges' # <<>>
          <6>1. Len(ranges') # 0
            BY ONLY <2>0, <3>3, <5>1
          <6> QED
            BY ONLY <6>1
        <5> QED
          BY <3>2, <3>3, <5>2
      <4>5. Received' /\ MissingIsNowhere'
        BY <4>4 DEF Received, MissingIsNowhere
      <4>6. tip' \in Nat /\ event' \in Nat /\ wanted' \in Spans
        BY <3>2 DEF EventInv
      <4> QED
        BY <3>2, <4>3, <4>4, <4>5, <4>6 DEF EventInv
    <3>4. CASE ~(Len(ranges) > 1)
      <4>1. Len(ranges) = 1
        BY <2>0, <3>4
      <4>2. MissingIsNowhere'
        <5>1. CASE wanted.last = Newest
          <6>1. ranges[1] = wanted
            BY <2>1, <5>1 DEF EventInv, Pending
          <6> QED
            BY <3>1, <3>2, <5>1, <6>1 DEF MissingIsNowhere
        <5>2. CASE wanted.last # Newest
          <6>1. Covers(wanted) => Covers(ranges[1])
            BY <2>1, <4>1, <5>2 DEF EventInv, Pending
          <6>2. ranges[1].last = end
            BY <2>1, <4>1, <5>2 DEF EventInv, Pending
          <6> QED
            BY <3>1, <3>2, <5>2, <6>1, <6>2 DEF MissingIsNowhere, Covers
        <5> QED
          BY <5>1, <5>2
      <4> QED
        BY <3>2, <3>4, <4>2, <2>1 DEF EventInv, Received
    <3> QED
      BY <3>3, <3>4
  <2> QED
    BY <2>2, <2>3
<1>5. CASE NodeFails
  BY <1>5 DEF NodeFails, EventInv, Pending, Covers, Received, MissingIsNowhere
<1>6. CASE TipGrows
  BY <1>6 DEF TipGrows, EventInv, Pending, Covers, Received, MissingIsNowhere
<1>7. CASE UNCHANGED eventVars
  BY <1>7
  DEF eventVars, EventInv, Pending, Covers, Received, MissingIsNowhere, Blocks
<1> QED
  BY <1>1, <1>2, <1>3, <1>4, <1>5, <1>6, <1>7 DEF EventNext

LEMMA EventInvHolds == EventSpec => []EventInv
BY EventInvInit, EventInvNext, PTL DEF EventSpec

(***************************************************************************)
(* The transport's answers hold the logs asked for, exactly, and the       *)
(* client's searches overlook no event: for chunks and windows of any size,*)
(* chains of any length and whatever the approximate block.                *)
(***************************************************************************)
THEOREM EventsAreAlwaysFound == EventSpec => []EventsAreFound
<1>1. EventInv => LogsAreExact
  <2> SUFFICES ASSUME EventInv, step = "reply" PROVE LogsAreExact
    BY DEF LogsAreExact
  <2> QED
    BY HeadOfRanges DEF EventInv, Received, LogsAreExact
<1>2. EventInv => MissingIsNowhere
  BY DEF EventInv
<1>3. EventInv => EventsAreFound
  BY <1>1, <1>2 DEF EventsAreFound
<1> QED
  BY <1>3, EventInvHolds, PTL
-----------------------------------------------------------------------------
(* ReportDecision: what the loop over jobs and steps leaves of what it has *)
(* seen, and what is made of that.                                         *)

Formats == {"html", "md", "json", "pdf", "coverage", "results"}
Run == [CheckIds -> Result]

DecisionTypes ==
  /\ jobs \in JobLists
  /\ reporting \in {"source", "blocks", "destinations", "write", "coverage", "results",
                    "done", "failed"}
  /\ job \in Nat \ {0} /\ call \in Nat \ {0}
  /\ reporting \notin {"source", "failed"} => sourceChecks \in Run
  /\ destChecks \in [Chains -> {NoRun} \cup Run]
  /\ DOMAIN files = Formats

\* Nothing that was found on a step is merged away, and only a chain with
\* checks has results.
FindingsAreKept ==
  /\ \A c \in Chains : destChecks[c] # NoRun => c \in Examined
  /\ \A e \in examined :
       /\ e.job \in DOMAIN jobs /\ e.run \in Run
       /\ destChecks[jobs[e.job].chain] \in Run
       /\ \A k \in CheckIds :
            e.run[k].found \subseteq destChecks[jobs[e.job].chain][k].found

\* What lies behind the loop over jobs and steps was examined.
StepSeen(n, s) == \E e \in examined : e.job = n /\ e.call = s

StepsAreCounted ==
  /\ \A n \in DOMAIN jobs :
       n < job /\ jobs[n].status = "success" /\ jobs[n].chain \in Examined =>
         jobs[n].chain \in thrown \/ \A s \in 1..jobs[n].steps : StepSeen(n, s)
  /\ \A s \in 1..call - 1 : StepSeen(job, s)

\* A report is made of what the loop left, and the files of that report.
FilesAreTheReports ==
  /\ report # NoReport =>
       /\ job \notin DOMAIN jobs /\ reporting \notin {"source", "blocks", "destinations"}
       /\ sourceChecks \in Run
       /\ \E lost \in BOOLEAN : report = StructuredReport(lost)
  /\ \A f \in {"json", "results"} : files[f] \in {NoReport, report}
  /\ reporting \in {"coverage", "results"} \/ files["json"] # NoReport \/ files["results"] # NoReport
       => files["md"] = Markdown

DecisionInv == DecisionTypes /\ FindingsAreKept /\ StepsAreCounted /\ FilesAreTheReports

\* Merging keeps what either side has found.
LEMMA Merging ==
  ASSUME NEW a \in {NoRun} \cup Run, NEW b \in Run
  PROVE  /\ MergedAll(a, b) \in Run
         /\ \A k \in CheckIds : b[k].found \subseteq MergedAll(a, b)[k].found
         /\ a \in Run => \A k \in CheckIds : a[k].found \subseteq MergedAll(a, b)[k].found
<1>1. DOMAIN NoRun = {}
  BY DEF NoRun
<1>2. CASE a \in Run
  <2>1. \A k \in CheckIds : a[k] \in Result /\ b[k] \in Result
    BY <1>2 DEF Run
  <2>2. MergedAll(a, b) = [k \in CheckIds |-> Merged(a[k], b[k])]
    BY <1>2 DEF MergedAll, Run
  <2> QED
    BY <2>1, <2>2 DEF Merged, Run, Result
<1>3. CASE a \notin Run
  <2>1. DOMAIN a = {}
    BY <1>1, <1>3
  <2>2. MergedAll(a, b) = b
    BY <2>1 DEF MergedAll, Run
  <2> QED
    BY <1>3, <2>2 DEF Run
<1> QED
  BY <1>2, <1>3

\* What the engine hands over.
LEMMA JobFacts ==
  ASSUME jobs \in JobLists
  PROVE  /\ jobs \in Seq(Job) /\ DOMAIN jobs = 1..Len(jobs) /\ Len(jobs) \in Nat
         /\ \A n \in DOMAIN jobs :
              /\ jobs[n] \in Job /\ jobs[n].chain \in Chains /\ jobs[n].chain # Source
              /\ jobs[n].status = "skipped" => jobs[n].chain \notin Examined
  BY ReportAssumption DEF Chains

\* The invariant holds at first.
LEMMA DecisionInitially == DecisionInit => DecisionInv
<1> SUFFICES ASSUME DecisionInit PROVE DecisionInv
  OBVIOUS
<1>1. DecisionTypes
  BY DEF DecisionInit, DecisionTypes, NothingSaved, Formats
<1>2. FindingsAreKept
  BY DEF DecisionInit, FindingsAreKept
<1>3. StepsAreCounted
  <2>1. job = 1 /\ call = 1 /\ DOMAIN jobs = 1..Len(jobs)
    BY <1>1, JobFacts DEF DecisionInit, DecisionTypes
  <2> QED
    BY <2>1 DEF StepsAreCounted
<1>4. FilesAreTheReports
  BY DEF DecisionInit, FilesAreTheReports, NothingSaved
<1> QED
  BY <1>1, <1>2, <1>3, <1>4 DEF DecisionInv

\* While no report is made, nothing that it is made of is in a file.
LEMMA BeforeTheReport ==
  ASSUME DecisionInv, reporting \in {"source", "blocks", "destinations"},
         UNCHANGED <<report, files>>, reporting' \notin {"coverage", "results"}
  PROVE  FilesAreTheReports'
<1>1. report = NoReport
  BY DEF DecisionInv, FilesAreTheReports
<1>2. files["json"] = NoReport /\ files["results"] = NoReport
  BY <1>1 DEF DecisionInv, FilesAreTheReports
<1> QED
  BY <1>1, <1>2 DEF FilesAreTheReports

\* A job is behind the loop if it was not to be examined, or wholly was.
LEMMA BehindTheLoop ==
  ASSUME DecisionInv, job \in DOMAIN jobs,
         job' = job + 1, call' = 1, jobs' = jobs, examined' = examined,
         thrown \subseteq thrown',
         \/ jobs[job].status # "success" \/ jobs[job].chain \notin Examined
         \/ jobs[job].chain \in thrown'
         \/ call > jobs[job].steps
  PROVE  StepsAreCounted'
<1>1. /\ job \in Nat /\ call \in Nat /\ DOMAIN jobs = 1..Len(jobs) /\ Len(jobs) \in Nat
      /\ jobs[job].steps \in Nat
  BY JobFacts DEF DecisionInv, DecisionTypes, Job
<1>2. ASSUME NEW n \in DOMAIN jobs, n < job + 1, jobs[n].status = "success",
             jobs[n].chain \in Examined, jobs[n].chain \notin thrown',
             NEW s \in 1..jobs[n].steps
      PROVE  StepSeen(n, s)
  <2>1. CASE n < job
    BY <1>2, <2>1 DEF DecisionInv, StepsAreCounted
  <2>2. CASE ~(n < job)
    <3>1. n = job
      BY <1>1, <1>2, <2>2
    <3>2. s \in 1..call - 1
      BY <1>1, <1>2, <3>1
    <3> QED
      BY <3>1, <3>2 DEF DecisionInv, StepsAreCounted
  <2> QED
    BY <2>1, <2>2
<1> QED
  BY <1>1, <1>2 DEF StepsAreCounted, StepSeen

\* The loop over the jobs and their steps.
LEMMA LoopKeepsInv ==
  ASSUME DecisionInv, NextJob \/ CheckStep \/ CheckThrows
  PROVE  DecisionInv'
<1>0. /\ reporting = "destinations" /\ reporting' = reporting /\ job \in DOMAIN jobs
      /\ jobs' = jobs /\ sourceChecks' = sourceChecks /\ UNCHANGED <<report, files>>
      /\ Chains' = Chains /\ job \in Nat /\ call \in Nat /\ call # 0
      /\ jobs[job].chain \in Chains /\ jobs \in JobLists
  BY JobFacts DEF NextJob, CheckStep, CheckThrows, Chains, DecisionInv, DecisionTypes
<1>1. FilesAreTheReports'
  BY <1>0, BeforeTheReport
<1>2. CASE NextJob \/ CheckThrows
  <2>1. UNCHANGED <<destChecks, examined>> /\ job' = job + 1 /\ call' = 1
    BY <1>2 DEF NextJob, CheckThrows
  <2>2. StepsAreCounted'
    <3>1. thrown \subseteq thrown'
      BY <1>2 DEF NextJob, CheckThrows
    <3>2. \/ jobs[job].status # "success" \/ jobs[job].chain \notin Examined
          \/ jobs[job].chain \in thrown' \/ call > jobs[job].steps
      BY <1>2 DEF NextJob, CheckThrows
    <3> QED
      BY <1>0, <2>1, <3>1, <3>2, BehindTheLoop
  <2>3. DecisionTypes' /\ FindingsAreKept'
    BY <1>0, <2>1 DEF DecisionInv, DecisionTypes, FindingsAreKept
  <2> QED
    BY <1>1, <2>2, <2>3 DEF DecisionInv
<1>3. CASE CheckStep
  <2> DEFINE c == jobs[job].chain
  <2>1. PICK run \in Outcomes :
          /\ destChecks' = [destChecks EXCEPT ![c] = MergedAll(@, run)]
          /\ examined' = examined \cup {[job |-> job, call |-> call, run |-> run]}
    BY <1>3 DEF CheckStep
  <2>2. /\ run \in Run /\ c \in Examined /\ call' = call + 1 /\ job' = job
        /\ thrown' = thrown
    BY <1>3, ReportAssumption DEF CheckStep, Run
  <2> DEFINE new == MergedAll(destChecks[c], run)
  <2>3. /\ destChecks \in [Chains -> {NoRun} \cup Run] /\ c \in Chains
        /\ destChecks[c] \in {NoRun} \cup Run
    BY <1>0 DEF DecisionInv, DecisionTypes
  <2>4. /\ new \in Run
        /\ \A k \in CheckIds : run[k].found \subseteq new[k].found
        /\ destChecks[c] \in Run =>
             \A k \in CheckIds : destChecks[c][k].found \subseteq new[k].found
    BY <2>2, <2>3, Merging
  <2>5. /\ destChecks' \in [Chains -> {NoRun} \cup Run] /\ destChecks'[c] = new
        /\ \A d \in Chains \ {c} : destChecks'[d] = destChecks[d]
    <3>1. destChecks' = [destChecks EXCEPT ![c] = new]
      BY <2>1
    <3> HIDE DEF new, c
    <3> QED
      BY <2>3, <2>4, <3>1
  <2>6. DecisionTypes'
    BY <1>0, <2>2, <2>5 DEF DecisionInv, DecisionTypes
  <2>7. FindingsAreKept'
    <3>1. \A d \in Chains' : destChecks'[d] # NoRun => d \in Examined
      BY <1>0, <2>2, <2>5 DEF DecisionInv, FindingsAreKept
    <3>2. ASSUME NEW e \in examined'
          PROVE  /\ e.job \in DOMAIN jobs /\ e.run \in Run
                 /\ destChecks'[jobs[e.job].chain] \in Run
                 /\ \A k \in CheckIds :
                      e.run[k].found \subseteq destChecks'[jobs[e.job].chain][k].found
      <4>1. CASE e \in examined
        <5>1. /\ e.job \in DOMAIN jobs /\ e.run \in Run
              /\ destChecks[jobs[e.job].chain] \in Run
              /\ \A k \in CheckIds :
                   e.run[k].found \subseteq destChecks[jobs[e.job].chain][k].found
          BY <4>1 DEF DecisionInv, FindingsAreKept
        <5>2. jobs[e.job].chain \in Chains
          BY <1>0, <5>1, JobFacts
        <5>3. CASE jobs[e.job].chain = c
          <6> HIDE DEF c, new
          <6> QED
            BY <2>4, <2>5, <5>1, <5>3
        <5>4. CASE jobs[e.job].chain # c
          <6>1. destChecks'[jobs[e.job].chain] = destChecks[jobs[e.job].chain]
            BY <2>5, <5>2, <5>4
          <6> QED
            BY <5>1, <6>1
        <5> QED
          BY <5>3, <5>4
      <4>2. CASE e = [job |-> job, call |-> call, run |-> run]
        BY <1>0, <2>2, <2>4, <2>5, <4>2
      <4> QED
        BY <2>1, <4>1, <4>2
    <3> QED
      BY <1>0, <3>1, <3>2 DEF FindingsAreKept
  <2>8. StepsAreCounted'
    <3>1. \A n, s : StepSeen(n, s) => \E e \in examined' : e.job = n /\ e.call = s
      BY <2>1 DEF StepSeen
    <3>2. \E e \in examined' : e.job = job /\ e.call = call
      <4> DEFINE e == [job |-> job, call |-> call, run |-> run]
      <4>1. e \in examined' /\ e.job = job /\ e.call = call
        BY <2>1
      <4> QED
        BY <4>1
    <3>3. ASSUME NEW s \in 1..call' - 1
          PROVE  \E e \in examined' : e.job = job /\ e.call = s
      <4>1. s \in 1..call - 1 \/ s = call
        BY <1>0, <2>2
      <4> QED
        BY <3>1, <3>2, <4>1 DEF DecisionInv, StepsAreCounted
    <3>4. \A n \in DOMAIN jobs :
            n < job /\ jobs[n].status = "success" /\ jobs[n].chain \in Examined =>
              jobs[n].chain \in thrown \/ \A s \in 1..jobs[n].steps : StepSeen(n, s)
      BY DEF DecisionInv, StepsAreCounted
    <3>5. \A n \in DOMAIN jobs :
            n < job /\ jobs[n].status = "success" /\ jobs[n].chain \in Examined =>
              \/ jobs[n].chain \in thrown
              \/ \A s \in 1..jobs[n].steps : \E e \in examined' : e.job = n /\ e.call = s
      <4> SUFFICES ASSUME NEW n \in DOMAIN jobs, n < job, jobs[n].status = "success",
                          jobs[n].chain \in Examined, jobs[n].chain \notin thrown,
                          NEW s \in 1..jobs[n].steps
                   PROVE  \E e \in examined' : e.job = n /\ e.call = s
        OBVIOUS
      <4>1. StepSeen(n, s)
        BY <3>4
      <4> QED
        BY <3>1, <4>1
    <3>6. jobs' = jobs /\ job' = job /\ thrown' = thrown
      BY <1>0, <2>2
    <3> QED
      BY <3>3, <3>5, <3>6, Zenon DEF StepsAreCounted, StepSeen
  <2> QED
    BY <1>1, <2>6, <2>7, <2>8 DEF DecisionInv
<1> QED
  BY <1>2, <1>3 

\* What the report and the files are made of.
Evidence == <<jobs, sourceChecks, destChecks, examined, thrown, job, call>>

LEMMA SameEvidence ==
  ASSUME UNCHANGED Evidence
  PROVE  /\ Markdown' = Markdown
         /\ \A lost \in BOOLEAN : StructuredReport(lost)' = StructuredReport(lost)
         /\ FindingsAreKept' = FindingsAreKept /\ StepsAreCounted' = StepsAreCounted
         /\ Chains' = Chains
BY DEF Evidence, Markdown, StructuredReport, FindingsAreKept, StepsAreCounted, Chains, StepSeen,
       MarkdownResult, ChainReports, Covered, ExecutionStatus, JobStatuses, Coverage, Preview,
       DestinationStatus

\* The checks of the source, and the blocks.
LEMMA EarlyKeepsInv ==
  ASSUME DecisionInv, CheckSource \/ FetchBlocks
  PROVE  DecisionInv'
<1>0. /\ reporting \in {"source", "blocks"} /\ reporting' \in {"blocks", "destinations", "failed"}
      /\ UNCHANGED <<jobs, job, call, destChecks, examined, thrown, report, files>>
      /\ Chains' = Chains
  BY DEF CheckSource, FetchBlocks, Chains
<1>1. FilesAreTheReports'
  BY <1>0, BeforeTheReport
<1>2. DecisionTypes'
  <2>1. reporting' # "failed" => sourceChecks' \in Run
    BY ReportAssumption DEF CheckSource, FetchBlocks, DecisionInv, DecisionTypes, Run
  <2> QED
    BY <1>0, <2>1 DEF DecisionInv, DecisionTypes
<1>3. FindingsAreKept' /\ StepsAreCounted'
  BY <1>0 DEF DecisionInv, FindingsAreKept, StepsAreCounted, StepSeen
<1> QED
  BY <1>1, <1>2, <1>3 DEF DecisionInv

\* The report is made of what the loop has left.
LEMMA BuildKeepsInv ==
  ASSUME DecisionInv, BuildReport
  PROVE  DecisionInv'
<1>0. /\ UNCHANGED Evidence /\ UNCHANGED files /\ reporting = "destinations"
      /\ job \notin DOMAIN jobs /\ reporting' \in {"write", "failed"}
  BY DEF BuildReport, Evidence
<1>1. /\ UNCHANGED <<jobs, sourceChecks, destChecks, job, call>> /\ Chains' = Chains
      /\ FindingsAreKept' /\ StepsAreCounted'
  BY <1>0, SameEvidence DEF Evidence, DecisionInv
<1>2. DecisionTypes'
  BY <1>0, <1>1 DEF DecisionInv, DecisionTypes
<1>3. files["json"] = NoReport /\ files["results"] = NoReport
  BY <1>0 DEF DecisionInv, FilesAreTheReports
<1>4. sourceChecks' \in Run
  BY <1>0, <1>1 DEF DecisionInv, DecisionTypes
<1>5. report' # NoReport => \E lost \in BOOLEAN : report' = StructuredReport(lost)'
  <2>1. report' = NoReport \/ \E lost \in BOOLEAN : report' = StructuredReport(lost)
    BY <1>0 DEF BuildReport, DecisionInv, FilesAreTheReports
  <2> QED
    BY <1>0, <2>1, SameEvidence
<1>6. FilesAreTheReports'
  BY <1>0, <1>1, <1>3, <1>4, <1>5 DEF FilesAreTheReports
<1> QED
  BY <1>1, <1>2, <1>6 DEF DecisionInv

\* Only with all four formats written does it go on.
LEMMA FourFormats ==
  /\ Cardinality({}) # 4 /\ Cardinality({"md", "html"}) # 4
  /\ Cardinality({"md", "html", "json"}) # 4
<1>1. IsFiniteSet({}) /\ Cardinality({}) = 0
  BY FS_EmptySet
<1>2. IsFiniteSet({"md"}) /\ Cardinality({"md"}) = 1
  BY FS_Singleton
<1>3. IsFiniteSet({"md"} \cup {"html"}) /\ Cardinality({"md"} \cup {"html"}) = 2
  BY <1>2, FS_AddElement
<1>4. {"md"} \cup {"html"} = {"md", "html"}
  OBVIOUS
<1>5. Cardinality({"md", "html"} \cup {"json"}) = 3
  BY <1>3, <1>4, FS_AddElement
<1>6. {"md", "html"} \cup {"json"} = {"md", "html", "json"}
  OBVIOUS
<1> QED
  BY <1>1, <1>3, <1>4, <1>5, <1>6

\* A step that saves the report, or its Markdown, keeps the invariant.
LEMMA SavedFiles ==
  ASSUME DecisionInv, UNCHANGED <<report, Evidence>>,
         reporting \notin {"source", "failed"},
         reporting' \in {"coverage", "results", "done", "failed"},
         DOMAIN files' = Formats,
         \A f \in {"json", "results"} : files'[f] \in {files[f], report},
         files["md"] = Markdown => files'["md"] = Markdown,
         files'["json"] # NoReport \/ files'["results"] # NoReport =>
           \/ files["json"] # NoReport \/ files["results"] # NoReport
           \/ files'["md"] = Markdown,
         reporting' \in {"coverage", "results"} => files'["md"] = Markdown
  PROVE  DecisionInv'
<1>1. /\ UNCHANGED <<jobs, sourceChecks, destChecks, job, call>> /\ Chains' = Chains
      /\ FindingsAreKept' /\ StepsAreCounted' /\ Markdown' = Markdown
  BY SameEvidence DEF Evidence, DecisionInv
<1>2. DecisionTypes'
  BY <1>1 DEF DecisionInv, DecisionTypes
<1>3. report' # NoReport =>
        /\ job' \notin DOMAIN jobs' /\ sourceChecks' \in Run
        /\ \E lost \in BOOLEAN : report' = StructuredReport(lost)'
  BY <1>1, SameEvidence DEF DecisionInv, FilesAreTheReports
<1>4. FilesAreTheReports'
  BY <1>1, <1>3 DEF DecisionInv, FilesAreTheReports
<1> QED
  BY <1>1, <1>2, <1>4 DEF DecisionInv

\* Formats, coverage and results.
LEMMA SavingKeepsInv ==
  ASSUME DecisionInv, WriteFormats \/ WriteCoverage \/ WriteResults
  PROVE  DecisionInv'
<1>0. DOMAIN files = Formats /\ "md" \in Formats /\ "json" \in Formats /\ "results" \in Formats
  BY DEF DecisionInv, DecisionTypes, Formats
<1>1. CASE WriteFormats
  <2>1. PICK done \in {{}, {"md", "html"}, {"md", "html", "json"}, {"md", "html", "json", "pdf"}} :
          /\ files' = [f \in Formats |->
                         IF f \notin done THEN files[f] ELSE IF f = "json" THEN report ELSE Markdown]
          /\ reporting' = IF Cardinality(done) = 4 THEN "coverage" ELSE "failed"
    BY <1>0, <1>1 DEF WriteFormats
  <2>2. /\ "json" \in done => "md" \in done
        /\ reporting' = "coverage" => "md" \in done
        /\ "results" \notin done /\ reporting' \in {"coverage", "failed"}
    BY <2>1, FourFormats
  <2>3. /\ files'["md"] = IF "md" \in done THEN Markdown ELSE files["md"]
        /\ files'["json"] = IF "json" \in done THEN report ELSE files["json"]
        /\ files'["results"] = files["results"] /\ DOMAIN files' = Formats
    BY <1>0, <2>1, <2>2
  <2>4. reporting = "write" /\ UNCHANGED <<report, Evidence>>
    BY <1>1 DEF WriteFormats, Evidence
  <2> QED
    BY <2>2, <2>3, <2>4, SavedFiles
<1>2. CASE WriteCoverage \/ WriteResults
  <2>1. /\ reporting \in {"coverage", "results"} /\ UNCHANGED <<report, Evidence>>
        /\ reporting' \in {"coverage", "results", "done", "failed"}
    BY <1>2 DEF WriteCoverage, WriteResults, Evidence
  <2>2. files["md"] = Markdown
    BY <2>1 DEF DecisionInv, FilesAreTheReports
  <2>3. /\ DOMAIN files' = Formats /\ files'["md"] = files["md"]
        /\ files'["json"] = files["json"] /\ files'["results"] \in {files["results"], report}
    BY <1>0, <1>2 DEF WriteCoverage, WriteResults
  <2> QED
    BY <2>1, <2>2, <2>3, SavedFiles
<1> QED
  BY <1>1, <1>2

\* So it always holds.
LEMMA DecisionInvHolds == DecisionSpec => []DecisionInv
<1>1. DecisionInv /\ [DecisionNext]_decisionVars => DecisionInv'
  <2> SUFFICES ASSUME DecisionInv, [DecisionNext]_decisionVars PROVE DecisionInv'
    OBVIOUS
  <2>1. CASE UNCHANGED decisionVars
    <3>1. UNCHANGED <<report, files, reporting>> /\ UNCHANGED Evidence
      BY <2>1 DEF decisionVars, Evidence
    <3>2. UNCHANGED <<jobs, sourceChecks, destChecks, job, call>>
      BY <2>1 DEF decisionVars
    <3>3. FilesAreTheReports'
      BY <3>1, <3>2, SameEvidence DEF DecisionInv, FilesAreTheReports
    <3> QED
      BY <3>1, <3>2, <3>3, SameEvidence DEF DecisionInv, DecisionTypes
  <2> QED
    BY <2>1, EarlyKeepsInv, LoopKeepsInv, BuildKeepsInv, SavingKeepsInv DEF DecisionNext
<1> QED
  BY <1>1, DecisionInitially, PTL DEF DecisionSpec

\* Success means that no group has an error or a warning.
LEMMA StatusIsOfAll ==
  ASSUME NEW groups, NEW g \in groups, NEW k \in DOMAIN g
  PROVE  CheckStatus(groups) = "success" => g[k].found \cap {"error", "warning"} = {}
BY DEF CheckStatus

\* Counting findings and collecting them come to the same.
LEMMA SameStatus ==
  MarkdownResult = CheckStatus({sourceChecks} \cup {destChecks[c] : c \in Covered})
<1> DEFINE groups == {sourceChecks} \cup {destChecks[c] : c \in Covered}
           all == UNION {UNION {g[k].found : k \in DOMAIN g} : g \in groups}
<1>1. \A x : x \in all <=> \E g \in groups : \E k \in DOMAIN g : x \in g[k].found
  OBVIOUS
<1> QED
  BY <1>1 DEF MarkdownResult, CheckStatus

\* A report that shows nothing found shows it of every examined step.
LEMMA AllIsClean ==
  ASSUME DecisionInv, sourceChecks \in Run,
         \A k \in CheckIds : sourceChecks[k].found \cap {"error", "warning"} = {},
         \A c \in Covered, k \in CheckIds : destChecks[c][k].found \cap {"error", "warning"} = {}
  PROVE  Clean
<1>1. ASSUME NEW e \in examined, NEW k \in CheckIds
      PROVE  e.run[k].found \cap {"error", "warning"} = {}
  <2>1. /\ e.job \in DOMAIN jobs /\ destChecks[jobs[e.job].chain] \in Run
        /\ e.run[k].found \subseteq destChecks[jobs[e.job].chain][k].found
    BY <1>1 DEF DecisionInv, FindingsAreKept
  <2>2. jobs[e.job].chain \in Chains
    BY <2>1, JobFacts DEF DecisionInv, DecisionTypes
  <2>3. destChecks[jobs[e.job].chain] # NoRun
    <3>1. DOMAIN NoRun = {} /\ DOMAIN destChecks[jobs[e.job].chain] = CheckIds
      BY <2>1 DEF NoRun, Run
    <3> QED
      BY <3>1
  <2> QED
    BY <2>1, <2>2, <2>3 DEF Covered
<1> QED
  BY <1>1 DEF Clean, CleanRun

(***************************************************************************)
(* A PASS by the documented gates hides nothing that a check found, no     *)
(* step that was not examined and no job that failed, whatever jobs the    *)
(* engine hands over and whatever the checks find; nor does the page's     *)
(* badge, and the page and the Markdown agree with the report.             *)
(***************************************************************************)
THEOREM DecisionHidesNothing == DecisionSpec => []PassHidesNothing
<1>1. DecisionInv => PassHidesNothing
  <2> SUFFICES ASSUME DecisionInv, NEW f \in {"json", "results"}, files[f] # NoReport
               PROVE  /\ Decision(files[f]) = "PASS" =>
                           /\ Clean
                           /\ \A n \in DOMAIN jobs :
                                \/ Accounted(n)
                                \/ files[f].jobs = LostPreview
                                   /\ "failure" \in JobStatuses(jobs[n].chain)
                      /\ AllPassed(files[f]) => Clean
                      /\ Chains \subseteq DOMAIN files[f].reports \cup NoCheckChains(files[f])
                      /\ \A n \in DOMAIN jobs :
                           \/ jobs[n].status = "success" \/ n \in ListedJobs(files[f])
                           \/ jobs[n].chain \in NoCheckChains(files[f])
                           \/ files[f].jobs = LostPreview
                      /\ files["md"].result = files[f].status
    BY DEF PassHidesNothing
  <2> DEFINE r == files[f]
             groups == {sourceChecks} \cup {destChecks[c] : c \in Covered}
  <2>1. /\ r = report /\ report # NoReport /\ files["md"] = Markdown
        /\ job \notin DOMAIN jobs /\ sourceChecks \in Run
    BY DEF DecisionInv, FilesAreTheReports
  <2>2. PICK lost \in BOOLEAN : r = StructuredReport(lost)
    BY <2>1 DEF DecisionInv, FilesAreTheReports
  <2>3. /\ r.status = CheckStatus(groups) /\ r.reports = ChainReports
        /\ r.rows = Coverage /\ r.jobs = Preview(lost)
    BY <2>2 DEF StructuredReport
  <2> HIDE DEF r
  <2>4. /\ jobs \in Seq(Job) /\ DOMAIN jobs = 1..Len(jobs) /\ Len(jobs) \in Nat
        /\ \A n \in DOMAIN jobs :
              /\ jobs[n] \in Job /\ jobs[n].chain \in Chains /\ jobs[n].chain # Source
              /\ jobs[n].status = "skipped" => jobs[n].chain \notin Examined
    BY JobFacts DEF DecisionInv, DecisionTypes
  <2>5. /\ job \in Nat \ {0} /\ \A c \in Covered : destChecks[c] \in Run
        /\ \A c \in Covered : c \in Examined /\ c \in Chains /\ c # Source
    BY <2>4 DEF DecisionInv, DecisionTypes, FindingsAreKept, Covered, Chains
  <2>6. r.jobs = IF lost THEN LostPreview ELSE jobs
    BY <2>3 DEF Preview
  <2>7. jobs # LostPreview
    <3>1. jobs = LostPreview => jobs[1] \in Job /\ jobs[1].status = "lost"
      BY <2>4 DEF LostPreview
    <3> QED
      BY <3>1 DEF Job
  <2>8. \A c \in Chains \ Covered :
          [check |-> "crossChainDestination", chain |-> c, inferred |-> FALSE,
           status |-> DestinationStatus(c)] \in r.rows
    <3> DEFINE Row(c) == [check |-> "crossChainDestination", chain |-> c, inferred |-> FALSE,
                          status |-> DestinationStatus(c)]
    <3>1. {Row(c) : c \in Chains \ Covered} \subseteq r.rows
      BY <2>3 DEF Coverage
    <3> HIDE DEF Row
    <3>2. \A c \in Chains \ Covered : Row(c) \in r.rows
      BY <3>1
    <3> QED
      BY <3>2 DEF Row
  <2>9. DOMAIN r.reports = {Source} \cup Covered
    BY <2>3 DEF ChainReports
  <2>10. Chains \subseteq DOMAIN r.reports \cup NoCheckChains(r)
    <3>1. ASSUME NEW c \in Chains, c \notin DOMAIN r.reports PROVE c \in NoCheckChains(r)
      <4>1. c \in Chains \ Covered
        BY <2>9, <3>1
      <4>2. PICK row \in r.rows : row.check = "crossChainDestination" /\ row.chain = c
        BY <2>8, <4>1
      <4> QED
        BY <3>1, <4>2 DEF NoCheckChains
    <3> QED
      BY <3>1
  <2>11. \A n \in DOMAIN jobs : jobs[n].status = "success" \/ n \in ListedJobs(r)
                                 \/ r.jobs = LostPreview
    BY <2>6 DEF ListedJobs
  <2>12. files["md"].result = r.status
    BY <2>1, <2>3, SameStatus DEF Markdown
  <2>13. AllPassed(r) => Clean
    <3> SUFFICES ASSUME AllPassed(r) PROVE Clean
      OBVIOUS
    <3>1. \A c \in {Source} \cup Covered, k \in CheckIds :
            r.reports[c][k].found \cap {"error", "warning"} = {}
      BY <2>9 DEF AllPassed, Shown
    <3>2. /\ r.reports[Source] = sourceChecks
          /\ \A c \in Covered : r.reports[c] = destChecks[c]
      BY <2>3, <2>5 DEF ChainReports
    <3> QED
      BY <2>1, <3>1, <3>2, AllIsClean
  <2>14. ASSUME Decision(r) = "PASS"
         PROVE  /\ Clean
                /\ \A n \in DOMAIN jobs :
                     \/ Accounted(n)
                     \/ r.jobs = LostPreview /\ "failure" \in JobStatuses(jobs[n].chain)
    <3>1. /\ \A row \in r.rows : row.status # "skipped"
          /\ r.jobs = LostPreview \/ \A n \in DOMAIN r.jobs : r.jobs[n].status # "failure"
          /\ r.status = "success"
      BY <2>14 DEF Decision
    <3>2. Clean
      <4>1. \A g \in groups : \A k \in DOMAIN g : g[k].found \cap {"error", "warning"} = {}
        BY <2>3, <3>1, StatusIsOfAll
      <4>2. /\ sourceChecks \in groups /\ DOMAIN sourceChecks = CheckIds
            /\ \A c \in Covered : destChecks[c] \in groups /\ DOMAIN destChecks[c] = CheckIds
        BY <2>1, <2>5 DEF Run
      <4> HIDE DEF groups
      <4> QED
        BY <2>1, <4>1, <4>2, AllIsClean
    <3>3. ASSUME NEW n \in DOMAIN jobs,
                 ~(r.jobs = LostPreview /\ "failure" \in JobStatuses(jobs[n].chain))
          PROVE  Accounted(n)
      <4> DEFINE c == jobs[n].chain
      <4>1. /\ c \in Chains /\ jobs[n].status \in {"success", "failure", "skipped"}
            /\ jobs[n].status \in JobStatuses(c)
        BY <2>4 DEF Job, JobStatuses
      <4>2. "failure" \notin JobStatuses(c)
        <5>1. CASE r.jobs = LostPreview
          BY <3>3, <5>1
        <5>2. CASE r.jobs # LostPreview
          BY <2>6, <3>1, <5>2 DEF JobStatuses
        <5> QED
          BY <5>1, <5>2
      <4>3. c \in Examined
        <5> SUFFICES ASSUME c \notin Examined PROVE FALSE
          OBVIOUS
        <5>1. c \in Chains \ Covered /\ DestinationStatus(c) = "skipped"
          BY <2>5, <4>1, <4>2 DEF DestinationStatus
        <5> QED
          BY <2>8, <3>1, <5>1
      <4>4. jobs[n].status = "success"
        BY <2>4, <4>1, <4>2, <4>3
      <4>5. n < job
        BY <2>1, <2>4, <2>5
      <4> QED
        BY <4>3, <4>4, <4>5 DEF Accounted, DecisionInv, StepsAreCounted, StepSeen
    <3> QED
      BY <3>2, <3>3
  <2> QED
    BY <2>10, <2>11, <2>12, <2>13, <2>14 DEF r
<1> QED
  BY <1>1, DecisionInvHolds, PTL
-----------------------------------------------------------------------------
(* BridgeMessages: what the adapters that have been through the actions    *)
(* have found, as a function of how far they are.                          *)

MakesAJob(a) == Carries(a) /\ a.data \notin {"garbled", "too long"}

Trusts(p, i, r) ==
  {n \in 1..(i - 1) : /\ p[n].fn = "setTrustedRemoteAddress"
                      /\ Known(p[n]) = "layerzero" /\ p[n].remote = r}

\* An action has been through its adapter.
Scanned(p, i, k, x) ==
  \E n \in 1..5 : Adapters[n] = Known(p[i]) /\ (n < k \/ (n = k /\ i < x))

Listed(s) == \E S : s \in Seq(S)

JobFits(p, k, x, j) ==
  /\ j.order \in 1..Len(p) /\ Scanned(p, j.order, k, x) /\ MakesAJob(p[j.order])
  /\ j.from = SenderOf(p, j.order)

JobsFit(p, k, x, f) ==
  /\ Listed(f)
  /\ \A n \in 1..Len(f) : JobFits(p, k, x, f[n])
  /\ \A n, m \in 1..Len(f) : f[n].order = f[m].order => n = m
  /\ \A i \in 1..Len(p) : Scanned(p, i, k, x) /\ MakesAJob(p[i]) => \E n \in 1..Len(f) : f[n].order = i

LanesFit(p, k, x) ==
  \A i \in 1..Len(p) :
    Scanned(p, i, k, x) /\ Carries(p[i]) /\ Decodes(p[i]) => p[i].remote \in Lanes(p[i])

\* The receivers that LayerZero's actions so far have set.
ReceiverFits(p, k, x, r) ==
  /\ k < 5 => DOMAIN r = {}
  /\ k = 5 => \A q \in DOMAIN LayerZeroLanes :
                /\ Trusts(p, x, q) = {} => q \notin DOMAIN r
                /\ Trusts(p, x, q) # {} =>
                     /\ q \in DOMAIN r
                     /\ \E n \in Trusts(p, x, q) :
                          r[q] = p[n].target /\ \A m \in Trusts(p, x, q) : m <= n

Told(p, e) ==
  e = "thrown" => \E i \in 1..Len(p) :
                    /\ Known(p[i]) \in {"wormhole", "layerzero"}
                    /\ \/ p[i].remote \notin Lanes(p[i])
                       \/ p[i].data \in {"garbled", "malformed", "empty", "not an address"}

InOrder(f) == \A n, m \in 1..Len(f) : n < m => f[n].order < f[m].order

MessagesInv ==
  /\ proposalActions \in Seq(Messages)
  /\ scanning \in 1..6 /\ (extraction = "running" => scanning # 6)
  /\ index \in 1..(Len(proposalActions) + 1)
  /\ JobsFit(proposalActions, scanning, index, found)
  /\ LanesFit(proposalActions, scanning, index)
  /\ ReceiverFits(proposalActions, scanning, index, receiver)
  /\ extraction = "done" => scanning = 6 /\ InOrder(found)
  /\ Told(proposalActions, extraction)
-----------------------------------------------------------------------------
LEMMA AdapterFacts ==
  /\ DOMAIN Adapters = 1..5 /\ Len(Adapters) = 5
  /\ Adapters[1] = "arbitrum" /\ Adapters[2] = "optimism" /\ Adapters[3] = "polygon"
  /\ Adapters[4] = "wormhole" /\ Adapters[5] = "layerzero"
  /\ \A n, m \in 1..5 : Adapters[n] = Adapters[m] => n = m
  /\ \A n \in 1..5 : Adapters[n] # "none"
<1>1. /\ DOMAIN Adapters = 1..5 /\ Len(Adapters) = 5
      /\ Adapters[1] = "arbitrum" /\ Adapters[2] = "optimism" /\ Adapters[3] = "polygon"
      /\ Adapters[4] = "wormhole" /\ Adapters[5] = "layerzero"
  BY DEF Adapters
<1>2. \A n \in 1..5 : n = 1 \/ n = 2 \/ n = 3 \/ n = 4 \/ n = 5
  OBVIOUS
<1> QED
  BY <1>1, <1>2

\* One more of a list.
LEMMA OneMore ==
  ASSUME NEW s, Listed(s), NEW e
  PROVE  /\ Listed(Append(s, e)) /\ Len(s) \in Nat /\ Len(Append(s, e)) = Len(s) + 1
         /\ Append(s, e)[Len(s) + 1] = e
         /\ \A n \in 1..Len(s) : Append(s, e)[n] = s[n]
<1>0. PICK t : t = Append(s, e)
  OBVIOUS
<1>1. PICK S : s \in Seq(S)
  BY DEF Listed
<1>2. PICK T : T = S \cup {e}
  OBVIOUS
<1>3. s \in Seq(T) /\ e \in T
  BY <1>1, <1>2
<1>4. t \in Seq(T)
  BY <1>0, <1>3
<1>5. Len(s) \in Nat /\ Len(t) = Len(s) + 1 /\ t[Len(s) + 1] = e /\ \A n \in 1..Len(s) : t[n] = s[n]
  BY <1>0, <1>3
<1> QED
  BY <1>0, <1>4, <1>5 DEF Listed

LEMMA ListFacts ==
  ASSUME NEW s, Listed(s)
  PROVE  Len(s) \in Nat /\ DOMAIN s = 1..Len(s)
BY DEF Listed
-----------------------------------------------------------------------------
\* Numbers that differ have all the ranks there are.
Lower(f, L, k) == {i \in 1..L : f[i] < f[k]}

LEMMA Ranks ==
  ASSUME NEW L \in Nat, NEW f, \A i \in 1..L : f[i] \in Nat,
         \A i, j \in 1..L : f[i] = f[j] => i = j
  PROVE  /\ \A k \in 1..L : Cardinality(Lower(f, L, k)) \in 0..(L - 1)
         /\ \A j, k \in 1..L :
              f[j] < f[k] <=> Cardinality(Lower(f, L, j)) < Cardinality(Lower(f, L, k))
         /\ \A n \in 1..L : \E k \in 1..L : Cardinality(Lower(f, L, k)) = n - 1
<1>1. IsFiniteSet(1..L) /\ Cardinality(1..L) = L
  BY FS_Interval
<1>2. ASSUME NEW k \in 1..L
      PROVE  /\ IsFiniteSet(Lower(f, L, k)) /\ Cardinality(Lower(f, L, k)) \in 0..(L - 1)
  <2>1. Lower(f, L, k) \subseteq 1..L /\ k \notin Lower(f, L, k)
    BY DEF Lower
  <2>2. /\ IsFiniteSet(Lower(f, L, k)) /\ Cardinality(Lower(f, L, k)) <= L
        /\ Cardinality(Lower(f, L, k)) # L
    BY <1>1, <2>1, FS_Subset
  <2>3. Cardinality(Lower(f, L, k)) \in Nat
    BY <2>2, FS_CardinalityType
  <2>4. PICK z : z = Cardinality(Lower(f, L, k))
    OBVIOUS
  <2> QED
    BY <2>2, <2>3, <2>4
<1>3. ASSUME NEW j \in 1..L, NEW k \in 1..L, f[j] < f[k]
      PROVE  Cardinality(Lower(f, L, j)) < Cardinality(Lower(f, L, k))
  <2>1. Lower(f, L, j) \subseteq Lower(f, L, k)
    <3>1. ASSUME NEW i \in Lower(f, L, j) PROVE i \in Lower(f, L, k)
      <4>1. i \in 1..L /\ f[i] < f[j]
        BY DEF Lower
      <4>2. f[i] < f[k]
        BY <1>3, <4>1
      <4> QED
        BY <4>1, <4>2 DEF Lower
    <3> QED
      BY <3>1
  <2>2. j \in Lower(f, L, k) /\ j \notin Lower(f, L, j)
    BY <1>3 DEF Lower
  <2>3. IsFiniteSet(Lower(f, L, k)) /\ Lower(f, L, j) # Lower(f, L, k)
    BY <1>2, <2>2
  <2>4. PICK A, B : A = Lower(f, L, j) /\ B = Lower(f, L, k)
    OBVIOUS
  <2>5. Cardinality(A) <= Cardinality(B) /\ Cardinality(A) # Cardinality(B)
    BY <2>1, <2>3, <2>4, FS_Subset
  <2>6. Cardinality(A) \in Nat /\ Cardinality(B) \in Nat
    BY <1>2, <2>4
  <2> QED
    BY <2>4, <2>5, <2>6
<1>4. ASSUME NEW j \in 1..L, NEW k \in 1..L,
             Cardinality(Lower(f, L, j)) < Cardinality(Lower(f, L, k))
      PROVE  f[j] < f[k]
  <2>1. SUFFICES ASSUME ~(f[j] < f[k]) PROVE FALSE
    OBVIOUS
  <2>2. PICK a, b : a = Cardinality(Lower(f, L, j)) /\ b = Cardinality(Lower(f, L, k))
    OBVIOUS
  <2>3. a \in Nat /\ b \in Nat /\ a < b
    BY <1>2, <1>4, <2>2
  <2>4. f[j] \in Nat /\ f[k] \in Nat
    OBVIOUS
  <2>5. f[k] < f[j]
    <3>1. f[k] # f[j]
      <4>1. SUFFICES ASSUME f[k] = f[j] PROVE FALSE
        OBVIOUS
      <4>2. k = j
        BY <4>1
      <4> QED
        BY <2>2, <2>3, <4>2
    <3> QED
      BY <2>1, <2>4, <3>1
  <2>6. b < a
    BY <1>3, <2>2, <2>5
  <2> QED
    BY <2>3, <2>6
<1>5. PICK g : g = [k \in 1..L |-> Cardinality(Lower(f, L, k))]
  OBVIOUS
<1>6. PICK T : T = 0..(L - 1)
  OBVIOUS
<1>7. g \in [1..L -> T]
  BY <1>2, <1>5, <1>6
<1>8. \A j, k \in 1..L : g[j] = g[k] => j = k
  <2>1. SUFFICES ASSUME NEW j \in 1..L, NEW k \in 1..L, g[j] = g[k] PROVE j = k
    OBVIOUS
  <2>2. PICK a : a = Cardinality(Lower(f, L, j))
    OBVIOUS
  <2>3. a = Cardinality(Lower(f, L, k)) /\ a \in Nat
    BY <1>2, <1>5, <2>1, <2>2
  <2>4. ~(f[j] < f[k]) /\ ~(f[k] < f[j])
    <3>1. ASSUME f[j] < f[k] PROVE a < a
      <4>1. Cardinality(Lower(f, L, j)) < Cardinality(Lower(f, L, k))
        BY <1>3, <3>1
      <4> QED
        BY <2>2, <2>3, <4>1
    <3>2. ASSUME f[k] < f[j] PROVE a < a
      <4>1. Cardinality(Lower(f, L, k)) < Cardinality(Lower(f, L, j))
        BY <1>3, <3>2
      <4> QED
        BY <2>2, <2>3, <4>1
    <3>3. ~(a < a)
      BY <2>3
    <3> QED
      BY <3>1, <3>2, <3>3
  <2>5. f[j] \in Nat /\ f[k] \in Nat
    OBVIOUS
  <2>6. f[j] = f[k]
    BY <2>4, <2>5
  <2> QED
    BY <2>6
<1>9. g \in Injection(1..L, T)
  BY <1>7, <1>8 DEF Injection, IsInjective
<1>10. IsFiniteSet(T) /\ Cardinality(T) = L
  <2>1. 0 \in Int /\ L - 1 \in Int
    OBVIOUS
  <2>2. IsFiniteSet(0..(L - 1)) /\ Cardinality(0..(L - 1)) = IF 0 > L - 1 THEN 0 ELSE (L - 1) - 0 + 1
    BY <2>1, FS_Interval
  <2> QED
    BY <1>6, <2>2
<1>11. g \in Surjection(1..L, T)
  BY <1>1, <1>9, <1>10, FS_Injection
<1>12. ASSUME NEW n \in 1..L PROVE \E k \in 1..L : Cardinality(Lower(f, L, k)) = n - 1
  <2>1. n - 1 \in T
    BY <1>6
  <2>2. PICK k \in 1..L : g[k] = n - 1
    BY <1>11, <2>1 DEF Surjection
  <2> QED
    BY <1>5, <2>2
<1> QED
  BY <1>2, <1>3, <1>4, <1>12

\* Sorting keeps the jobs and puts them into the order of the actions.
LEMMA SortingFits ==
  ASSUME NEW p, NEW k, NEW x, NEW f, Len(p) \in Nat, JobsFit(p, k, x, f)
  PROVE  JobsFit(p, k, x, SortedJobs(f)) /\ InOrder(SortedJobs(f))
<1>1. PICK L, o, g : /\ L = Len(f) /\ o = [n \in 1..L |-> f[n].order]
                     /\ g = SortedJobs(f)
  OBVIOUS
<1>2. L \in Nat /\ DOMAIN f = 1..L
  BY <1>1, ListFacts DEF JobsFit
<1>3. \A n \in 1..L : o[n] = f[n].order /\ o[n] \in Nat
  BY <1>1 DEF JobsFit, JobFits
<1>4. \A n, m \in 1..L : o[n] = o[m] => n = m
  BY <1>1, <1>3 DEF JobsFit
<1> DEFINE R(n) == Cardinality(Lower(o, L, n))
<1>5. /\ \A n, m \in 1..L : o[n] < o[m] <=> R(n) < R(m)
      /\ \A n \in 1..L : \E m \in 1..L : R(m) = n - 1
      /\ \A n \in 1..L : R(n) \in 0..(L - 1)
  BY <1>2, <1>3, <1>4, Ranks
<1>6. \A n \in 1..L : {i \in DOMAIN f : f[i].order < f[n].order} = Lower(o, L, n)
  BY <1>2, <1>3 DEF Lower
<1>7. PICK c : c = [n \in 1..L |-> CHOOSE m \in 1..L : R(m) = n - 1]
  OBVIOUS
<1>8. \A n \in 1..L : c[n] \in 1..L /\ R(c[n]) = n - 1
  BY <1>5, <1>7
<1>9. g = [n \in 1..L |-> f[c[n]]]
  <2> DEFINE C(n) == CHOOSE m \in DOMAIN f :
                       Cardinality({i \in DOMAIN f : f[i].order < f[m].order}) = n - 1
  <2>1. ASSUME NEW n \in 1..L PROVE C(n) = c[n]
    <3>1. \A m \in DOMAIN f :
            Cardinality({i \in DOMAIN f : f[i].order < f[m].order}) = n - 1 <=> R(m) = n - 1
      BY <1>2, <1>6
    <3>2. C(n) = CHOOSE m \in 1..L : R(m) = n - 1
      BY <1>2, <3>1
    <3> HIDE DEF C
    <3> QED
      BY <1>7, <3>2
  <2>2. g = [n \in 1..L |-> f[C(n)]]
    BY <1>1, <1>2, Zenon DEF SortedJobs
  <2> HIDE DEF C, R
  <2> QED
    BY <2>1, <2>2
<1> HIDE DEF R
<1>10. Len(g) = L /\ Listed(g)
  <2>1. PICK S : S = {f[n] : n \in 1..L}
    OBVIOUS
  <2>2. \A n \in 1..L : f[c[n]] \in S
    BY <1>8, <2>1
  <2>3. g \in Seq(S) /\ Len(g) = L
    BY <1>2, <1>9, <2>2
  <2> QED
    BY <2>3 DEF Listed
<1>11. \A n \in 1..L : g[n] = f[c[n]] /\ c[n] \in 1..L
  BY <1>8, <1>9
<1>12. \A m \in 1..L : \E n \in 1..L : c[n] = m
  <2>1. ASSUME NEW m \in 1..L PROVE \E n \in 1..L : c[n] = m
    <3>1. PICK n : n = R(m) + 1
      OBVIOUS
    <3>2. n \in 1..L /\ R(m) = n - 1 /\ R(m) \in Nat
      BY <1>2, <1>5, <3>1
    <3>3. R(c[n]) = R(m) /\ c[n] \in 1..L
      BY <1>8, <3>2
    <3>4. ~(o[c[n]] < o[m]) /\ ~(o[m] < o[c[n]])
      <4>1. PICK a : a = R(m)
        OBVIOUS
      <4>2. a \in Nat /\ R(c[n]) = a
        BY <3>2, <3>3, <4>1
      <4>3. ~(a < a)
        BY <4>2
      <4>4. o[c[n]] < o[m] => a < a
        BY <1>5, <3>3, <4>1, <4>2
      <4>5. o[m] < o[c[n]] => a < a
        BY <1>5, <3>3, <4>1, <4>2
      <4> QED
        BY <4>3, <4>4, <4>5
    <3>5. o[c[n]] = o[m]
      BY <1>3, <3>3, <3>4
    <3> QED
      BY <1>4, <3>2, <3>3, <3>5
  <2> QED
    BY <2>1
<1>13. ASSUME NEW n \in 1..L, NEW m \in 1..L, n < m PROVE g[n].order < g[m].order
  <2>1. R(c[n]) < R(c[m])
    BY <1>8, <1>13
  <2>2. o[c[n]] < o[c[m]]
    BY <1>5, <1>8, <2>1
  <2> QED
    BY <1>3, <1>11, <2>2
<1>14. \A n \in 1..L : JobFits(p, k, x, g[n])
  BY <1>1, <1>11 DEF JobsFit
<1>15. ASSUME NEW n \in 1..L, NEW m \in 1..L, g[n].order = g[m].order PROVE n = m
  <2>1. g[n].order \in Nat /\ g[m].order \in Nat
    BY <1>3, <1>11
  <2>2. ~(n < m) /\ ~(m < n)
    BY <1>13, <1>15, <2>1
  <2> QED
    BY <2>2
<1>16. ASSUME NEW i \in 1..Len(p), Scanned(p, i, k, x), MakesAJob(p[i])
       PROVE  \E n \in 1..L : g[n].order = i
  <2>1. PICK m \in 1..L : f[m].order = i
    BY <1>1, <1>16 DEF JobsFit
  <2>2. PICK n \in 1..L : c[n] = m
    BY <1>12
  <2> QED
    BY <1>11, <2>1, <2>2
<1>17. JobsFit(p, k, x, g)
  BY <1>10, <1>14, <1>15, <1>16 DEF JobsFit
<1>18. InOrder(g)
  BY <1>10, <1>13 DEF InOrder
<1> QED
  BY <1>1, <1>17, <1>18
-----------------------------------------------------------------------------
(* What the adapters do with an action.                                    *)

LEMMA KnownIs ==
  ASSUME NEW a \in Messages, NEW k \in 1..5, Known(a) = Adapters[k]
  PROVE  /\ a.to \in DOMAIN AdapterOf /\ AdapterOf[a.to] = Adapters[k]
         /\ \A m \in 1..5 : m # k => a.fn \notin Functions[Adapters[m]]
         /\ k = 5 => a.fn \in Functions["layerzero"] \cup {"other"}
         /\ k # 2 => a.data # "too long"
         /\ Carries(a) <=> a.fn \in Functions[Adapters[k]] \ {"setTrustedRemoteAddress"}
<1>1. a.to \in DOMAIN AdapterOf /\ AdapterOf[a.to] = Adapters[k]
  BY AdapterFacts DEF Known
<1>2. /\ \A m \in 1..5 : m # k => a.fn \notin Functions[Adapters[m]]
      /\ Known(a) = "layerzero" => a.fn \in Functions["layerzero"] \cup {"other"}
      /\ a.data = "too long" => Known(a) = "optimism"
  BY AdapterFacts, MessagesAssumption
<1>3. Carries(a) <=> a.fn \in Functions[Adapters[k]] \ {"setTrustedRemoteAddress"}
  BY <1>2, AdapterFacts DEF Carries
<1>4. k = 5 => a.fn \in Functions["layerzero"] \cup {"other"}
  BY <1>2, AdapterFacts
<1>5. k # 2 => a.data # "too long"
  <2>1. SUFFICES ASSUME a.data = "too long" PROVE k = 2
    OBVIOUS
  <2>2. Known(a) = "optimism"
    BY <1>2, <2>1
  <2>3. Adapters[2] = "optimism" /\ 2 \in 1..5
    BY AdapterFacts
  <2>4. Adapters[k] = Adapters[2]
    BY <2>2, <2>3
  <2>5. \A n, m \in 1..5 : Adapters[n] = Adapters[m] => n = m
    BY AdapterFacts
  <2> QED
    BY <2>3, <2>4, <2>5
<1> QED
  BY <1>1, <1>2, <1>3, <1>4, <1>5

LEMMA FunctionFacts ==
  /\ Functions["arbitrum"] = Retryable \cup Funded \cup Unfunded
  /\ Functions["optimism"] = {"sendMessage", "depositTransaction"}
  /\ Functions["polygon"] = {"sendMessageToChild"}
  /\ Functions["wormhole"] = {"sendMessages"}
  /\ Functions["layerzero"] = {"setTrustedRemoteAddress", "execute"}
  /\ "setTrustedRemoteAddress" \notin Retryable \cup Funded \cup Unfunded
BY DEF Functions, Retryable, Funded, Unfunded

LEMMA ScanGoesOn ==
  ASSUME NEW p, Len(p) \in Nat, NEW k \in 1..5, NEW x \in 1..Len(p)
  PROVE  \A i \in 1..Len(p) : Scanned(p, i, k, x + 1) <=>
                              Scanned(p, i, k, x) \/ (i = x /\ Known(p[i]) = Adapters[k])
<1> SUFFICES ASSUME NEW i \in 1..Len(p)
             PROVE  Scanned(p, i, k, x + 1) <=>
                      Scanned(p, i, k, x) \/ (i = x /\ Known(p[i]) = Adapters[k])
  OBVIOUS
<1>1. \A n \in 1..5 : (n < k \/ (n = k /\ i < x + 1))
                      <=> (n < k \/ (n = k /\ i < x)) \/ (n = k /\ i = x)
  OBVIOUS
<1> QED
  BY <1>1 DEF Scanned

LEMMA ScanTurns ==
  ASSUME NEW p, Len(p) \in Nat, NEW k \in 1..5, NEW i \in 1..Len(p)
  PROVE  Scanned(p, i, k + 1, 1) <=> Scanned(p, i, k, Len(p) + 1)
<1>1. \A n \in 1..5 : (n < k + 1 \/ (n = k + 1 /\ i < 1))
                      <=> (n < k \/ (n = k /\ i < Len(p) + 1))
  <2>1. PICK L \in Nat : L = Len(p)
    OBVIOUS
  <2> QED
    BY <2>1
<1> QED
  BY <1>1 DEF Scanned

\* No action is scanned by its adapter twice.
LEMMA NotYetScanned ==
  ASSUME NEW p, NEW k \in 1..5, NEW x \in Nat, Known(p[x]) = Adapters[k]
  PROVE  ~Scanned(p, x, k, x)
BY AdapterFacts DEF Scanned

\* An action that makes no job, or is another adapter's.
LEMMA NoJob ==
  ASSUME NEW p, Len(p) \in Nat, NEW k \in 1..5, NEW x \in 1..Len(p), NEW f,
         JobsFit(p, k, x, f), Known(p[x]) # Adapters[k] \/ ~MakesAJob(p[x])
  PROVE  JobsFit(p, k, x + 1, f)
<1>1. \A i \in 1..Len(p) : /\ Scanned(p, i, k, x) => Scanned(p, i, k, x + 1)
                           /\ Scanned(p, i, k, x + 1) /\ MakesAJob(p[i]) => Scanned(p, i, k, x)
  BY ScanGoesOn
<1>2. \A n \in 1..Len(f) : JobFits(p, k, x + 1, f[n])
  BY <1>1 DEF JobsFit, JobFits
<1> QED
  BY <1>1, <1>2 DEF JobsFit

\* An action whose job has the right sender.
LEMMA OneJob ==
  ASSUME NEW p, Len(p) \in Nat, NEW k \in 1..5, NEW x \in 1..Len(p), NEW f, JobsFit(p, k, x, f),
         Known(p[x]) = Adapters[k], MakesAJob(p[x]),
         NEW j, j.order = x, j.from = SenderOf(p, x), NEW g, g = Append(f, j)
  PROVE  JobsFit(p, k, x + 1, g)
<1>1. PICK L : L = Len(f)
  OBVIOUS
<1>2. /\ Listed(g) /\ L \in Nat /\ Len(g) = L + 1
      /\ g[L + 1] = j /\ \A n \in 1..L : g[n] = f[n]
  <2>1. Listed(f)
    BY DEF JobsFit
  <2> QED
    <3>1. /\ Listed(g) /\ Len(f) \in Nat /\ Len(g) = Len(f) + 1
          /\ g[Len(f) + 1] = j /\ \A n \in 1..Len(f) : g[n] = f[n]
      BY <2>1, OneMore
    <3> QED
      BY <1>1, <3>1
<1>3. \A i \in 1..Len(p) :
        Scanned(p, i, k, x + 1) <=> Scanned(p, i, k, x) \/ i = x
  BY ScanGoesOn
<1>4. \A n \in 1..(L + 1) : n = L + 1 \/ n \in 1..L
  BY <1>2
<1>5. ASSUME NEW n \in 1..L
      PROVE  JobFits(p, k, x + 1, f[n]) /\ f[n].order # x
  <2>1. JobFits(p, k, x, f[n])
    BY <1>1 DEF JobsFit
  <2> QED
    BY <1>3, <2>1, NotYetScanned DEF JobFits
<1>6. JobFits(p, k, x + 1, j)
  BY <1>3 DEF JobFits
<1>7. \A n \in 1..(L + 1) : JobFits(p, k, x + 1, g[n])
  BY <1>2, <1>4, <1>5, <1>6
<1>8. ASSUME NEW n \in 1..(L + 1), NEW m \in 1..(L + 1), g[n].order = g[m].order PROVE n = m
  <2>1. CASE n = L + 1
    BY <1>2, <1>4, <1>5, <1>8, <2>1
  <2>2. CASE m = L + 1
    BY <1>2, <1>4, <1>5, <1>8, <2>2
  <2>3. CASE n \in 1..L /\ m \in 1..L
    BY <1>1, <1>2, <1>8, <2>3 DEF JobsFit
  <2> QED
    BY <1>4, <2>1, <2>2, <2>3
<1>9. ASSUME NEW i \in 1..Len(p), Scanned(p, i, k, x + 1), MakesAJob(p[i])
      PROVE  \E n \in 1..(L + 1) : g[n].order = i
  <2>1. CASE i = x
    <3>1. L + 1 \in 1..(L + 1)
      BY <1>2
    <3> QED
      BY <1>2, <2>1, <3>1
  <2>2. CASE i # x
    <3>1. PICK n \in 1..L : f[n].order = i
      BY <1>1, <1>3, <1>9, <2>2 DEF JobsFit
    <3>2. n \in 1..(L + 1)
      BY <1>2
    <3> QED
      BY <1>2, <3>1, <3>2
  <2> QED
    BY <2>1, <2>2
<1> QED
  BY <1>2, <1>7, <1>8, <1>9 DEF JobsFit

\* An action of another adapter, or one that its lane is known for.
LEMMA LaneFits ==
  ASSUME NEW p, Len(p) \in Nat, NEW k \in 1..5, NEW x \in 1..Len(p), LanesFit(p, k, x),
         Known(p[x]) = Adapters[k] /\ Carries(p[x]) /\ Decodes(p[x]) => p[x].remote \in Lanes(p[x])
  PROVE  LanesFit(p, k, x + 1)
<1>1. \A i \in 1..Len(p) : Scanned(p, i, k, x + 1) <=>
                             Scanned(p, i, k, x) \/ (i = x /\ Known(p[i]) = Adapters[k])
  BY ScanGoesOn
<1> QED
  BY <1>1 DEF LanesFit

\* An action that sets no receiver.
LEMMA NoReceiver ==
  ASSUME NEW p, Len(p) \in Nat, NEW k \in 1..5, NEW x \in 1..Len(p), NEW r, ReceiverFits(p, k, x, r),
         k = 5 => \/ Known(p[x]) # "layerzero" \/ p[x].fn # "setTrustedRemoteAddress"
                  \/ p[x].remote \notin DOMAIN LayerZeroLanes
  PROVE  ReceiverFits(p, k, x + 1, r)
<1>1. CASE k = 5
  <2>1. \A q \in DOMAIN LayerZeroLanes : Trusts(p, x + 1, q) = Trusts(p, x, q)
    <3>1. \A n \in Nat : n \in 1..((x + 1) - 1) <=> n \in 1..(x - 1) \/ n = x
      OBVIOUS
    <3> QED
      BY <1>1, <3>1 DEF Trusts
  <2> QED
    BY <1>1, <2>1 DEF ReceiverFits
<1> QED
  BY <1>1 DEF ReceiverFits

\* An action that sets one.
LEMMA NewReceiver ==
  ASSUME NEW p, Len(p) \in Nat, NEW x \in 1..Len(p), NEW r, ReceiverFits(p, 5, x, r),
         Known(p[x]) = "layerzero", p[x].fn = "setTrustedRemoteAddress", NEW s,
         s = [q \in DOMAIN r \cup {p[x].remote} |-> IF q = p[x].remote THEN p[x].target ELSE r[q]]
  PROVE  ReceiverFits(p, 5, x + 1, s)
<1>1. \A n \in Nat : n \in 1..((x + 1) - 1) <=> n \in 1..(x - 1) \/ n = x
  OBVIOUS
<1>2. ASSUME NEW q \in DOMAIN LayerZeroLanes
      PROVE  /\ Trusts(p, x + 1, q) = {} => q \notin DOMAIN s
             /\ Trusts(p, x + 1, q) # {} =>
                  /\ q \in DOMAIN s
                  /\ \E n \in Trusts(p, x + 1, q) :
                       s[q] = p[n].target /\ \A m \in Trusts(p, x + 1, q) : m <= n
  <2>1. CASE q = p[x].remote
    <3>1. x \in Trusts(p, x + 1, q)
      BY <1>1, <2>1 DEF Trusts
    <3>2. \A m \in Trusts(p, x + 1, q) : m <= x
      BY <1>1 DEF Trusts
    <3>3. q \in DOMAIN s /\ s[q] = p[x].target
      BY <2>1
    <3> QED
      BY <3>1, <3>2, <3>3
  <2>2. CASE q # p[x].remote
    <3>1. Trusts(p, x + 1, q) = Trusts(p, x, q)
      BY <1>1, <2>2 DEF Trusts
    <3>2. (q \in DOMAIN s <=> q \in DOMAIN r) /\ (q \in DOMAIN r => s[q] = r[q])
      BY <2>2
    <3> QED
      BY <3>1, <3>2 DEF ReceiverFits
  <2> QED
    BY <2>1, <2>2
<1>3. ~(5 < 5)
  OBVIOUS
<1> QED
  BY <1>2, <1>3, Zenon DEF ReceiverFits
-----------------------------------------------------------------------------
\* The receiver that LayerZero's adapter holds is the one trusted last.
LEMMA LastTrusted ==
  ASSUME NEW p \in Seq(Messages), NEW x \in 1..Len(p), Known(p[x]) = "layerzero",
         p[x].remote \in DOMAIN LayerZeroLanes, NEW r, ReceiverFits(p, 5, x, r)
  PROVE  SenderOf(p, x) = IF p[x].remote \in DOMAIN r THEN r[p[x].remote]
                          ELSE LayerZeroLanes[p[x].remote].from
<1>1. PICK q, T : q = p[x].remote /\ T = Trusts(p, x, q)
  OBVIOUS
<1>2. \A n \in 1..(x - 1) : p[n].to = p[x].to <=> Known(p[n]) = "layerzero"
  <2>1. \A c, d \in DOMAIN AdapterOf :
          AdapterOf[c] = "layerzero" /\ AdapterOf[d] = "layerzero" => c = d
    BY MessagesAssumption
  <2>2. \A a : Known(a) = "layerzero" <=> a.to \in DOMAIN AdapterOf /\ AdapterOf[a.to] = "layerzero"
    BY DEF Known
  <2> QED
    BY <2>1, <2>2
<1>3. T = {n \in 1..(x - 1) : /\ p[n].fn = "setTrustedRemoteAddress"
                              /\ p[n].to = p[x].to /\ p[n].remote = p[x].remote}
  BY <1>1, <1>2 DEF Trusts
<1>4. SenderOf(p, x) = IF T = {} THEN LayerZeroLanes[q].from
                       ELSE p[CHOOSE n \in T : \A m \in T : m <= n].target
  BY <1>1, <1>3 DEF SenderOf
<1>5. /\ T = {} => q \notin DOMAIN r
      /\ T # {} => /\ q \in DOMAIN r
                   /\ \E n \in T : r[q] = p[n].target /\ \A m \in T : m <= n
  BY <1>1 DEF ReceiverFits
<1>6. CASE T = {}
  BY <1>1, <1>4, <1>5, <1>6
<1>7. CASE T # {}
  <2>1. PICK n \in T : r[q] = p[n].target /\ \A m \in T : m <= n
    BY <1>5, <1>7
  <2>2. PICK c : c = CHOOSE l \in T : \A m \in T : m <= l
    OBVIOUS
  <2>3. c \in T /\ \A m \in T : m <= c
    BY <2>1, <2>2
  <2>4. T \subseteq Int
    BY <1>1 DEF Trusts
  <2>5. c = n
    <3>1. n \in Int /\ c \in Int
      BY <2>3, <2>4
    <3>2. c <= n /\ n <= c
      BY <2>1, <2>3
    <3> QED
      BY <3>1, <3>2
  <2> QED
    BY <1>1, <1>4, <1>5, <1>7, <2>1, <2>2, <2>5
<1> QED
  BY <1>6, <1>7
-----------------------------------------------------------------------------
\* An action that leaves the jobs and the receivers alone.
LEMMA Quiet ==
  ASSUME MessagesInv, extraction = "running", scanning \in 1..5, index \in 1..Len(proposalActions),
         UNCHANGED <<proposalActions, scanning>>, Emit({}),
         \/ Known(This) # Adapters[scanning]
         \/ /\ ~MakesAJob(This)
            /\ Carries(This) /\ Decodes(This) => This.remote \in Lanes(This)
            /\ scanning = 5 => \/ This.fn # "setTrustedRemoteAddress"
                               \/ This.remote \notin DOMAIN LayerZeroLanes
  PROVE  MessagesInv'
<1>1. PICK p, k, x, f, r : /\ p = proposalActions /\ k = scanning /\ x = index
                           /\ f = found /\ r = receiver
  OBVIOUS
<1>2. /\ proposalActions' = p /\ scanning' = k /\ index' = x + 1 /\ found' = f
      /\ receiver' = r /\ extraction' = "running"
  BY <1>1 DEF Emit
<1>3. /\ p \in Seq(Messages) /\ Len(p) \in Nat /\ k \in 1..5 /\ x \in 1..Len(p)
      /\ JobsFit(p, k, x, f) /\ LanesFit(p, k, x) /\ ReceiverFits(p, k, x, r)
  BY <1>1 DEF MessagesInv
<1>4. /\ Known(p[x]) # Adapters[k] \/ ~MakesAJob(p[x])
      /\ Known(p[x]) = Adapters[k] /\ Carries(p[x]) /\ Decodes(p[x]) => p[x].remote \in Lanes(p[x])
      /\ k = 5 => \/ Known(p[x]) # "layerzero" \/ p[x].fn # "setTrustedRemoteAddress"
                  \/ p[x].remote \notin DOMAIN LayerZeroLanes
  BY <1>1, AdapterFacts DEF This
<1>5. JobsFit(p, k, x + 1, f)
  BY <1>3, <1>4, NoJob
<1>6. LanesFit(p, k, x + 1)
  BY <1>3, <1>4, LaneFits
<1>7. ReceiverFits(p, k, x + 1, r)
  BY <1>3, <1>4, NoReceiver
<1>8. x + 1 \in 1..(Len(p) + 1) /\ k \in 1..6 /\ k # 6
  BY <1>3
<1> QED
  BY <1>2, <1>3, <1>5, <1>6, <1>7, <1>8 DEF MessagesInv, Told

\* An action that makes a job.
LEMMA Emitted ==
  ASSUME MessagesInv, extraction = "running", scanning \in 1..5, index \in 1..Len(proposalActions),
         UNCHANGED <<proposalActions, scanning>>,
         Known(This) = Adapters[scanning], MakesAJob(This), This.remote \in Lanes(This),
         scanning = 5 => This.fn # "setTrustedRemoteAddress",
         NEW j, Emit({j}), j.order = index, j.from = SenderOf(proposalActions, index)
  PROVE  MessagesInv'
<1>1. PICK p, k, x, f, r : /\ p = proposalActions /\ k = scanning /\ x = index
                           /\ f = found /\ r = receiver
  OBVIOUS
<1>2. /\ proposalActions' = p /\ scanning' = k /\ index' = x + 1 /\ found' = Append(f, j)
      /\ receiver' = r /\ extraction' = "running"
  <2>1. (CHOOSE e \in {j} : TRUE) = j
    OBVIOUS
  <2>2. {j} # {}
    OBVIOUS
  <2> QED
    BY <1>1, <2>1, <2>2 DEF Emit
<1>3. /\ p \in Seq(Messages) /\ Len(p) \in Nat /\ k \in 1..5 /\ x \in 1..Len(p)
      /\ JobsFit(p, k, x, f) /\ LanesFit(p, k, x) /\ ReceiverFits(p, k, x, r)
  BY <1>1 DEF MessagesInv
<1>4. /\ Known(p[x]) = Adapters[k] /\ MakesAJob(p[x]) /\ p[x].remote \in Lanes(p[x])
      /\ k = 5 => p[x].fn # "setTrustedRemoteAddress"
      /\ j.order = x /\ j.from = SenderOf(p, x)
  BY <1>1 DEF This
<1>5. JobsFit(p, k, x + 1, Append(f, j))
  BY <1>3, <1>4, OneJob
<1>6. LanesFit(p, k, x + 1)
  BY <1>3, <1>4, LaneFits
<1>7. ReceiverFits(p, k, x + 1, r)
  BY <1>3, <1>4, NoReceiver
<1>8. x + 1 \in 1..(Len(p) + 1) /\ k \in 1..6 /\ k # 6
  BY <1>3
<1> QED
  BY <1>2, <1>3, <1>5, <1>6, <1>7, <1>8 DEF MessagesInv, Told

\* An action that ends the extraction.
LEMMA Thrown ==
  ASSUME MessagesInv, extraction = "running", scanning \in 1..5, index \in 1..Len(proposalActions),
         UNCHANGED <<proposalActions, scanning>>, Throw,
         Known(This) \in {"wormhole", "layerzero"},
         \/ This.remote \notin Lanes(This)
         \/ This.data \in {"garbled", "malformed", "empty", "not an address"}
  PROVE  MessagesInv'
<1>1. /\ UNCHANGED <<proposalActions, scanning, index, found, receiver>> /\ extraction' = "thrown"
  BY DEF Throw
<1>2. Told(proposalActions, "thrown")
  BY DEF Told, This
<1> QED
  BY <1>1, <1>2 DEF MessagesInv
-----------------------------------------------------------------------------
\* The hypotheses of a step of an adapter, for its own action.
Scanning(k) ==
  /\ MessagesInv /\ extraction = "running" /\ scanning = k /\ k \in 1..5
  /\ index \in 1..Len(proposalActions) /\ UNCHANGED <<proposalActions, scanning>>
  /\ Known(This) = Adapters[k]

LEMMA ThisIs ==
  ASSUME NEW k, Scanning(k)
  PROVE  /\ This \in Messages /\ This = proposalActions[index]
         /\ This.to \in DOMAIN AdapterOf /\ AdapterOf[This.to] = Adapters[k]
         /\ \A m \in 1..5 : m # k => This.fn \notin Functions[Adapters[m]]
         /\ k = 5 => This.fn \in Functions["layerzero"] \cup {"other"}
         /\ k # 2 => This.data # "too long"
         /\ Carries(This) <=> This.fn \in Functions[Adapters[k]] \ {"setTrustedRemoteAddress"}
<1>1. This \in Messages /\ This = proposalActions[index]
  BY DEF Scanning, MessagesInv, This
<1>2. k \in 1..5 /\ Known(This) = Adapters[k]
  BY DEF Scanning
<1>3. PICK a \in Messages : a = This
  BY <1>1
<1>4. /\ a.to \in DOMAIN AdapterOf /\ AdapterOf[a.to] = Adapters[k]
      /\ \A m \in 1..5 : m # k => a.fn \notin Functions[Adapters[m]]
      /\ k = 5 => a.fn \in Functions["layerzero"] \cup {"other"}
      /\ k # 2 => a.data # "too long"
      /\ Carries(a) <=> a.fn \in Functions[Adapters[k]] \ {"setTrustedRemoteAddress"}
  <2>1. Known(a) = Adapters[k]
    BY <1>2, <1>3
  <2> QED
    BY <1>2, <2>1, KnownIs
<1> QED
  BY <1>1, <1>3, <1>4

\* Quiet and Emitted, by the number of the adapter.
LEMMA QuietStep ==
  ASSUME NEW k, Scanning(k), Emit({}), ~MakesAJob(This),
         Carries(This) /\ Decodes(This) => This.remote \in Lanes(This),
         k = 5 => \/ This.fn # "setTrustedRemoteAddress"
                  \/ This.remote \notin DOMAIN LayerZeroLanes
  PROVE  MessagesInv'
BY Quiet DEF Scanning

LEMMA EmittedStep ==
  ASSUME NEW k, Scanning(k), MakesAJob(This), This.remote \in Lanes(This),
         k = 5 => This.fn # "setTrustedRemoteAddress",
         NEW j, Emit({j}), j.order = index, j.from = SenderOf(proposalActions, index)
  PROVE  MessagesInv'
BY Emitted DEF Scanning

\* What each adapter knows of an action of its own.
LEMMA OwnAction ==
  ASSUME NEW k, Scanning(k)
  PROVE  /\ Known(This) = Adapters[k]
         /\ k \in {1, 2, 3} => This.remote \in Lanes(This)
         /\ k = 4 => Lanes(This) = DOMAIN WormholeLanes
         /\ k = 5 => Lanes(This) = DOMAIN LayerZeroLanes
         /\ k \in {1, 3, 4, 5} => This.data # "too long"
<1>1. k \in 1..5 /\ Known(This) = Adapters[k]
  BY DEF Scanning
<1>2. k \in {1, 2, 3} => Known(This) # "wormhole" /\ Known(This) # "layerzero"
  BY <1>1, AdapterFacts
<1>3. (k = 4 => Known(This) = "wormhole") /\ (k = 5 => Known(This) = "layerzero")
  BY <1>1, AdapterFacts
<1>4. k \in {1, 3, 4, 5} => This.data # "too long"
  <2>1. k # 2 => This.data # "too long"
    BY ThisIs
  <2>2. k \in {1, 3, 4, 5} => k # 2
    BY <1>1
  <2> QED
    BY <2>1, <2>2
<1> QED
  BY <1>1, <1>2, <1>3, <1>4 DEF Lanes

LEMMA ArbitrumStep ==
  ASSUME Scanning(1), Emit(ArbitrumJobs(index, This))
  PROVE  MessagesInv'
<1>1. /\ Known(This) = "arbitrum" /\ This.data # "too long" /\ This.remote \in Lanes(This)
      /\ Carries(This) <=> This.fn \in Retryable \cup Funded \cup Unfunded
  <2>1. Known(This) = Adapters[1] /\ Adapters[1] = "arbitrum"
    BY OwnAction, AdapterFacts
  <2>2. Carries(This) <=> This.fn \in Functions[Adapters[1]] \ {"setTrustedRemoteAddress"}
    BY ThisIs
  <2>3. Carries(This) <=> This.fn \in Retryable \cup Funded \cup Unfunded
    BY <2>1, <2>2, FunctionFacts
  <2>4. This.remote \in Lanes(This) /\ This.data # "too long"
    BY OwnAction
  <2> QED
    BY <2>1, <2>3, <2>4
<1>2. CASE This.fn \in Retryable \cup Funded \cup Unfunded /\ Decodes(This)
  <2>1. PICK j : j = NewJob(index, ChainOf[This.to], Alias, This.target,
                            IF This.fn \in Funded THEN 0 ELSE This.value, This.data)
    OBVIOUS
  <2>2. MakesAJob(This)
    BY <1>1, <1>2 DEF MakesAJob, Decodes
  <2>3. SenderOf(proposalActions, index) = Alias
    BY <1>1 DEF SenderOf, This
  <2>4. ArbitrumJobs(index, This) = {j}
    BY <1>2, <2>1 DEF ArbitrumJobs
  <2>5. j.order = index /\ j.from = Alias
    BY <2>1 DEF NewJob
  <2>6. Emit({j})
    BY <2>4
  <2>7. This.remote \in Lanes(This)
    BY <1>1
  <2> QED
    BY <2>2, <2>3, <2>5, <2>6, <2>7, EmittedStep
<1>3. CASE ~(This.fn \in Retryable \cup Funded \cup Unfunded /\ Decodes(This))
  <2>1. Emit({}) /\ ~MakesAJob(This)
    BY <1>1, <1>3 DEF ArbitrumJobs, MakesAJob, Decodes
  <2>2. This.remote \in Lanes(This)
    BY <1>1
  <2> QED
    BY <2>1, <2>2, QuietStep
<1> QED
  BY <1>2, <1>3

LEMMA OptimismStep ==
  ASSUME Scanning(2), Emit(OptimismJobs(index, This))
  PROVE  MessagesInv'
<1>1. /\ Known(This) = "optimism" /\ This.remote \in Lanes(This)
      /\ Carries(This) <=> This.fn \in {"sendMessage", "depositTransaction"}
  <2>1. Known(This) = Adapters[2] /\ Adapters[2] = "optimism"
    BY OwnAction, AdapterFacts
  <2>2. Carries(This) <=> This.fn \in Functions[Adapters[2]] \ {"setTrustedRemoteAddress"}
    BY ThisIs
  <2>3. Carries(This) <=> This.fn \in {"sendMessage", "depositTransaction"}
    BY <2>1, <2>2, FunctionFacts
  <2>4. This.remote \in Lanes(This)
    BY OwnAction
  <2> QED
    BY <2>1, <2>3, <2>4
<1>2. CASE This.fn \in {"sendMessage", "depositTransaction"} /\ This.data \notin {"garbled", "too long"}
  <2>1. PICK b : b = IF This.fn = "sendMessage" THEN "l1Sender" ELSE Alias
    OBVIOUS
  <2>2. PICK v : OptimismJobs(index, This) = {Unwrapped(index, ChainOf[This.to], b, This, v)}
    <3>1. CASE This.fn = "sendMessage"
      BY <1>2, <2>1, <3>1 DEF OptimismJobs
    <3>2. CASE This.fn = "depositTransaction"
      BY <1>2, <2>1, <3>2 DEF OptimismJobs
    <3> QED
      BY <1>2, <3>1, <3>2
  <2>3. PICK j : j = Unwrapped(index, ChainOf[This.to], b, This, v)
    OBVIOUS
  <2>4. /\ j.order = index
        /\ j.from = IF /\ This.data = "forward" /\ Forwarder[ChainOf[This.to]] \in {"none", This.target}
                       /\ ChainOf[This.to] # Unichain
                    THEN This.target ELSE b
    BY <2>3 DEF Unwrapped, NewJob
  <2>5. SenderOf(proposalActions, index) =
          IF /\ This.data = "forward" /\ Forwarder[ChainOf[This.to]] \in {"none", This.target}
             /\ ChainOf[This.to] # Unichain
          THEN This.target ELSE b
    BY <1>1, <2>1 DEF SenderOf, This
  <2>6. MakesAJob(This) /\ Emit({j})
    BY <1>1, <1>2, <2>2, <2>3 DEF MakesAJob
  <2> QED
    BY <1>1, <2>4, <2>5, <2>6, Emitted DEF Scanning
<1>3. CASE ~(This.fn \in {"sendMessage", "depositTransaction"} /\ This.data \notin {"garbled", "too long"})
  <2>1. OptimismJobs(index, This) = {}
    BY <1>3 DEF OptimismJobs
  <2>2. Emit({}) /\ ~MakesAJob(This)
    BY <1>1, <1>3, <2>1 DEF MakesAJob
  <2> QED
    BY <1>1, <2>2, Quiet DEF Scanning
<1> QED
  BY <1>2, <1>3

LEMMA PolygonStep ==
  ASSUME Scanning(3), Emit(PolygonJobs(index, This))
  PROVE  MessagesInv'
<1>1. /\ Known(This) = "polygon" /\ This.data # "too long" /\ This.remote \in Lanes(This)
      /\ Carries(This) <=> This.fn = "sendMessageToChild"
  <2>1. Known(This) = Adapters[3] /\ Adapters[3] = "polygon"
    BY OwnAction, AdapterFacts
  <2>2. Carries(This) <=> This.fn \in Functions[Adapters[3]] \ {"setTrustedRemoteAddress"}
    BY ThisIs
  <2>3. Carries(This) <=> This.fn = "sendMessageToChild"
    BY <2>1, <2>2, FunctionFacts
  <2>4. This.remote \in Lanes(This) /\ This.data # "too long"
    BY OwnAction
  <2> QED
    BY <2>1, <2>3, <2>4
<1>2. CASE This.fn = "sendMessageToChild" /\ Decodes(This)
  <2>1. PICK j : j = NewJob(index, "polygon", "fxChild", This.target, 0,
                            <<index, "l1Sender", This.data>>)
    OBVIOUS
  <2>2. MakesAJob(This)
    BY <1>1, <1>2 DEF MakesAJob, Decodes
  <2>3. SenderOf(proposalActions, index) = "fxChild"
    BY <1>1 DEF SenderOf, This
  <2>4. PolygonJobs(index, This) = {j}
    BY <1>2, <2>1 DEF PolygonJobs
  <2>5. j.order = index /\ j.from = "fxChild"
    BY <2>1 DEF NewJob
  <2>6. Emit({j})
    BY <2>4
  <2>7. This.remote \in Lanes(This)
    BY <1>1
  <2> QED
    BY <2>2, <2>3, <2>5, <2>6, <2>7, EmittedStep
<1>3. CASE ~(This.fn = "sendMessageToChild" /\ Decodes(This))
  <2>1. Emit({}) /\ ~MakesAJob(This)
    BY <1>1, <1>3 DEF PolygonJobs, MakesAJob, Decodes
  <2>2. This.remote \in Lanes(This)
    BY <1>1
  <2> QED
    BY <2>1, <2>2, QuietStep
<1> QED
  BY <1>2, <1>3

LEMMA WormholeStep ==
  ASSUME Scanning(4), WormholeScan
  PROVE  MessagesInv'
<1>1. /\ Known(This) = "wormhole" /\ This.data # "too long"
      /\ Lanes(This) = DOMAIN WormholeLanes
      /\ Carries(This) <=> This.fn = "sendMessages"
  <2>1. Known(This) = Adapters[4] /\ Adapters[4] = "wormhole"
    BY OwnAction, AdapterFacts
  <2>2. Carries(This) <=> This.fn \in Functions[Adapters[4]] \ {"setTrustedRemoteAddress"}
    BY ThisIs
  <2>3. Carries(This) <=> This.fn = "sendMessages"
    BY <2>1, <2>2, FunctionFacts
  <2>4. Lanes(This) = DOMAIN WormholeLanes /\ This.data # "too long"
    BY OwnAction
  <2> QED
    BY <2>1, <2>3, <2>4
<1>2. CASE This.fn # "sendMessages" \/ ~Decodes(This)
  <2>1. Emit({}) /\ ~MakesAJob(This) /\ ~(Carries(This) /\ Decodes(This))
    BY <1>1, <1>2 DEF WormholeScan, MakesAJob, Decodes
  <2> QED
    BY <2>1, Quiet DEF Scanning
<1>3. CASE ~(This.fn # "sendMessages" \/ ~Decodes(This)) /\ This.remote \notin DOMAIN WormholeLanes
  <2>1. Throw
    BY <1>3 DEF WormholeScan
  <2> QED
    BY <1>1, <1>3, <2>1, Thrown DEF Scanning
<1>4. CASE ~(This.fn # "sendMessages" \/ ~Decodes(This)) /\ This.remote \in DOMAIN WormholeLanes
  <2>1. PICK j : j = NewJob(index, WormholeLanes[This.remote].chain, WormholeLanes[This.remote].from,
                            This.target, This.value, This.data)
    OBVIOUS
  <2>2. MakesAJob(This)
    BY <1>1, <1>4 DEF MakesAJob, Decodes
  <2>3. SenderOf(proposalActions, index) = WormholeLanes[This.remote].from
    BY <1>1 DEF SenderOf, This
  <2>4. Emit({j})
    BY <1>4, <2>1 DEF WormholeScan
  <2>5. j.order = index /\ j.from = WormholeLanes[This.remote].from
    BY <2>1 DEF NewJob
  <2> QED
    BY <1>1, <1>4, <2>2, <2>3, <2>4, <2>5, EmittedStep
<1> QED
  BY <1>2, <1>3, <1>4

LEMMA TrustStep ==
  ASSUME Scanning(5), This.fn = "setTrustedRemoteAddress", Trust
  PROVE  MessagesInv'
<1>1. /\ Known(This) = "layerzero" /\ Lanes(This) = DOMAIN LayerZeroLanes /\ ~Carries(This)
  <2>1. Known(This) = Adapters[5] /\ Adapters[5] = "layerzero"
    BY OwnAction, AdapterFacts
  <2>2. Carries(This) <=> This.fn \in Functions[Adapters[5]] \ {"setTrustedRemoteAddress"}
    BY ThisIs
  <2>3. This.fn = "setTrustedRemoteAddress" => ~Carries(This)
    BY <2>1, <2>2, FunctionFacts
  <2>4. Lanes(This) = DOMAIN LayerZeroLanes
    BY OwnAction
  <2> QED
    BY <2>1, <2>3, <2>4
<1>2. CASE Throw /\ This.data \in {"garbled", "not an address"}
  BY <1>1, <1>2, Thrown DEF Scanning
<1>3. CASE This.remote \notin DOMAIN LayerZeroLanes /\ Emit({})
  BY <1>1, <1>3, Quiet DEF Scanning, MakesAJob
<1>4. CASE /\ receiver' = Trusted(This.remote, This.target)
           /\ index' = index + 1 /\ UNCHANGED <<found, extraction>>
  <2>1. PICK p, x, f, r : p = proposalActions /\ x = index /\ f = found /\ r = receiver
    OBVIOUS
  <2>2. /\ proposalActions' = p /\ scanning' = 5 /\ index' = x + 1 /\ found' = f
        /\ receiver' = Trusted(This.remote, This.target) /\ extraction' = "running"
    BY <1>4, <2>1 DEF Scanning
  <2>3. /\ p \in Seq(Messages) /\ Len(p) \in Nat /\ x \in 1..Len(p)
        /\ JobsFit(p, 5, x, f) /\ LanesFit(p, 5, x) /\ ReceiverFits(p, 5, x, r)
    BY <2>1 DEF Scanning, MessagesInv
  <2>4. Known(p[x]) = "layerzero" /\ p[x].fn = "setTrustedRemoteAddress" /\ ~Carries(p[x])
    BY <1>1, <2>1 DEF This
  <2>5. JobsFit(p, 5, x + 1, f)
    <3>1. ~MakesAJob(p[x])
      BY <2>4 DEF MakesAJob
    <3>2. \A k \in 1..5 : JobsFit(p, k, x, f) => JobsFit(p, k, x + 1, f)
      BY <2>3, <3>1, NoJob
    <3> QED
      BY <2>3, <3>2
  <2>6. LanesFit(p, 5, x + 1)
    BY <2>3, <2>4, LaneFits
  <2>7. Trusted(This.remote, This.target) =
          [q \in DOMAIN r \cup {p[x].remote} |-> IF q = p[x].remote THEN p[x].target ELSE r[q]]
    BY <2>1 DEF Trusted, This
  <2>8. ReceiverFits(p, 5, x + 1, Trusted(This.remote, This.target))
    BY <2>3, <2>4, <2>7, NewReceiver
  <2>9. x + 1 \in 1..(Len(p) + 1)
    BY <2>3
  <2> QED
    BY <2>2, <2>3, <2>5, <2>6, <2>8, <2>9 DEF MessagesInv, Told
<1> QED
  BY <1>2, <1>3, <1>4 DEF Trust, Decodes

LEMMA ExecuteStep ==
  ASSUME Scanning(5), This.fn = "execute", Execute
  PROVE  MessagesInv'
<1>1. /\ Known(This) = "layerzero" /\ This.data # "too long"
      /\ Lanes(This) = DOMAIN LayerZeroLanes /\ Carries(This)
  <2>1. Known(This) = Adapters[5] /\ Adapters[5] = "layerzero"
    BY OwnAction, AdapterFacts
  <2>2. Carries(This) <=> This.fn \in Functions[Adapters[5]] \ {"setTrustedRemoteAddress"}
    BY ThisIs
  <2>3. Carries(This)
    BY <2>1, <2>2, FunctionFacts
  <2>4. Lanes(This) = DOMAIN LayerZeroLanes /\ This.data # "too long"
    BY OwnAction
  <2> QED
    BY <2>1, <2>3, <2>4
<1>2. CASE ~Decodes(This) \/ This.remote \notin DOMAIN LayerZeroLanes \/ This.data \in {"malformed", "empty"}
  <2>1. Throw
    BY <1>2 DEF Execute
  <2>2. This.remote \notin Lanes(This) \/ This.data \in {"garbled", "malformed", "empty", "not an address"}
    BY <1>1, <1>2 DEF Decodes
  <2> QED
    BY <1>1, <2>1, <2>2, Thrown DEF Scanning
<1>3. CASE ~(~Decodes(This) \/ This.remote \notin DOMAIN LayerZeroLanes \/ This.data \in {"malformed", "empty"})
  <2>0. PICK b : b = IF This.remote \in DOMAIN receiver THEN receiver[This.remote]
                     ELSE LayerZeroLanes[This.remote].from
    OBVIOUS
  <2>1. PICK j : j = NewJob(index, LayerZeroLanes[This.remote].chain, b,
                            This.target, This.value, This.data)
    OBVIOUS
  <2>5. Emit({j})
    BY <1>3, <2>0, <2>1 DEF Execute
  <2>6. j.order = index /\ j.from = b
    BY <2>1 DEF NewJob
  <2>2. MakesAJob(This)
    BY <1>1, <1>3 DEF MakesAJob, Decodes
  <2>3. /\ proposalActions \in Seq(Messages) /\ index \in 1..Len(proposalActions)
        /\ ReceiverFits(proposalActions, 5, index, receiver)
        /\ Known(proposalActions[index]) = "layerzero"
        /\ proposalActions[index].remote \in DOMAIN LayerZeroLanes
    BY <1>1, <1>3 DEF Scanning, MessagesInv, This
  <2>4. SenderOf(proposalActions, index) = b
    BY <2>0, <2>3, LastTrusted DEF This
  <2> QED
    BY <1>1, <1>3, <2>2, <2>4, <2>5, <2>6, EmittedStep
<1> QED
  BY <1>2, <1>3

LEMMA ScanStep == ASSUME MessagesInv, Scan PROVE MessagesInv'
<1>1. /\ extraction = "running" /\ scanning \in 1..5 /\ index \in 1..Len(proposalActions)
      /\ UNCHANGED <<proposalActions, scanning>>
  <2>1. index \in 1..(Len(proposalActions) + 1) /\ Len(proposalActions) \in Nat
    BY DEF MessagesInv
  <2> QED
    BY <2>1, AdapterFacts DEF Scan, MessagesInv
<1>2. CASE Known(This) # Adapters[scanning]
  <2>1. Emit({})
    BY <1>2 DEF Scan
  <2> QED
    BY <1>1, <1>2, <2>1, Quiet
<1>3. CASE Known(This) = Adapters[scanning]
  <2>1. Scanning(scanning)
    BY <1>1, <1>3 DEF Scanning
  <2>2. \A n, m \in 1..5 : Adapters[n] = Adapters[m] => n = m
    BY AdapterFacts
  <2>3. CASE Adapters[scanning] = "arbitrum" /\ Emit(ArbitrumJobs(index, This))
    BY <1>1, <2>1, <2>2, <2>3, AdapterFacts, ArbitrumStep
  <2>4. CASE Adapters[scanning] = "optimism" /\ Emit(OptimismJobs(index, This))
    BY <1>1, <2>1, <2>2, <2>4, AdapterFacts, OptimismStep
  <2>5. CASE Adapters[scanning] = "polygon" /\ Emit(PolygonJobs(index, This))
    BY <1>1, <2>1, <2>2, <2>5, AdapterFacts, PolygonStep
  <2>6. CASE Adapters[scanning] = "wormhole" /\ WormholeScan
    BY <1>1, <2>1, <2>2, <2>6, AdapterFacts, WormholeStep
  <2>7. CASE Adapters[scanning] = "layerzero" /\ This.fn = "setTrustedRemoteAddress" /\ Trust
    BY <1>1, <2>1, <2>2, <2>7, AdapterFacts, TrustStep
  <2>8. CASE Adapters[scanning] = "layerzero" /\ This.fn = "execute" /\ Execute
    BY <1>1, <2>1, <2>2, <2>8, AdapterFacts, ExecuteStep
  <2>9. CASE Adapters[scanning] = "layerzero" /\ This.fn = "other" /\ Emit({})
    <3>1. Scanning(5)
      BY <1>1, <2>1, <2>2, <2>9, AdapterFacts
    <3>2. ~Carries(This) /\ This.fn # "setTrustedRemoteAddress"
      BY <2>9, <3>1, AdapterFacts, FunctionFacts, ThisIs
    <3> QED
      BY <1>1, <2>9, <3>2, Quiet DEF MakesAJob
  <2> QED
    BY <1>3, <2>3, <2>4, <2>5, <2>6, <2>7, <2>8, <2>9, Zenon DEF Scan
<1> QED
  BY <1>2, <1>3

LEMMA NextAdapterStep == ASSUME MessagesInv, NextAdapter PROVE MessagesInv'
<1>1. PICK p, k, x, f, r : /\ p = proposalActions /\ k = scanning /\ x = Len(p) + 1
                           /\ f = found /\ r = receiver
  OBVIOUS
<1>2. /\ p \in Seq(Messages) /\ Len(p) \in Nat /\ k \in 1..5
      /\ JobsFit(p, k, x, f) /\ LanesFit(p, k, x) /\ ReceiverFits(p, k, x, r)
  <2>1. index = x /\ k \in 1..6 /\ k # 6
    BY <1>1 DEF MessagesInv, NextAdapter
  <2> QED
    BY <1>1, <2>1 DEF MessagesInv
<1>3. /\ proposalActions' = p /\ scanning' = k + 1 /\ index' = 1 /\ receiver' = r
  BY <1>1 DEF NextAdapter
<1>4. \A i \in 1..Len(p) : Scanned(p, i, k + 1, 1) <=> Scanned(p, i, k, x)
  BY <1>1, <1>2, ScanTurns
<1>5. \A g : JobsFit(p, k, x, g) => JobsFit(p, k + 1, 1, g)
  BY <1>4 DEF JobsFit, JobFits
<1>6. LanesFit(p, k + 1, 1)
  BY <1>2, <1>4 DEF LanesFit
<1>7. ReceiverFits(p, k + 1, 1, r)
  <2>1. CASE k = 4
    <3>1. DOMAIN r = {}
      BY <1>2, <2>1 DEF ReceiverFits
    <3>2. \A q : Trusts(p, 1, q) = {}
      BY DEF Trusts
    <3>3. k + 1 = 5 /\ ~(5 < 5)
      BY <2>1
    <3> QED
      BY <3>1, <3>2, <3>3 DEF ReceiverFits
  <2>2. CASE k # 4
    <3>1. k + 1 # 5 /\ (k + 1 < 5 => k < 5)
      BY <1>2, <2>2
    <3> QED
      BY <1>2, <3>1 DEF ReceiverFits
  <2> QED
    BY <2>1, <2>2
<1>8. 1 \in 1..(Len(p) + 1) /\ k + 1 \in 1..6
  BY <1>2
<1>9. CASE k < 5
  <2>1. found' = f /\ extraction' = "running" /\ k + 1 # 6
    BY <1>1, <1>2, <1>9, AdapterFacts DEF NextAdapter
  <2> QED
    BY <1>2, <1>3, <1>5, <1>6, <1>7, <1>8, <2>1 DEF MessagesInv, Told
<1>10. CASE ~(k < 5)
  <2>1. found' = SortedJobs(f) /\ extraction' = "done" /\ k + 1 = 6
    BY <1>1, <1>2, <1>10, AdapterFacts DEF NextAdapter
  <2>2. JobsFit(p, k, x, SortedJobs(f)) /\ InOrder(SortedJobs(f))
    BY <1>2, SortingFits
  <2> QED
    BY <1>2, <1>3, <1>5, <1>6, <1>7, <1>8, <2>1, <2>2 DEF MessagesInv, Told
<1> QED
  BY <1>9, <1>10

LEMMA MessagesStart == MessagesInit => MessagesInv
<1> SUFFICES ASSUME MessagesInit PROVE MessagesInv
  OBVIOUS
<1>1. PICK p : p = proposalActions
  OBVIOUS
<1>2. PICK n \in 1..MaxActions : p \in [1..n -> Messages]
  BY <1>1 DEF MessagesInit
<1>3. p \in Seq(Messages) /\ Len(p) \in Nat
  BY <1>2
<1>4. \A i \in 1..Len(p) : ~Scanned(p, i, 1, 1)
  BY DEF Scanned
<1>5. Listed(<<>>) /\ Len(<<>>) = 0
  BY DEF Listed
<1>6. JobsFit(p, 1, 1, <<>>) /\ LanesFit(p, 1, 1)
  BY <1>4, <1>5 DEF JobsFit, LanesFit
<1>7. ReceiverFits(p, 1, 1, <<>>)
  BY DEF ReceiverFits
<1>8. 1 \in 1..(Len(p) + 1)
  BY <1>3
<1> QED
  BY <1>1, <1>3, <1>6, <1>7, <1>8 DEF MessagesInit, MessagesInv, Told

LEMMA MessagesTold == MessagesInv => MessagesBecomeJobs
<1> SUFFICES ASSUME MessagesInv PROVE MessagesBecomeJobs
  OBVIOUS
<1>1. PICK p, f : p = proposalActions /\ f = found
  OBVIOUS
<1>2. /\ JobsFit(p, scanning, index, f) /\ LanesFit(p, scanning, index)
      /\ DOMAIN f = 1..Len(f) /\ DOMAIN p = 1..Len(p)
  <2>1. JobsFit(p, scanning, index, f) /\ LanesFit(p, scanning, index) /\ p \in Seq(Messages)
    BY <1>1 DEF MessagesInv
  <2> QED
    BY <2>1, ListFacts DEF JobsFit
<1>3. \A n \in DOMAIN f : f[n].from = SenderOf(p, f[n].order)
  BY <1>2 DEF JobsFit, JobFits
<1>4. ASSUME extraction = "done"
      PROVE  /\ \A n, m \in DOMAIN f : n < m => f[n].order < f[m].order
             /\ \A i \in DOMAIN p : (\E n \in DOMAIN f : f[n].order = i) <=> MakesAJob(p[i])
             /\ \A i \in DOMAIN p : Carries(p[i]) /\ Decodes(p[i]) => p[i].remote \in Lanes(p[i])
  <2>1. scanning = 6 /\ InOrder(f)
    BY <1>1, <1>4 DEF MessagesInv
  <2>2. \A i \in 1..Len(p) : Carries(p[i]) => Scanned(p, i, scanning, index)
    <3>1. SUFFICES ASSUME NEW i \in 1..Len(p), Carries(p[i])
                   PROVE  Scanned(p, i, scanning, index)
      OBVIOUS
    <3>2. p[i].to \in DOMAIN AdapterOf /\ Known(p[i]) = AdapterOf[p[i].to]
      BY <3>1 DEF Carries, Known
    <3>3. PICK n \in 1..5 : AdapterOf[p[i].to] = Adapters[n]
      BY <3>2, AdapterFacts, MessagesAssumption
    <3> QED
      BY <2>1, <3>2, <3>3 DEF Scanned
  <2>3. \A i \in 1..Len(p) : (\E n \in 1..Len(f) : f[n].order = i) <=> MakesAJob(p[i])
    <3>1. \A i \in 1..Len(p) : MakesAJob(p[i]) => Scanned(p, i, scanning, index)
      BY <2>2 DEF MakesAJob
    <3> QED
      BY <1>2, <3>1 DEF JobsFit, JobFits
  <2>4. \A i \in 1..Len(p) : Carries(p[i]) /\ Decodes(p[i]) => p[i].remote \in Lanes(p[i])
    BY <1>2, <2>2 DEF LanesFit
  <2>5. \A n, m \in 1..Len(f) : n < m => f[n].order < f[m].order
    BY <2>1 DEF InOrder
  <2> QED
    BY <1>2, <2>3, <2>4, <2>5
<1>5. Told(p, extraction)
  BY <1>1 DEF MessagesInv
<1>6. DOMAIN proposalActions = 1..Len(proposalActions)
  BY <1>1, <1>2
<1>7. extraction = "thrown" =>
        \E i \in DOMAIN proposalActions :
          LET a == proposalActions[i] IN
          /\ Known(a) \in {"wormhole", "layerzero"}
          /\ a.remote \notin Lanes(a) \/ a.data \in {"garbled", "malformed", "empty", "not an address"}
  BY <1>1, <1>5, <1>6, Zenon DEF Told
<1>8. extraction = "done" =>
        /\ \A n, m \in DOMAIN found : n < m => found[n].order < found[m].order
        /\ \A i \in DOMAIN proposalActions :
             LET a == proposalActions[i] IN
             (\E n \in DOMAIN found : found[n].order = i) <=>
               Carries(a) /\ a.data \notin {"garbled", "too long"}
        /\ \A i \in DOMAIN proposalActions :
             Carries(proposalActions[i]) /\ Decodes(proposalActions[i]) =>
               proposalActions[i].remote \in Lanes(proposalActions[i])
  BY <1>1, <1>4, Zenon DEF MakesAJob
<1>9. \A n \in DOMAIN found : found[n].from = SenderOf(proposalActions, found[n].order)
  BY <1>1, <1>3
<1> QED
  BY <1>7, <1>8, <1>9, Zenon DEF MessagesBecomeJobs

(***************************************************************************)
(* Every message that can be read becomes one job, in the order of the     *)
(* actions, sent by whoever its bridge presents.                           *)
(***************************************************************************)
THEOREM MessagesAlwaysBecomeJobs == MessagesSpec => []MessagesBecomeJobs
<1>1. ASSUME MessagesInv, [MessagesNext]_messageVars PROVE MessagesInv'
  <2>1. CASE Scan
    BY <1>1, <2>1, ScanStep
  <2>2. CASE NextAdapter
    BY <1>1, <2>2, NextAdapterStep
  <2>3. CASE UNCHANGED messageVars
    BY <1>1, <2>3 DEF messageVars, MessagesInv
  <2> QED
    BY <1>1, <2>1, <2>2, <2>3 DEF MessagesNext
<1> QED
  BY <1>1, MessagesStart, MessagesTold, PTL DEF MessagesSpec

-----------------------------------------------------------------------------
(* ProposalExecution: what the chain holds of the proposals made on it, what a *)
(* run knows of its subject, and what the runs that ended left.            *)

Stages == {"begin", "id", "proposal", "event", "send", "ended"}
Statuses == {"refused", "failed", "success", "not found", "replayed", "replay refused"}

\* In a storage, facts are true and proposals are counted.
Sound(s) ==
  /\ \A x \in DOMAIN s : x[1] = "fact" => x = Slot("fact", x[2], 0) /\ s[x] = TRUE
  /\ Count(s) \in Nat

\* A storage holds the calls and the end of a proposal that was made.
KnowsOf(s, id) ==
  /\ Slot("end", id, 0) \in DOMAIN s /\ s[Slot("end", id, 0)] = created[id].end
  /\ Slot("length", id, 0) \in DOMAIN s /\ s[Slot("length", id, 0)] = Len(created[id].plan)
  /\ \A n \in DOMAIN created[id].plan :
       Slot("act", id, n) \in DOMAIN s /\ s[Slot("act", id, n)] = created[id].plan[n]

Entries(s) == {s[n] : n \in DOMAIN s}

\* Bravo numbers its proposals, OZ knows them by their calls.
OwnId(id, plan) == IF governorType = "bravo" THEN id \in Nat ELSE id = plan

ChainIsSound ==
  /\ chain \in Seq(Entries(chain)) /\ Len(chain) >= Pin + NewAge + 1
  /\ \A b \in DOMAIN chain : Sound(chain[b])
  /\ \A id \in DOMAIN created :
       /\ created[id].plan \in Plans
       /\ created[id].block \in DOMAIN chain /\ created[id].end \in Nat \ {0}
       /\ OwnId(id, created[id].plan)
       /\ \A b \in DOMAIN chain : created[id].block <= b => KnowsOf(chain[b], id)

\* What a run knows of its subject.
SubjectIsRead ==
  /\ subject.id \in DOMAIN created /\ subject.end = created[subject.id].end

SubjectIsKnown ==
  /\ SubjectIsRead /\ subject.plan = created[subject.id].plan
  /\ created[subject.id].block <= pinned

SubjectIsMade ==
  /\ subject.plan \in Plans /\ subject.end = pinned - NewAge + 1
  /\ OwnId(subject.id, subject.plan)

StageFits ==
  /\ governorType \in {"bravo", "oz"} /\ type \in Types /\ stage \in Stages
  /\ subject = [id |-> subject.id, plan |-> subject.plan, end |-> subject.end]
  /\ stage \in {"id", "proposal", "event", "send"} =>
       pinned \in DOMAIN chain /\ pinned > NewAge
  /\ stage = "id" => type = "new"
  /\ stage \in {"proposal", "event"} => type = "proposed"
  /\ stage = "event" => SubjectIsRead
  /\ stage = "send" =>
       \/ type = "new" /\ SubjectIsMade
       \/ type = "proposed" /\ SubjectIsKnown

Honest(n) ==
  LET run == ended[n] IN
  /\ run.status \in Statuses \ {"refused"}
  /\ run.status \in {"success", "failed"} => run.pinned \in DOMAIN chain
  /\ run.status = "success" => After(run.subject.plan, Found(n)) # {"failed"}
  /\ run.status = "failed" => After(run.subject.plan, Found(n)) = {"failed"}
  /\ run.type # "new" =>
       /\ run.subject.id \in DOMAIN created
       /\ run.status = "not found" => created[run.subject.id].block > run.pinned
       /\ run.status # "not found" => run.subject.plan = created[run.subject.id].plan
  /\ run.status = "not found" => run.type # "new"

\* What the next run starts from, besides the chain.
Kinds == {"flags", "queued", "timestamp", "fact", "executor"}

DerivedIsDiff ==
  /\ \A x \in DOMAIN derived :
       /\ x[1] \in Kinds
       /\ x[1] = "fact" => x = Slot("fact", x[2], 0) /\ derived[x] = TRUE
  /\ Slot("executor", 0, 0) \in DOMAIN derived
  /\ derived[Slot("executor", 0, 0)] = 0

\* What the calls of the first run changed.
Left ==
  LET plan == ended[1].subject.plan IN Altered(plan, WithLentEther(plan, Given(1)))

HistoryFits ==
  /\ ended \in Seq(Entries(ended)) /\ Len(ended) <= 2
  /\ \A n \in DOMAIN ended : Honest(n)
  /\ derived # <<>> => DerivedIsDiff
  /\ stage # "ended" => Len(ended) <= 1
  /\ stage # "ended" /\ Len(ended) = 1 => ended[1].status = "success"
  /\ ended = <<>> => derived = <<>>
  /\ Len(ended) = 1 =>
       IF ended[1].status = "success"
         THEN derived # <<>> /\ Facts(derived) = Left
         ELSE derived = <<>>
  /\ Len(ended) = 2 =>
       ended[1].status = "success" /\ derived # <<>> /\ ended[2].status # "replayed"

ExecInv == ChainIsSound /\ StageFits /\ HistoryFits

-----------------------------------------------------------------------------
(* Storages over storages.                                                 *)

\* A storage of one slot.
LEMMA OnlyValue ==
  ASSUME NEW a, NEW b, NEW h, h = Only(a, b)
  PROVE  DOMAIN h = {a} /\ h[a] = b
BY DEF Only

\* A slot is its three parts.
LEMMA Slots ==
  ASSUME NEW k, NEW a, NEW n, NEW l, NEW b, NEW m
  PROVE  /\ Slot(k, a, n)[1] = k /\ Slot(k, a, n)[2] = a /\ Slot(k, a, n)[3] = n
         /\ k # l \/ a # b \/ n # m => Slot(k, a, n) # Slot(l, b, m)
BY DEF Slot

\* The facts of a storage over another are those of both.
LEMMA FactsOver ==
  ASSUME NEW f, NEW g, \A x \in DOMAIN f : x[1] = "fact" => f[x] = TRUE
  PROVE  Facts(f ++ g) = Facts(f) \cup Facts(g)
<1> DEFINE h == f ++ g
<1>0. /\ DOMAIN h = DOMAIN f \cup DOMAIN g
      /\ \A x \in DOMAIN f : h[x] = f[x]
      /\ \A x \in DOMAIN g : x \notin DOMAIN f => h[x] = g[x]
  BY DEF ++
<1> HIDE DEF h
<1>1. ASSUME NEW y \in Facts(h) PROVE y \in Facts(f) \cup Facts(g)
  <2>1. PICK x \in DOMAIN h : x[1] = "fact" /\ h[x] /\ y = x[2]
    BY <1>1 DEF Facts
  <2>2. CASE x \in DOMAIN f
    <3>1. f[x]
      BY <1>0, <2>1, <2>2
    <3> QED
      BY <2>1, <2>2, <3>1 DEF Facts
  <2>3. CASE x \notin DOMAIN f
    <3>1. x \in DOMAIN g /\ g[x]
      BY <1>0, <2>1, <2>3
    <3> QED
      BY <2>1, <3>1 DEF Facts
  <2> QED
    BY <2>2, <2>3
<1>2. ASSUME NEW y \in Facts(f) PROVE y \in Facts(h)
  <2>1. PICK x \in DOMAIN f : x[1] = "fact" /\ f[x] /\ y = x[2]
    BY <1>2 DEF Facts
  <2>2. x \in DOMAIN h /\ h[x]
    BY <1>0, <2>1
  <2> QED
    BY <2>1, <2>2 DEF Facts
<1>3. ASSUME NEW y \in Facts(g) PROVE y \in Facts(h)
  <2>1. PICK x \in DOMAIN g : x[1] = "fact" /\ g[x] /\ y = x[2]
    BY <1>3 DEF Facts
  <2>2. x \in DOMAIN h /\ h[x]
    BY <1>0, <2>1
  <2> QED
    BY <2>1, <2>2 DEF Facts
<1> QED
  BY <1>1, <1>2, <1>3 DEF h

\* A storage whose slots are none of them facts.
LEMMA NoFacts ==
  ASSUME NEW f, \A x \in DOMAIN f : x[1] # "fact"
  PROVE  Facts(f) = {}
BY DEF Facts

\* Given facts are the facts there are.
LEMMA FactsWith ==
  ASSUME NEW F
  PROVE  /\ Facts(With(F)) = F
         /\ \A x \in DOMAIN With(F) : x[1] = "fact" /\ x = Slot("fact", x[2], 0) /\ With(F)[x] = TRUE
<1>1. /\ DOMAIN With(F) = {Slot("fact", f, 0) : f \in F}
      /\ \A x \in DOMAIN With(F) : With(F)[x] = TRUE
  BY DEF With
<1>2. \A x \in DOMAIN With(F) : x[1] = "fact" /\ x = Slot("fact", x[2], 0) /\ x[2] \in F
  BY <1>1, Slots
<1>3. \A f \in F : Slot("fact", f, 0) \in DOMAIN With(F) /\ Slot("fact", f, 0)[2] = f
  BY <1>1, Slots
<1>4. ASSUME NEW y \in Facts(With(F)) PROVE y \in F
  BY <1>2, <1>4 DEF Facts
<1>5. ASSUME NEW y \in F PROVE y \in Facts(With(F))
  <2>1. Slot("fact", y, 0) \in {s \in DOMAIN With(F) : s[1] = "fact" /\ With(F)[s]}
    BY <1>1, <1>2, <1>3, <1>5
  <2> QED
    BY <1>3, <1>5, <2>1 DEF Facts
<1> QED
  BY <1>1, <1>2, <1>4, <1>5

\* Five storages, one over the other.
LEMMA Layers ==
  ASSUME NEW f, NEW g, NEW d, NEW z, NEW c, NEW h, h = f ++ g ++ d ++ z ++ c
  PROVE  /\ \A x \in DOMAIN f : x \in DOMAIN h /\ h[x] = f[x]
         /\ \A x \in DOMAIN g : x \notin DOMAIN f => x \in DOMAIN h /\ h[x] = g[x]
         /\ \A x \in DOMAIN c :
              x \notin DOMAIN f /\ x \notin DOMAIN g /\ x \notin DOMAIN d /\ x \notin DOMAIN z =>
                x \in DOMAIN h /\ h[x] = c[x]
<1>1. PICK i : i = f ++ g
  OBVIOUS
<1>2. PICK j : j = i ++ d
  OBVIOUS
<1>3. PICK k : k = j ++ z
  OBVIOUS
<1>4. h = k ++ c
  BY <1>1, <1>2, <1>3
<1>5. /\ DOMAIN i = DOMAIN f \cup DOMAIN g /\ DOMAIN j = DOMAIN i \cup DOMAIN d
      /\ DOMAIN k = DOMAIN j \cup DOMAIN z /\ DOMAIN h = DOMAIN k \cup DOMAIN c
  BY <1>1, <1>2, <1>3, <1>4 DEF ++
<1>6. \A x \in DOMAIN i : h[x] = i[x]
  <2>1. \A x \in DOMAIN i : j[x] = i[x]
    BY <1>2 DEF ++
  <2>2. \A x \in DOMAIN j : k[x] = j[x]
    BY <1>3 DEF ++
  <2>3. \A x \in DOMAIN k : h[x] = k[x]
    BY <1>4 DEF ++
  <2> QED
    BY <1>5, <2>1, <2>2, <2>3
<1>7. /\ \A x \in DOMAIN f : i[x] = f[x]
      /\ \A x \in DOMAIN g : x \notin DOMAIN f => i[x] = g[x]
  BY <1>1 DEF ++
<1>8. \A x \in DOMAIN c : x \notin DOMAIN k => h[x] = c[x]
  BY <1>4 DEF ++
<1> QED
  BY <1>5, <1>6, <1>7, <1>8

\* Their slots.
LEMMA LayersHave ==
  ASSUME NEW f, NEW g, NEW d, NEW z, NEW c, NEW h, h = f ++ g ++ d ++ z ++ c
  PROVE  \A x \in DOMAIN h :
           x \in DOMAIN f \/ x \in DOMAIN g \/ x \in DOMAIN d \/ x \in DOMAIN z \/ x \in DOMAIN c
<1>1. PICK i : i = f ++ g
  OBVIOUS
<1>2. PICK j : j = i ++ d
  OBVIOUS
<1>3. PICK k : k = j ++ z
  OBVIOUS
<1>4. /\ DOMAIN i = DOMAIN f \cup DOMAIN g /\ DOMAIN j = DOMAIN i \cup DOMAIN d
      /\ DOMAIN k = DOMAIN j \cup DOMAIN z /\ DOMAIN (k ++ c) = DOMAIN k \cup DOMAIN c
  BY <1>1, <1>2, <1>3 DEF ++
<1> QED
  BY <1>1, <1>2, <1>3, <1>4

\* A storage without facts, and one with facts that are true.
Factless(s) == \A x \in DOMAIN s : x[1] # "fact"
Truthful(s) == \A x \in DOMAIN s : x[1] = "fact" => s[x] = TRUE

\* The facts of five storages, when the first two have none.
LEMMA FactsOfLayers ==
  ASSUME NEW f, NEW g, NEW d, NEW z, NEW c,
         Factless(f), Factless(g), Truthful(d), Truthful(z)
  PROVE  Facts(f ++ g ++ d ++ z ++ c) = Facts(d) \cup Facts(z) \cup Facts(c)
<1>1. PICK i : i = f ++ g
  OBVIOUS
<1>2. PICK j : j = i ++ d
  OBVIOUS
<1>3. PICK k : k = j ++ z
  OBVIOUS
<1>4. f ++ g ++ d ++ z ++ c = k ++ c
  BY <1>1, <1>2, <1>3
<1>5. /\ DOMAIN i = DOMAIN f \cup DOMAIN g /\ DOMAIN j = DOMAIN i \cup DOMAIN d
      /\ DOMAIN k = DOMAIN j \cup DOMAIN z
  BY <1>1, <1>2, <1>3 DEF ++
<1>6. \A x \in DOMAIN i : x[1] # "fact"
  BY <1>1, <1>5 DEF Factless
<1>7. \A x \in DOMAIN j : x[1] = "fact" => j[x] = TRUE
  <2>1. \A x \in DOMAIN d : x \notin DOMAIN i => j[x] = d[x]
    BY <1>2 DEF ++
  <2> QED
    BY <1>5, <1>6, <2>1 DEF Truthful
<1>8. \A x \in DOMAIN k : x[1] = "fact" => k[x] = TRUE
  <2>1. /\ \A x \in DOMAIN j : k[x] = j[x]
        /\ \A x \in DOMAIN z : x \notin DOMAIN j => k[x] = z[x]
    BY <1>3 DEF ++
  <2> QED
    BY <1>5, <1>7, <2>1 DEF Truthful
<1>9. Facts(i) = {}
  BY <1>6, NoFacts
<1>10. Facts(j) = Facts(i) \cup Facts(d)
  BY <1>2, <1>6, FactsOver
<1>11. Facts(k) = Facts(j) \cup Facts(z)
  BY <1>3, <1>7, FactsOver
<1>12. Facts(k ++ c) = Facts(k) \cup Facts(c)
  BY <1>8, FactsOver
<1> QED
  BY <1>4, <1>9, <1>10, <1>11, <1>12

-----------------------------------------------------------------------------
(* The slots a simulation overrides, and what the node makes of them.      *)

\* TimelockOverrides makes the calls of the proposal queued, or ready.
LEMMA TimelockSlots ==
  ASSUME NEW id, NEW plan
  PROVE  LET t == TimelockOverrides(id, plan) IN
         /\ governorType = "bravo" =>
              /\ \A x \in DOMAIN t : x[1] = "queued"
              /\ \A n \in DOMAIN plan : /\ Slot("queued", plan[n], SimTimestamp) \in DOMAIN t
                                        /\ t[Slot("queued", plan[n], SimTimestamp)] = TRUE
         /\ governorType # "bravo" =>
              /\ \A x \in DOMAIN t : x[1] = "timestamp"
              /\ Slot("timestamp", plan, 0) \in DOMAIN t
              /\ t[Slot("timestamp", plan, 0)] = SimTimestamp
<1>1. CASE governorType = "bravo"
  <2>1. PICK t : t = [q \in {Slot("queued", plan[n], SimTimestamp) : n \in DOMAIN plan} |-> TRUE]
    OBVIOUS
  <2>2. t = TimelockOverrides(id, plan)
    BY <1>1, <2>1 DEF TimelockOverrides
  <2>3. \A x \in DOMAIN t : x[1] = "queued"
    BY <2>1, Slots
  <2> QED
    BY <1>1, <2>1, <2>2, <2>3
<1>2. CASE governorType # "bravo"
  <2>1. PICK t : t = TimelockOverrides(id, plan)
    OBVIOUS
  <2>2. PICK x : x = Slot("timestamp", plan, 0)
    OBVIOUS
  <2>3. t = Only(x, SimTimestamp) /\ x[1] = "timestamp"
    BY <1>2, <2>1, <2>2, Slots DEF TimelockOverrides
  <2>4. DOMAIN t = {x} /\ t[x] = SimTimestamp
    BY <2>3, OnlyValue
  <2> QED
    BY <1>2, <2>1, <2>2, <2>3, <2>4
<1> QED
  BY <1>1, <1>2

\* buildGovernorStateOverrides' slots, by governor and by type.
LEMMA GovernorSlots ==
  ASSUME NEW id, NEW plan
  PROVE  LET g == GovernorOverrides(id, plan) IN
         /\ \A x \in DOMAIN g :
              x[1] \in {"flags", "votes", "start", "end", "timelockId", "count", "eta", "length", "act"}
         /\ governorType = "bravo" /\ type # "new" =>
              \A x \in DOMAIN g : x[1] \in {"flags", "votes", "count", "eta"}
         /\ Slot("flags", id, 0) \in DOMAIN g /\ g[Slot("flags", id, 0)] = Live
         /\ Slot("votes", id, 0) \in DOMAIN g /\ g[Slot("votes", id, 0)] = Supply
         /\ governorType = "oz" =>
              /\ Slot("start", id, 0) \in DOMAIN g /\ g[Slot("start", id, 0)] = SimBlock - 2
              /\ Slot("end", id, 0) \in DOMAIN g /\ g[Slot("end", id, 0)] = SimBlock - 1
              /\ Slot("timelockId", id, 0) \in DOMAIN g /\ g[Slot("timelockId", id, 0)] = plan
         /\ governorType # "oz" =>
              /\ Slot("count", 0, 0) \in DOMAIN g /\ g[Slot("count", 0, 0)] = id
              /\ Slot("eta", id, 0) \in DOMAIN g /\ g[Slot("eta", id, 0)] = SimTimestamp
         /\ governorType # "oz" /\ type = "new" =>
              /\ Slot("end", id, 0) \in DOMAIN g /\ g[Slot("end", id, 0)] = subject.end
              /\ Slot("length", id, 0) \in DOMAIN g /\ g[Slot("length", id, 0)] = Len(plan)
              /\ \A n \in DOMAIN plan : /\ Slot("act", id, n) \in DOMAIN g
                                        /\ g[Slot("act", id, n)] = plan[n]
<1> DEFINE f == Slot("flags", id, 0)
           v == Slot("votes", id, 0)
           s == Slot("start", id, 0)
           e == Slot("end", id, 0)
           l == Slot("timelockId", id, 0)
           c == Slot("count", 0, 0)
           a == Slot("eta", id, 0)
           n == Slot("length", id, 0)
           own == [x \in {Slot("act", id, m) : m \in DOMAIN plan} |-> plan[x[3]]]
<1>1. /\ f[1] = "flags" /\ v[1] = "votes" /\ s[1] = "start" /\ e[1] = "end" /\ l[1] = "timelockId"
      /\ c[1] = "count" /\ a[1] = "eta" /\ n[1] = "length"
  BY Slots
<1>2. /\ \A x \in DOMAIN own : x[1] = "act"
      /\ \A m \in DOMAIN plan : Slot("act", id, m) \in DOMAIN own /\ own[Slot("act", id, m)] = plan[m]
  BY Slots
<1>3. CASE governorType = "oz"
  <2>1. GovernorOverrides(id, plan) =
          Only(f, Live) ++ Only(v, Supply) ++
          (Only(s, SimBlock - 2) ++ Only(e, SimBlock - 1) ++ Only(l, plan))
    BY <1>3 DEF GovernorOverrides
  <2> HIDE DEF f, v, s, e, l
  <2> QED
    BY <1>1, <1>3, <2>1 DEF ++, Only, f, v, s, e, l
<1>4. CASE governorType # "oz" /\ type # "new"
  <2>1. GovernorOverrides(id, plan) =
          Only(f, Live) ++ Only(v, Supply) ++ (Only(c, id) ++ Only(a, SimTimestamp) ++ <<>>)
    BY <1>4 DEF GovernorOverrides
  <2>2. DOMAIN <<>> = {}
    OBVIOUS
  <2> HIDE DEF f, v, c, a
  <2> QED
    BY <1>1, <1>4, <2>1, <2>2 DEF ++, Only, f, v, c, a
<1>5. CASE governorType # "oz" /\ type = "new"
  <2>1. PICK y : y = Only(s, subject.end - 1) ++ Only(e, subject.end) ++ Only(n, Len(plan)) ++ own
    OBVIOUS
  <2>2. GovernorOverrides(id, plan) =
          Only(f, Live) ++ Only(v, Supply) ++ (Only(c, id) ++ Only(a, SimTimestamp) ++ y)
    BY <1>5, <2>1 DEF GovernorOverrides
  <2>3. /\ \A x \in DOMAIN y : x[1] \in {"start", "end", "length", "act"}
        /\ e \in DOMAIN y /\ y[e] = subject.end /\ n \in DOMAIN y /\ y[n] = Len(plan)
        /\ \A m \in DOMAIN plan : Slot("act", id, m) \in DOMAIN y /\ y[Slot("act", id, m)] = plan[m]
    <3>1. \A m \in DOMAIN plan : Slot("act", id, m)[1] = "act"
      BY Slots
    <3> HIDE DEF s, e, n, own
    <3>2. DOMAIN y = {s, e, n} \cup DOMAIN own
      BY <2>1 DEF ++, Only
    <3>3. y[e] = subject.end /\ y[n] = Len(plan)
      BY <1>1, <2>1, <3>2 DEF ++, Only
    <3>4. \A x \in DOMAIN own : y[x] = own[x]
      BY <1>1, <1>2, <2>1, <3>2 DEF ++, Only
    <3> QED
      BY <1>1, <1>2, <3>1, <3>2, <3>3, <3>4
  <2> HIDE DEF f, v, c, a, e, n
  <2>4. PICK g : g = GovernorOverrides(id, plan)
    OBVIOUS
  <2>5. DOMAIN g = {f, v, c, a} \cup DOMAIN y
    BY <2>2, <2>4 DEF ++, Only
  <2>6. g[f] = Live /\ g[v] = Supply /\ g[c] = id /\ g[a] = SimTimestamp
    BY <1>1, <2>2, <2>4, <2>5 DEF ++, Only
  <2>7. \A x \in DOMAIN y : g[x] = y[x]
    BY <1>1, <2>2, <2>3, <2>4, <2>5 DEF ++, Only
  <2>8. \A x \in DOMAIN g :
          x[1] \in {"flags", "votes", "start", "end", "timelockId", "count", "eta", "length", "act"}
    BY <1>1, <2>3, <2>5
  <2>9. \A m \in DOMAIN plan : /\ Slot("act", id, m) \in DOMAIN g
                               /\ g[Slot("act", id, m)] = plan[m]
    BY <2>3, <2>5, <2>7
  <2> QED
    BY <1>5, <2>3, <2>4, <2>5, <2>6, <2>7, <2>8, <2>9 DEF f, v, c, a, e, n
<1> QED
  BY <1>3, <1>4, <1>5

\* The numbers among the constants, one by one.
LEMMA Constants ==
  /\ {Pin, NewAge, BlockSeconds, Grace, Supply, Quorum, Gas, GasUsed} \subseteq Nat \ {0}
  /\ NewAge > 1 /\ Supply > Quorum /\ Gas >= GasUsed
BY ExecutionAssumption

\* The times of a simulation, and what the governor is made to see of them.
LEMMA Times ==
  ASSUME ExecInv, stage = "send"
  PROVE  /\ pinned \in Nat /\ pinned > NewAge /\ pinned \in DOMAIN chain
         /\ SimBlock \in Nat
         /\ governorType = "oz" => SimBlock - 2 \in 1..SimBlock - 1
         /\ SimTimestamp \in Nat /\ SimTimestamp > 1
         /\ governorType = "bravo" => subject.end \in Nat /\ SimBlock > subject.end
<1>0. /\ pinned \in Nat /\ pinned > NewAge /\ pinned \in DOMAIN chain
      /\ DOMAIN chain = 1..Len(chain) /\ Len(chain) \in Nat
  BY DEF ExecInv, StageFits, ChainIsSound
<1> PICK p, b, a : p = pinned /\ b = BlockSeconds /\ a = NewAge
  OBVIOUS
<1>1. p \in Nat /\ b \in Nat \ {0} /\ a \in Nat /\ a > 1 /\ p > a /\ p * b \in Nat /\ p * b >= 3
  BY <1>0, Constants
<1>2. CASE type = "new"
  <2>1. subject.end = p - a + 1 /\ SimBlock = p
    BY <1>2 DEF ExecInv, StageFits, SubjectIsMade, SubjectIsKnown, SimBlock
  <2>2. (SimBlock - subject.end) * b \in Nat
    <3>1. SimBlock - subject.end \in Nat
      BY <1>1, <2>1
    <3> QED
      BY <1>1, <3>1
  <2>3. SimTimestamp = IF governorType = "bravo" THEN p * b + (SimBlock - subject.end) * b
                       ELSE p * b + 1
    BY DEF SimTimestamp, Time
  <2> QED
    BY <1>0, <1>1, <2>1, <2>2, <2>3
<1>3. CASE type # "new"
  <2>1. subject.end \in Nat \ {0}
    BY <1>3 DEF ExecInv, StageFits, SubjectIsMade, SubjectIsKnown, SubjectIsRead, ChainIsSound
  <2>2. SimBlock = IF governorType = "bravo" THEN subject.end + 1 ELSE p + 1
    BY <1>3 DEF SimBlock
  <2>3. governorType = "bravo" => SimBlock - subject.end = 1
    BY <2>1, <2>2
  <2>4. SimTimestamp = IF governorType = "bravo" THEN p * b + 1 * b ELSE p * b + 1
    BY <2>3 DEF SimTimestamp, Time
  <2> QED
    <3>1. governorType = "oz" => governorType # "bravo"
      OBVIOUS
    <3> QED
      BY <1>0, <1>1, <2>1, <2>2, <2>4, <3>1
<1> QED
  BY <1>2, <1>3

\* WFMin, for numbers.
LEMMA MinimalNumber ==
  ASSUME NEW R, IsWellFoundedOn(R, Nat), NEW T, T \subseteq Nat, T # {}
  PROVE  \E p \in T : \A q \in T : ~(<<q, p>> \in R)
BY WFMin, Zenon

\* A set of numbers has a least one.
LEMMA LeastNumber ==
  ASSUME NEW T, T \subseteq Nat, T # {}
  PROVE  \E p \in T : \A q \in T : p <= q
<1>1. PICK R : R = {ss \in Nat \X Nat : ss[1] < ss[2]}
  OBVIOUS
<1>2. IsWellFoundedOn({ss \in Nat \X Nat : ss[1] < ss[2]}, Nat)
  BY NatLessThanWellFounded, Zenon DEF OpToRel
<1>3. PICK p \in T : \A q \in T : ~(<<q, p>> \in R)
  BY <1>1, <1>2, MinimalNumber, Zenon
<1>4. ASSUME NEW q \in T PROVE p <= q
  <2>1. p \in Nat /\ q \in Nat
    OBVIOUS
  <2>2. <<q, p>> \notin R
    BY <1>3
  <2>3. <<q, p>> \in {ss \in Nat \X Nat : ss[1] < ss[2]} <=> q < p
    BY <2>1
  <2> QED
    BY <1>1, <2>1, <2>2, <2>3
<1> QED
  BY <1>4

\* A sum that refers to itself is a function there is.
LEMMA TotalExists ==
  ASSUME NEW L \in Nat, NEW t
  PROVE  \E g : g = [n \in 0..L |-> IF n = 0 THEN 0 ELSE g[n - 1] + t[n]]
<1> DEFINE Sums(l) == \E g : g = [n \in 0..l |-> IF n = 0 THEN 0 ELSE g[n - 1] + t[n]]
<1>1. Sums(0)
  <2>1. PICK g : g = [n \in 0..0 |-> 0]
    OBVIOUS
  <2>2. g = [n \in 0..0 |-> IF n = 0 THEN 0 ELSE g[n - 1] + t[n]]
    BY <2>1
  <2> QED
    BY <2>2
<1>2. ASSUME NEW m \in Nat, Sums(m)
      PROVE  Sums(m + 1)
  <2>1. PICK g : g = [n \in 0..m |-> IF n = 0 THEN 0 ELSE g[n - 1] + t[n]]
    BY <1>2
  <2>2. PICK h : h = [n \in 0..(m + 1) |-> IF n = m + 1 THEN g[m] + t[m + 1] ELSE g[n]]
    OBVIOUS
  <2>3. ASSUME NEW n \in 0..(m + 1)
        PROVE  h[n] = IF n = 0 THEN 0 ELSE h[n - 1] + t[n]
    <3>1. CASE n = m + 1
      <4>1. h[n - 1] = g[m] /\ n # 0 /\ h[n] = g[m] + t[m + 1]
        BY <2>2, <3>1
      <4> QED
        BY <3>1, <4>1
    <3>2. CASE n # m + 1
      <4>1. n \in 0..m
        BY <3>2
      <4>2. h[n] = g[n] /\ (n # 0 => h[n - 1] = g[n - 1])
        BY <2>2, <3>2, <4>1
      <4> QED
        BY <2>1, <4>1, <4>2
    <3> QED
      BY <3>1, <3>2
  <2>4. h = [n \in 0..(m + 1) |-> IF n = 0 THEN 0 ELSE h[n - 1] + t[n]]
    <3>1. h = [n \in 0..(m + 1) |-> h[n]]
      BY <2>2
    <3> QED
      BY <2>3, <3>1
  <2> QED
    BY <2>4
<1>3. PICK T : T = {l \in Nat : ~Sums(l)}
  OBVIOUS
<1>4. ASSUME T # {} PROVE FALSE
  <2>1. PICK m \in T : \A l \in T : m <= l
    BY <1>3, <1>4, LeastNumber
  <2>2. m \in Nat /\ ~Sums(m)
    BY <1>3
  <2>3. m # 0
    BY <1>1, <2>2
  <2>4. m - 1 \in Nat /\ (m - 1) + 1 = m /\ ~(m <= m - 1)
    BY <2>2, <2>3
  <2>5. Sums(m - 1)
    BY <1>3, <2>1, <2>4
  <2>6. Sums((m - 1) + 1)
    BY <1>2, <2>4, <2>5
  <2> QED
    BY <2>2, <2>4, <2>6
<1> QED
  BY <1>3, <1>4

\* The ether the calls of a proposal send is a number.
LEMMA TotalIsNat ==
  ASSUME NEW plan \in Plans
  PROVE  TotalValue(plan) \in Nat
<1>1. PICK L : L = Len(plan)
  OBVIOUS
<1>2. L \in Nat /\ \A n \in 1..L : ValueOf[plan[n]] \in Nat
  BY <1>1, ExecutionAssumption
<1>3. PICK t : t = [n \in 1..L |-> ValueOf[plan[n]]]
  OBVIOUS
<1>4. PICK g : g = [n \in 0..L |-> IF n = 0 THEN 0 ELSE g[n - 1] + t[n]]
  BY <1>2, TotalExists
<1>5. ASSUME NEW f
      PROVE  [n \in 0..L |-> IF n = 0 THEN 0 ELSE f[n - 1] + ValueOf[plan[n]]]
             = [n \in 0..L |-> IF n = 0 THEN 0 ELSE f[n - 1] + t[n]]
  <2>1. \A n \in 0..L : n # 0 => t[n] = ValueOf[plan[n]]
    BY <1>3
  <2> QED
    BY <2>1
<1>6. g = [n \in 0..L |-> IF n = 0 THEN 0 ELSE g[n - 1] + ValueOf[plan[n]]]
  BY <1>4, <1>5
<1> DEFINE e == CHOOSE e : e = [n \in 0..L |-> IF n = 0 THEN 0 ELSE e[n - 1] + ValueOf[plan[n]]]
<1>7. TotalValue(plan) = e[L]
  BY <1>1 DEF TotalValue
<1>8. e = [n \in 0..L |-> IF n = 0 THEN 0 ELSE e[n - 1] + ValueOf[plan[n]]]
  BY <1>6, Zenon
<1> HIDE DEF e
<1>9. PICK T : T = {n \in 0..L : e[n] \notin Nat}
  OBVIOUS
<1>10. ASSUME T # {} PROVE FALSE
  <2>0. T \subseteq Nat
    BY <1>9
  <2>1. PICK m \in T : \A l \in T : m <= l
    BY <1>10, <2>0, LeastNumber
  <2>2. m \in 0..L /\ e[m] \notin Nat
    BY <1>9
  <2>3. m # 0
    BY <1>8, <2>2
  <2>4. m - 1 \in 0..L /\ m \in 1..L /\ ~(m <= m - 1)
    BY <1>2, <2>2, <2>3
  <2>5. e[m - 1] \in Nat
    BY <1>9, <2>1, <2>4
  <2>6. e[m] = e[m - 1] + ValueOf[plan[m]]
    BY <1>8, <2>2, <2>3
  <2> QED
    BY <1>2, <2>2, <2>4, <2>5, <2>6
<1> QED
  BY <1>2, <1>7, <1>9, <1>10

\* What an earlier run left, if one did, is flags, queue entries and facts.
LEMMA DerivedSlots ==
  ASSUME ExecInv
  PROVE  \A x \in DOMAIN derived :
           /\ x[1] \in Kinds
           /\ x[1] = "fact" => x = Slot("fact", x[2], 0) /\ derived[x] = TRUE
<1>1. CASE derived = <<>>
  BY <1>1
<1>2. CASE derived # <<>>
  BY <1>2 DEF ExecInv, HistoryFits, DerivedIsDiff
<1> QED
  BY <1>1, <1>2

\* The slots of the timelock, under a name.
LEMMA TimelockSlotsAre ==
  ASSUME NEW id, NEW plan, NEW f, f = TimelockOverrides(id, plan)
  PROVE  /\ \A x \in DOMAIN f : x[1] \in {"queued", "timestamp"}
         /\ governorType = "bravo" => \A n \in DOMAIN plan :
              /\ Slot("queued", plan[n], SimTimestamp) \in DOMAIN f
              /\ f[Slot("queued", plan[n], SimTimestamp)] = TRUE
         /\ governorType # "bravo" =>
              Slot("timestamp", plan, 0) \in DOMAIN f /\ f[Slot("timestamp", plan, 0)] = SimTimestamp
<1>1. CASE governorType = "bravo"
  <2>1. /\ \A x \in DOMAIN f : x[1] = "queued"
        /\ \A n \in DOMAIN plan : /\ Slot("queued", plan[n], SimTimestamp) \in DOMAIN f
                                  /\ f[Slot("queued", plan[n], SimTimestamp)] = TRUE
    BY <1>1, TimelockSlots
  <2> QED
    BY <1>1, <2>1
<1>2. CASE governorType # "bravo"
  <2>1. /\ \A x \in DOMAIN f : x[1] = "timestamp"
        /\ Slot("timestamp", plan, 0) \in DOMAIN f
        /\ f[Slot("timestamp", plan, 0)] = SimTimestamp
    BY <1>2, TimelockSlots
  <2> QED
    BY <1>2, <2>1
<1> QED
  BY <1>1, <1>2

\* Storages, one over the other, in any order.
LEMMA OverOver ==
  ASSUME NEW f, NEW g, NEW h
  PROVE  f ++ g ++ h = f ++ (g ++ h)
<1>1. PICK i, j, k, l : i = f ++ g /\ j = g ++ h /\ k = i ++ h /\ l = f ++ j
  OBVIOUS
<1>2. /\ DOMAIN i = DOMAIN f \cup DOMAIN g
      /\ \A x \in DOMAIN f : i[x] = f[x]
      /\ \A x \in DOMAIN g : x \notin DOMAIN f => i[x] = g[x]
  BY <1>1 DEF ++
<1>3. /\ DOMAIN j = DOMAIN g \cup DOMAIN h
      /\ \A x \in DOMAIN g : j[x] = g[x]
      /\ \A x \in DOMAIN h : x \notin DOMAIN g => j[x] = h[x]
  BY <1>1 DEF ++
<1>4. k = [x \in DOMAIN i \cup DOMAIN h |-> IF x \in DOMAIN i THEN i[x] ELSE h[x]]
  BY <1>1 DEF ++
<1>5. l = [x \in DOMAIN f \cup DOMAIN j |-> IF x \in DOMAIN f THEN f[x] ELSE j[x]]
  BY <1>1 DEF ++
<1>6. DOMAIN i \cup DOMAIN h = DOMAIN f \cup DOMAIN j
  BY <1>2, <1>3
<1>7. ASSUME NEW x \in DOMAIN i \cup DOMAIN h
      PROVE  (IF x \in DOMAIN i THEN i[x] ELSE h[x]) = (IF x \in DOMAIN f THEN f[x] ELSE j[x])
  BY <1>2, <1>3
<1>8. k = l
  BY <1>4, <1>5, <1>6, <1>7
<1> QED
  BY <1>1, <1>8

\* Two storages with the same slots but for facts.
SameButFacts(s, t) ==
  \A x : x[1] # "fact" =>
    (x \in DOMAIN s <=> x \in DOMAIN t) /\ (x \in DOMAIN s => s[x] = t[x])

\* The governor and the timelock make no difference between them.
LEMMA SameAnswers ==
  ASSUME NEW s, NEW t, SameButFacts(s, t), NEW id
  PROVE  /\ CallsOf(s, id) = CallsOf(t, id)
         /\ \A plan, b, n : BravoAccepts(s, id, plan, b, n) <=> BravoAccepts(t, id, plan, b, n)
         /\ \A b, n : OzAccepts(s, id, b, n) <=> OzAccepts(t, id, b, n)
<1>1. ASSUME NEW k, k # "fact", NEW a, NEW n, NEW d
      PROVE  Read(s, Slot(k, a, n), d) = Read(t, Slot(k, a, n), d)
  <2>1. Slot(k, a, n)[1] # "fact"
    BY <1>1, Slots
  <2> QED
    BY <2>1 DEF SameButFacts, Read
<1>2. CallsOf(s, id) = CallsOf(t, id)
  <2>1. Read(s, Slot("length", id, 0), 0) = Read(t, Slot("length", id, 0), 0)
    BY <1>1
  <2>2. \A n : Read(s, Slot("act", id, n), "none") = Read(t, Slot("act", id, n), "none")
    BY <1>1
  <2> QED
    BY <2>1, <2>2 DEF CallsOf
<1>3. ASSUME NEW plan, NEW b, NEW n
      PROVE  BravoAccepts(s, id, plan, b, n) <=> BravoAccepts(t, id, plan, b, n)
  <2>1. /\ Read(s, Slot("eta", id, 0), 0) = Read(t, Slot("eta", id, 0), 0)
        /\ Count(s) = Count(t)
        /\ Read(s, Slot("flags", id, 0), Live) = Read(t, Slot("flags", id, 0), Live)
        /\ Read(s, Slot("end", id, 0), 0) = Read(t, Slot("end", id, 0), 0)
        /\ Votes(s, id) = Votes(t, id)
    BY <1>1 DEF Count, Votes
  <2>2. \A a, e : Read(s, Slot("queued", a, e), FALSE) = Read(t, Slot("queued", a, e), FALSE)
    BY <1>1
  <2> QED
    BY <2>1, <2>2 DEF BravoAccepts
<1>4. ASSUME NEW b, NEW n
      PROVE  OzAccepts(s, id, b, n) <=> OzAccepts(t, id, b, n)
  <2>1. /\ Read(s, Slot("timelockId", id, 0), <<>>) = Read(t, Slot("timelockId", id, 0), <<>>)
        /\ Read(s, Slot("flags", id, 0), Live) = Read(t, Slot("flags", id, 0), Live)
        /\ Read(s, Slot("start", id, 0), 0) = Read(t, Slot("start", id, 0), 0)
        /\ Read(s, Slot("end", id, 0), 0) = Read(t, Slot("end", id, 0), 0)
        /\ Votes(s, id) = Votes(t, id)
    BY <1>1 DEF Votes
  <2>2. \A a : Read(s, Slot("timestamp", a, 0), 0) = Read(t, Slot("timestamp", a, 0), 0)
    BY <1>1
  <2> QED
    BY <2>1, <2>2 DEF OzAccepts
<1> QED
  BY <1>2, <1>3, <1>4

\* The ether that calls send is all that the timelock holds.
LEMMA EtherIsLent ==
  ASSUME NEW plan, NEW s, NEW t, t = EtherOverrides(plan) ++ s,
         \A x \in DOMAIN s : x[1] = "fact" => x = Slot("fact", x[2], 0)
  PROVE  Facts(t) = WithLentEther(plan, Facts(s)) /\ SameButFacts(t, s)
<1> PICK e, r, v : e = EtherOverrides(plan) /\ r = Slot("fact", Rich, 0) /\ v = (TotalValue(plan) >= Riches)
  OBVIOUS
<1>1. r[1] = "fact" /\ r[2] = Rich
  BY Slots
<1>2. /\ DOMAIN t = DOMAIN e \cup DOMAIN s
      /\ \A x \in DOMAIN e : t[x] = e[x]
      /\ \A x \in DOMAIN s : x \notin DOMAIN e => t[x] = s[x]
  BY DEF ++
<1>3. CASE TotalValue(plan) = 0
  <2>1. e = <<>>
    BY <1>3 DEF EtherOverrides
  <2>2. DOMAIN e = {}
    BY <2>1
  <2>3. DOMAIN t = DOMAIN s /\ \A x \in DOMAIN s : t[x] = s[x]
    BY <1>2, <2>2
  <2>4. Facts(t) = Facts(s)
    BY <2>3 DEF Facts
  <2> QED
    BY <1>3, <2>3, <2>4 DEF WithLentEther, SameButFacts
<1>4. CASE TotalValue(plan) # 0
  <2>1. e = Only(r, v)
    BY <1>4 DEF EtherOverrides
  <2>2. DOMAIN e = {r} /\ e[r] = v
    BY <2>1 DEF Only
  <2>3. r \in DOMAIN t /\ t[r] = v
    BY <1>2, <2>2
  <2>4. \A x : x # r => (x \in DOMAIN t <=> x \in DOMAIN s)
    BY <1>2, <2>2
  <2>5. \A x \in DOMAIN s : x # r => t[x] = s[x]
    BY <1>2, <2>2
  <2>6. ASSUME NEW y, y # Rich PROVE y \in Facts(t) <=> y \in Facts(s)
    <3>1. ASSUME NEW x, x[2] = y
          PROVE  (x \in DOMAIN t /\ x[1] = "fact" /\ t[x]) <=> (x \in DOMAIN s /\ x[1] = "fact" /\ s[x])
      BY <1>1, <2>4, <2>5, <2>6, <3>1
    <3> QED
      BY <3>1 DEF Facts
  <2>7. Rich \in Facts(t) <=> v
    <3>1. ASSUME NEW x \in DOMAIN t, x[1] = "fact", x[2] = Rich PROVE x = r
      BY <2>4, <3>1
    <3>2. v => Rich \in Facts(t)
      BY <1>1, <2>3 DEF Facts
    <3>3. ASSUME Rich \in Facts(t) PROVE v
      <4>1. PICK x \in DOMAIN t : x[1] = "fact" /\ t[x] /\ x[2] = Rich
        BY <3>3 DEF Facts
      <4>2. x = r
        BY <3>1, <4>1
      <4> QED
        BY <2>3, <4>1, <4>2
    <3> QED
      BY <3>2, <3>3
  <2>8. Facts(t) = WithLentEther(plan, Facts(s))
    BY <1>4, <2>6, <2>7 DEF WithLentEther
  <2>9. SameButFacts(t, s)
    BY <1>1, <2>4, <2>5 DEF SameButFacts
  <2> QED
    BY <2>8, <2>9
<1> QED
  BY <1>3, <1>4

\* What is simulated on, but for the timelock's ether, and that the node takes
\* the calls for the proposal's.
LEMMA StateUnder ==
  ASSUME ExecInv, stage = "send", NEW at,
         at = StateObjects(subject.id, subject.plan) ++ chain[pinned]
  PROVE  /\ Facts(at) = Facts(derived) \cup (IF type = "new" THEN seeded ELSE {}) \cup
                          Facts(chain[pinned])
         /\ CallsOf(at, subject.id) = subject.plan
         /\ IF governorType = "bravo"
              THEN BravoAccepts(at, subject.id, subject.plan, SimBlock, SimTimestamp)
              ELSE OzAccepts(at, subject.id, SimBlock, SimTimestamp)
         /\ \A x \in DOMAIN at : x[1] = "fact" => x = Slot("fact", x[2], 0)
<1> PICK id, plan, f, g, d, z, c :
      /\ id = subject.id /\ plan = subject.plan
      /\ f = TimelockOverrides(id, plan) /\ g = GovernorOverrides(id, plan) /\ d = derived
      /\ z = (IF type = "new" THEN With(seeded) ELSE <<>>) /\ c = chain[pinned]
  OBVIOUS
<1>1. at = f ++ g ++ d ++ z ++ c
  BY DEF StateObjects
<1>2. /\ \A x \in DOMAIN f : x[1] \in {"queued", "timestamp"}
      /\ governorType = "bravo" => \A n \in DOMAIN plan :
           /\ Slot("queued", plan[n], SimTimestamp) \in DOMAIN f
           /\ f[Slot("queued", plan[n], SimTimestamp)] = TRUE
      /\ governorType # "bravo" =>
           Slot("timestamp", plan, 0) \in DOMAIN f /\ f[Slot("timestamp", plan, 0)] = SimTimestamp
  BY TimelockSlotsAre
<1>3. /\ \A x \in DOMAIN g :
           x[1] \in {"flags", "votes", "start", "end", "timelockId", "count", "eta", "length", "act"}
      /\ governorType = "bravo" /\ type # "new" =>
           \A x \in DOMAIN g : x[1] \in {"flags", "votes", "count", "eta"}
      /\ Slot("flags", id, 0) \in DOMAIN g /\ g[Slot("flags", id, 0)] = Live
      /\ Slot("votes", id, 0) \in DOMAIN g /\ g[Slot("votes", id, 0)] = Supply
  BY GovernorSlots
<1>4. \A x \in DOMAIN d :
        x[1] \in Kinds /\ (x[1] = "fact" => x = Slot("fact", x[2], 0) /\ d[x] = TRUE)
  BY DerivedSlots
<1>5. /\ \A x \in DOMAIN z : x[1] = "fact" /\ x = Slot("fact", x[2], 0) /\ z[x] = TRUE
      /\ Facts(z) = IF type = "new" THEN seeded ELSE {}
  <2>1. CASE type = "new"
    BY <2>1, FactsWith
  <2>2. CASE type # "new"
    <3>1. z = <<>>
      BY <2>2
    <3> QED
      BY <2>2, <3>1, NoFacts
  <2> QED
    BY <2>1, <2>2
<1>6. /\ pinned \in DOMAIN chain /\ pinned \in Nat /\ Sound(c)
      /\ plan \in Plans /\ plan \in Seq(Acts) /\ OwnId(id, plan)
      /\ governorType \in {"bravo", "oz"}
  <2>1. pinned \in DOMAIN chain /\ pinned \in Nat /\ Sound(c) /\ governorType \in {"bravo", "oz"}
    BY Times DEF ExecInv, ChainIsSound, StageFits
  <2>2. plan \in Plans /\ OwnId(id, plan)
    BY DEF ExecInv, StageFits, SubjectIsMade, SubjectIsKnown, SubjectIsRead, ChainIsSound
  <2> QED
    BY <2>1, <2>2, ExecutionAssumption
<1>7. Facts(at) = Facts(d) \cup Facts(z) \cup Facts(c)
  <2>1. Factless(f) /\ Factless(g) /\ Truthful(d) /\ Truthful(z)
    BY <1>2, <1>3, <1>4, <1>5 DEF Factless, Truthful
  <2>2. Facts(f ++ g ++ d ++ z ++ c) = Facts(d) \cup Facts(z) \cup Facts(c)
    BY <2>1, FactsOfLayers
  <2> QED
    BY <1>1, <2>2
<1>8. /\ \A x \in DOMAIN f : x \in DOMAIN at /\ at[x] = f[x]
      /\ \A x \in DOMAIN g : x \notin DOMAIN f => x \in DOMAIN at /\ at[x] = g[x]
      /\ \A x \in DOMAIN c :
           x \notin DOMAIN f /\ x \notin DOMAIN g /\ x \notin DOMAIN d /\ x \notin DOMAIN z =>
             x \in DOMAIN at /\ at[x] = c[x]
  BY <1>1, Layers
<1>9. /\ \A x \in DOMAIN g : x \in DOMAIN at /\ at[x] = g[x]
      /\ Slot("flags", id, 0) \in DOMAIN at /\ at[Slot("flags", id, 0)] = Live
      /\ Slot("votes", id, 0) \in DOMAIN at /\ at[Slot("votes", id, 0)] = Supply
  <2>1. \A x \in DOMAIN g : x \notin DOMAIN f
    BY <1>2, <1>3
  <2>2. \A x \in DOMAIN g : x \in DOMAIN at /\ at[x] = g[x]
    BY <1>8, <2>1
  <2> QED
    BY <1>3, <2>2
<1>10. \A x \in DOMAIN at : x[1] = "fact" => x = Slot("fact", x[2], 0)
  <2>1. \A x \in DOMAIN c : x[1] = "fact" => x = Slot("fact", x[2], 0)
    BY <1>6 DEF Sound
  <2>2. \A x \in DOMAIN at :
          x \in DOMAIN f \/ x \in DOMAIN g \/ x \in DOMAIN d \/ x \in DOMAIN z \/ x \in DOMAIN c
    BY <1>1, LayersHave
  <2> QED
    BY <1>2, <1>3, <1>4, <1>5, <2>1, <2>2
<1>11. CASE governorType = "bravo"
  <2>1. /\ Slot("count", 0, 0) \in DOMAIN at /\ at[Slot("count", 0, 0)] = id
        /\ Slot("eta", id, 0) \in DOMAIN at /\ at[Slot("eta", id, 0)] = SimTimestamp
        /\ type = "new" =>
             /\ Slot("end", id, 0) \in DOMAIN at /\ at[Slot("end", id, 0)] = subject.end
             /\ Slot("length", id, 0) \in DOMAIN at /\ at[Slot("length", id, 0)] = Len(plan)
             /\ \A n \in DOMAIN plan : /\ Slot("act", id, n) \in DOMAIN at
                                       /\ at[Slot("act", id, n)] = plan[n]
    <3>1. /\ Slot("count", 0, 0) \in DOMAIN g /\ g[Slot("count", 0, 0)] = id
          /\ Slot("eta", id, 0) \in DOMAIN g /\ g[Slot("eta", id, 0)] = SimTimestamp
          /\ type = "new" =>
               /\ Slot("end", id, 0) \in DOMAIN g /\ g[Slot("end", id, 0)] = subject.end
               /\ Slot("length", id, 0) \in DOMAIN g /\ g[Slot("length", id, 0)] = Len(plan)
               /\ \A n \in DOMAIN plan : /\ Slot("act", id, n) \in DOMAIN g
                                         /\ g[Slot("act", id, n)] = plan[n]
      BY <1>11, GovernorSlots
    <3> QED
      BY <1>9, <3>1
  <2>2. /\ Slot("end", id, 0) \in DOMAIN at /\ at[Slot("end", id, 0)] = subject.end
        /\ Slot("length", id, 0) \in DOMAIN at /\ at[Slot("length", id, 0)] = Len(plan)
        /\ \A n \in DOMAIN plan : /\ Slot("act", id, n) \in DOMAIN at
                                  /\ at[Slot("act", id, n)] = plan[n]
    <3>1. CASE type = "new"
      BY <2>1, <3>1
    <3>2. CASE type # "new"
      <4>1. /\ id \in DOMAIN created /\ created[id].block <= pinned
            /\ subject.end = created[id].end /\ plan = created[id].plan
        BY <3>2 DEF ExecInv, StageFits, SubjectIsMade, SubjectIsKnown, SubjectIsRead
      <4>2. KnowsOf(c, id)
        BY <1>6, <4>1 DEF ExecInv, ChainIsSound
      <4>3. \A x \in DOMAIN c : x[1] \in {"end", "length", "act"} =>
              x \in DOMAIN at /\ at[x] = c[x]
        BY <1>2, <1>3, <1>4, <1>5, <1>8, <1>11, <3>2 DEF Kinds
      <4>4. /\ Slot("end", id, 0)[1] = "end" /\ Slot("length", id, 0)[1] = "length"
            /\ \A n \in DOMAIN plan : Slot("act", id, n)[1] = "act"
        BY Slots
      <4> QED
        BY <4>1, <4>2, <4>3, <4>4 DEF KnowsOf
    <3> QED
      BY <3>1, <3>2
  <2>3. CallsOf(at, id) = plan
    <3>1. Read(at, Slot("length", id, 0), 0) = Len(plan)
      BY <2>2 DEF Read
    <3>2. \A n \in 1..Len(plan) : Read(at, Slot("act", id, n), "none") = plan[n]
      BY <1>6, <2>2 DEF Read
    <3>3. CallsOf(at, id) = [n \in 1..Len(plan) |-> Read(at, Slot("act", id, n), "none")]
      BY <1>11, <3>1 DEF CallsOf
    <3>4. plan = [n \in 1..Len(plan) |-> plan[n]]
      BY <1>6
    <3> QED
      BY <3>2, <3>3, <3>4
  <2>4. BravoAccepts(at, id, plan, SimBlock, SimTimestamp)
    <3>1. /\ Count(at) = id /\ id \in Nat
      BY <1>6, <1>11, <2>1 DEF Count, Read, OwnId
    <3>2. /\ Read(at, Slot("flags", id, 0), Live) = Live
          /\ Read(at, Slot("end", id, 0), 0) = subject.end
          /\ Votes(at, id) = Supply
          /\ Read(at, Slot("eta", id, 0), 0) = SimTimestamp
      BY <1>9, <2>1, <2>2 DEF Read, Votes
    <3>3. \A n \in DOMAIN plan : Read(at, Slot("queued", plan[n], SimTimestamp), FALSE)
      <4>1. \A n \in DOMAIN plan :
              /\ Slot("queued", plan[n], SimTimestamp) \in DOMAIN at
              /\ at[Slot("queued", plan[n], SimTimestamp)] = TRUE
        BY <1>2, <1>8, <1>11
      <4> QED
        BY <4>1 DEF Read
    <3>4. /\ SimBlock > subject.end /\ SimTimestamp \in Nat /\ SimTimestamp # 0
          /\ Supply > Quorum /\ Grace \in Nat \ {0}
      BY <1>11, Times, Constants
    <3>5. SimTimestamp < SimTimestamp + Grace
      BY <3>4
    <3>6. /\ Count(at) >= id /\ SimBlock > Read(at, Slot("end", id, 0), 0) /\ Votes(at, id) > Quorum
          /\ SimTimestamp >= SimTimestamp
      BY <3>1, <3>2, <3>4
    <3> QED
      BY <3>2, <3>3, <3>4, <3>5, <3>6, Zenon DEF BravoAccepts
  <2> QED
    BY <1>5, <1>7, <1>10, <1>11, <2>3, <2>4
<1>12. CASE governorType = "oz"
  <2>1. id = plan
    BY <1>6, <1>12 DEF OwnId
  <2>2. /\ Slot("start", id, 0) \in DOMAIN at /\ at[Slot("start", id, 0)] = SimBlock - 2
        /\ Slot("end", id, 0) \in DOMAIN at /\ at[Slot("end", id, 0)] = SimBlock - 1
        /\ Slot("timelockId", id, 0) \in DOMAIN at /\ at[Slot("timelockId", id, 0)] = plan
    <3>1. /\ Slot("start", id, 0) \in DOMAIN g /\ g[Slot("start", id, 0)] = SimBlock - 2
          /\ Slot("end", id, 0) \in DOMAIN g /\ g[Slot("end", id, 0)] = SimBlock - 1
          /\ Slot("timelockId", id, 0) \in DOMAIN g /\ g[Slot("timelockId", id, 0)] = plan
      BY <1>12, GovernorSlots
    <3> QED
      BY <1>9, <3>1
  <2>3. /\ Slot("timestamp", plan, 0) \in DOMAIN at
        /\ at[Slot("timestamp", plan, 0)] = SimTimestamp
    BY <1>2, <1>8, <1>12
  <2>4. OzAccepts(at, id, SimBlock, SimTimestamp)
    <3>1. /\ Read(at, Slot("flags", id, 0), Live) = Live
          /\ Read(at, Slot("start", id, 0), 0) = SimBlock - 2
          /\ Read(at, Slot("end", id, 0), 0) = SimBlock - 1
          /\ Votes(at, id) = Supply
          /\ Read(at, Slot("timelockId", id, 0), <<>>) = plan
          /\ Read(at, Slot("timestamp", plan, 0), 0) = SimTimestamp
      BY <1>9, <2>2, <2>3 DEF Read, Votes
    <3>2. /\ SimBlock \in Nat /\ SimBlock - 2 \in 1..SimBlock - 1 /\ SimBlock - 1 < SimBlock
          /\ SimTimestamp \in Nat /\ SimTimestamp > 1 /\ Supply > Quorum
      BY <1>12, Times, Constants
    <3> QED
      BY <3>1, <3>2 DEF OzAccepts
  <2>5. CallsOf(at, id) = plan
    BY <1>12, <2>1 DEF CallsOf
  <2> QED
    BY <1>5, <1>7, <1>10, <1>12, <2>4, <2>5
<1> QED
  BY <1>6, <1>11, <1>12

\* What a run's calls find, and that the node takes them for the proposal's.
LEMMA SimulatedState ==
  ASSUME ExecInv, stage = "send", NEW at,
         at = EtherOverrides(subject.plan) ++ StateObjects(subject.id, subject.plan) ++ chain[pinned]
  PROVE  /\ Facts(at) = WithLentEther(subject.plan, Facts(derived) \cup
                            (IF type = "new" THEN seeded ELSE {}) \cup Facts(chain[pinned]))
         /\ CallsOf(at, subject.id) = subject.plan
         /\ IF governorType = "bravo"
              THEN BravoAccepts(at, subject.id, subject.plan, SimBlock, SimTimestamp)
              ELSE OzAccepts(at, subject.id, SimBlock, SimTimestamp)
<1>1. PICK under : under = StateObjects(subject.id, subject.plan) ++ chain[pinned]
  OBVIOUS
<1>2. at = EtherOverrides(subject.plan) ++ under
  BY <1>1, OverOver
<1>3. /\ Facts(under) = Facts(derived) \cup (IF type = "new" THEN seeded ELSE {}) \cup
                          Facts(chain[pinned])
      /\ CallsOf(under, subject.id) = subject.plan
      /\ IF governorType = "bravo"
           THEN BravoAccepts(under, subject.id, subject.plan, SimBlock, SimTimestamp)
           ELSE OzAccepts(under, subject.id, SimBlock, SimTimestamp)
      /\ \A x \in DOMAIN under : x[1] = "fact" => x = Slot("fact", x[2], 0)
  BY <1>1, StateUnder
<1>4. Facts(at) = WithLentEther(subject.plan, Facts(under)) /\ SameButFacts(at, under)
  BY <1>2, <1>3, EtherIsLent
<1>5. /\ CallsOf(at, subject.id) = CallsOf(under, subject.id)
      /\ BravoAccepts(at, subject.id, subject.plan, SimBlock, SimTimestamp) <=>
           BravoAccepts(under, subject.id, subject.plan, SimBlock, SimTimestamp)
      /\ OzAccepts(at, subject.id, SimBlock, SimTimestamp) <=>
           OzAccepts(under, subject.id, SimBlock, SimTimestamp)
  BY <1>4, SameAnswers
<1> QED
  BY <1>3, <1>4, <1>5

-----------------------------------------------------------------------------
(* The chain goes its own way.                                             *)

\* Sequences, of whatever.
IsList(s) == s \in Seq(Entries(s))
IsLonger(t, s, e) == t = Append(s, e)

\* A sequence that is one entry longer.
LEMMA Appended ==
  ASSUME NEW s, NEW e, NEW t, IsList(s), IsLonger(t, s, e)
  PROVE  /\ t \in Seq(Entries(t)) /\ Len(t) = Len(s) + 1 /\ Len(s) \in Nat
         /\ DOMAIN s = 1..Len(s) /\ DOMAIN t = DOMAIN s \cup {Len(s) + 1}
         /\ \A n \in DOMAIN s : t[n] = s[n]
         /\ t[Len(s) + 1] = e
<1>1. PICK E : E = Entries(s) \cup {e}
  OBVIOUS
<1>2. s \in Seq(E) /\ e \in E
  <2>1. \A n \in 1..Len(s) : s[n] \in E
    BY <1>1 DEF IsList, Entries
  <2> QED
    BY <1>1, <2>1 DEF IsList
<1>3. /\ t \in Seq(E) /\ Len(t) = Len(s) + 1 /\ Len(s) \in Nat /\ DOMAIN s = 1..Len(s)
      /\ DOMAIN t = 1..Len(s) + 1
      /\ \A n \in 1..Len(s) : t[n] = s[n]
      /\ t[Len(s) + 1] = e
  BY <1>2 DEF IsLonger
<1>4. t \in Seq(Entries(t))
  <2>1. \A n \in 1..Len(t) : t[n] \in Entries(t)
    BY <1>3 DEF Entries
  <2> QED
    BY <1>3, <2>1
<1> QED
  BY <1>3, <1>4

\* A new block has the storage of the last one, but for what was written.
LEMMA BlockGrows ==
  ASSUME ExecInv, NEW s, Block(s)
  PROVE  /\ Tip \in Nat /\ Tip \in DOMAIN chain /\ DOMAIN chain = 1..Tip
         /\ chain' \in Seq(Entries(chain)') /\ Len(chain') = Tip + 1
         /\ DOMAIN chain' = DOMAIN chain \cup {Tip + 1}
         /\ \A b \in DOMAIN chain : chain'[b] = chain[b]
         /\ chain'[Tip + 1] = s ++ chain[Tip]
<1>1. /\ chain \in Seq(Entries(chain)) /\ Len(chain) >= Pin + NewAge + 1
  BY DEF ExecInv, ChainIsSound
<1>2. chain' = Append(chain, s ++ chain[Tip])
  BY DEF Block
<1>3. PICK c, t, e : c = chain /\ t = chain' /\ e = s ++ chain[Tip]
  OBVIOUS
<1>7. IsList(c) /\ IsLonger(t, c, e)
  BY <1>1, <1>2, <1>3 DEF IsList, IsLonger
<1>4. /\ t \in Seq(Entries(t)) /\ Len(t) = Len(c) + 1 /\ Len(c) \in Nat
      /\ DOMAIN c = 1..Len(c) /\ DOMAIN t = DOMAIN c \cup {Len(c) + 1}
      /\ \A n \in DOMAIN c : t[n] = c[n]
      /\ t[Len(c) + 1] = e
  BY <1>7, Appended
<1>5. Len(c) \in 1..Len(c)
  BY <1>1, <1>3, <1>4, Constants
<1>6. Entries(t) = Entries(chain)'
  BY <1>3 DEF Entries
<1> QED
  BY <1>3, <1>4, <1>5, <1>6 DEF Tip

\* True facts and a count over a sound storage.
LEMMA SoundOver ==
  ASSUME NEW s, NEW c, Sound(c), Count(s ++ c) \in Nat,
         \A x \in DOMAIN s : x[1] = "fact" => x = Slot("fact", x[2], 0) /\ s[x] = TRUE
  PROVE  Sound(s ++ c)
<1>1. PICK h : h = s ++ c
  OBVIOUS
<1>2. ASSUME NEW x \in DOMAIN h, x[1] = "fact"
      PROVE  x = Slot("fact", x[2], 0) /\ h[x] = TRUE
  <2>1. \/ x \in DOMAIN s /\ h[x] = s[x]
        \/ x \in DOMAIN c /\ h[x] = c[x]
    BY <1>1 DEF ++
  <2>2. x \in DOMAIN c => x = Slot("fact", x[2], 0) /\ c[x] = TRUE
    BY <1>2 DEF Sound
  <2> QED
    BY <1>2, <2>1, <2>2
<1> QED
  BY <1>1, <1>2 DEF Sound

\* A storage over another that says nothing of a proposal leaves it there.
LEMMA HoldsOver ==
  ASSUME NEW s, NEW c, NEW id, KnowsOf(c, id),
         \A x \in DOMAIN s : x[1] \in {"end", "length", "act"} => x[2] # id
  PROVE  KnowsOf(s ++ c, id)
<1>1. PICK h : h = s ++ c
  OBVIOUS
<1>2. \A x \in DOMAIN c : x \notin DOMAIN s => x \in DOMAIN h /\ h[x] = c[x]
  BY <1>1 DEF ++
<1>3. /\ Slot("end", id, 0) \notin DOMAIN s /\ Slot("length", id, 0) \notin DOMAIN s
      /\ \A n \in DOMAIN created[id].plan : Slot("act", id, n) \notin DOMAIN s
  <2>1. /\ Slot("end", id, 0)[1] = "end" /\ Slot("end", id, 0)[2] = id
        /\ Slot("length", id, 0)[1] = "length" /\ Slot("length", id, 0)[2] = id
        /\ \A n \in DOMAIN created[id].plan :
             Slot("act", id, n)[1] = "act" /\ Slot("act", id, n)[2] = id
    BY Slots
  <2> QED
    BY <2>1
<1> QED
  BY <1>1, <1>2, <1>3 DEF KnowsOf

\* A step that leaves the chain and its proposals alone keeps them sound.
LEMMA ChainKept ==
  ASSUME ChainIsSound, UNCHANGED <<governorType, chain, created>>
  PROVE  ChainIsSound'
<1>1. /\ Entries(chain)' = Entries(chain)
      /\ \A b \in DOMAIN chain : Sound(chain[b])' <=> Sound(chain[b])
      /\ \A b \in DOMAIN chain, id \in DOMAIN created : KnowsOf(chain[b], id)' <=> KnowsOf(chain[b], id)
      /\ \A id \in DOMAIN created : OwnId(id, created[id].plan)' <=> OwnId(id, created[id].plan)
  BY DEF Entries, Sound, Count, KnowsOf, OwnId
<1> QED
  BY <1>1 DEF ChainIsSound

\* What a run did stays true of the chain that moves on.
LEMMA HistoryKept ==
  ASSUME ExecInv, UNCHANGED <<governorType, type, stage, subject, pinned, seeded, derived, ended>>,
         DOMAIN chain \subseteq DOMAIN chain', \A b \in DOMAIN chain : chain'[b] = chain[b],
         DOMAIN created \subseteq DOMAIN created',
         \A id \in DOMAIN created : created'[id] = created[id]
  PROVE  StageFits' /\ HistoryFits'
<1>1. StageFits'
  <2>1. SubjectIsRead => SubjectIsRead'
    BY DEF SubjectIsRead
  <2>2. SubjectIsKnown => SubjectIsKnown'
    BY <2>1 DEF SubjectIsKnown, SubjectIsRead
  <2>3. SubjectIsMade => SubjectIsMade'
    BY DEF SubjectIsMade, OwnId
  <2> QED
    BY <2>1, <2>2, <2>3 DEF ExecInv, StageFits
<1>2. DOMAIN ended = 1..Len(ended) /\ Len(ended) \in Nat /\ Len(ended) <= 2
  BY DEF ExecInv, HistoryFits
<1>3. ASSUME NEW n \in DOMAIN ended, ended[n].status \in {"success", "failed"}
      PROVE  Given(n)' = Given(n)
  <2>1. ended[n].pinned \in DOMAIN chain
    BY <1>3 DEF ExecInv, HistoryFits, Honest
  <2> QED
    BY <2>1 DEF Given
<1>4. ASSUME NEW n \in DOMAIN ended, ended[n].status \in {"success", "failed"}
      PROVE  Found(n)' = Found(n)
  <2>1. Given(n)' = Given(n)
    BY <1>3, <1>4
  <2>2. n = 2 => Given(1)' = Given(1)
    <3>1. n = 2 => Len(ended) = 2 /\ 1 \in DOMAIN ended
      BY <1>2
    <3>2. n = 2 => ended[1].status = "success"
      BY <3>1 DEF ExecInv, HistoryFits
    <3> QED
      BY <1>3, <3>1, <3>2
  <2> QED
    BY <2>1, <2>2 DEF Found
<1>5. ASSUME NEW n \in DOMAIN ended PROVE Honest(n)'
  <2>1. Honest(n)
    BY DEF ExecInv, HistoryFits
  <2>2. ended' = ended
    OBVIOUS
  <2> QED
    BY <1>4, <2>1, <2>2 DEF Honest
<1>6. Len(ended) = 1 /\ ended[1].status = "success" => Left' = Left
  <2>1. Len(ended) = 1 /\ ended[1].status = "success" => Given(1)' = Given(1)
    BY <1>2, <1>3
  <2> QED
    BY <2>1 DEF Left
<1>7. DerivedIsDiff => DerivedIsDiff'
  BY DEF DerivedIsDiff
<1>8. HistoryFits'
  <2>1. ended' = ended /\ derived' = derived /\ stage' = stage /\ Entries(ended)' = Entries(ended)
    BY DEF Entries
  <2> QED
    BY <1>5, <1>6, <1>7, <2>1 DEF ExecInv, HistoryFits
<1> QED
  BY <1>1, <1>8

\* Blocks in which no proposal is made: flags and facts are written.
LEMMA OthersKept ==
  ASSUME ExecInv, NEW s, Block(s), UNCHANGED created,
         \A x \in DOMAIN s :
           /\ x[1] \in {"flags", "fact"}
           /\ x[1] = "fact" => x = Slot("fact", x[2], 0) /\ s[x] = TRUE
  PROVE  ExecInv'
<1> PICK top : top = s ++ chain[Tip]
  OBVIOUS
<1>1. /\ Tip \in Nat /\ Tip \in DOMAIN chain /\ DOMAIN chain = 1..Tip
      /\ chain' \in Seq(Entries(chain)') /\ Len(chain') = Tip + 1
      /\ DOMAIN chain' = DOMAIN chain \cup {Tip + 1}
      /\ \A b \in DOMAIN chain : chain'[b] = chain[b]
      /\ chain'[Tip + 1] = top
  BY BlockGrows
<1>2. UNCHANGED <<governorType, type, stage, subject, pinned, seeded, derived, ended>>
  BY DEF Block
<1>3. Sound(top)
  <2>1. Sound(chain[Tip])
    BY <1>1 DEF ExecInv, ChainIsSound
  <2>2. Slot("count", 0, 0) \notin DOMAIN s
    BY Slots
  <2>3. Count(top) = Count(chain[Tip])
    BY <2>2 DEF Count, Read, ++
  <2>4. Count(s ++ chain[Tip]) \in Nat
    BY <2>1, <2>3 DEF Sound
  <2> QED
    BY <2>1, <2>4, SoundOver
<1>4. ASSUME NEW id \in DOMAIN created PROVE KnowsOf(top, id)
  <2>1. created[id].block <= Tip
    BY <1>1 DEF ExecInv, ChainIsSound
  <2>2. KnowsOf(chain[Tip], id)
    BY <1>1, <2>1 DEF ExecInv, ChainIsSound
  <2>3. \A x \in DOMAIN s : x[1] \in {"end", "length", "act"} => x[2] # id
    OBVIOUS
  <2> QED
    BY <2>2, <2>3, HoldsOver
<1>5. ChainIsSound'
  <2>1. \A b \in DOMAIN chain' : Sound(chain'[b])
    BY <1>1, <1>3 DEF ExecInv, ChainIsSound
  <2>2. \A b \in DOMAIN chain', id \in DOMAIN created :
          created[id].block <= b => KnowsOf(chain'[b], id)
    BY <1>1, <1>4 DEF ExecInv, ChainIsSound
  <2>3. \A b \in DOMAIN chain', id \in DOMAIN created :
          KnowsOf(chain'[b], id) => KnowsOf(chain[b], id)'
    BY DEF KnowsOf
  <2>4. Len(chain') >= Pin + NewAge + 1
    <3>1. Tip >= Pin + NewAge + 1
      BY DEF ExecInv, ChainIsSound, Tip
    <3> QED
      BY <1>1, <3>1, Constants
  <2>5. /\ \A b \in DOMAIN chain' : Sound(chain[b])'
        /\ \A id \in DOMAIN created : OwnId(id, created[id].plan) => OwnId(id, created[id].plan)'
    BY <1>2, <2>1 DEF Sound, OwnId, Count
  <2>6. created' = created
    OBVIOUS
  <2> QED
    BY <1>1, <2>2, <2>3, <2>4, <2>5, <2>6 DEF ExecInv, ChainIsSound
<1> QED
  BY <1>1, <1>2, <1>5, HistoryKept DEF ExecInv

\* The storage in which a proposal is made, over the one before.
MadeStorage(id, k, start, plan) ==
  Only(Slot("flags", id, 0), Live) ++ Only(Slot("count", 0, 0), k) ++
  Only(Slot("start", id, 0), start) ++ Only(Slot("end", id, 0), start + 1) ++
  Only(Slot("length", id, 0), Len(plan)) ++
  [s \in {Slot("act", id, n) : n \in DOMAIN plan} |-> plan[s[3]]]

\* MadeStorage is about its own proposal.
LEMMA MadeSlots ==
  ASSUME NEW id, NEW k, NEW start, NEW plan, NEW s, s = MadeStorage(id, k, start, plan)
  PROVE  /\ \A x \in DOMAIN s : /\ x[1] \in {"flags", "count", "start", "end", "length", "act"}
                                /\ x[1] \in {"end", "length", "act"} => x[2] = id
         /\ Slot("count", 0, 0) \in DOMAIN s /\ s[Slot("count", 0, 0)] = k
         /\ Slot("end", id, 0) \in DOMAIN s /\ s[Slot("end", id, 0)] = start + 1
         /\ Slot("length", id, 0) \in DOMAIN s /\ s[Slot("length", id, 0)] = Len(plan)
         /\ \A n \in DOMAIN plan : /\ Slot("act", id, n) \in DOMAIN s
                                   /\ s[Slot("act", id, n)] = plan[n]
<1> PICK f, c, t, e, l, own :
      /\ f = Slot("flags", id, 0) /\ c = Slot("count", 0, 0) /\ t = Slot("start", id, 0)
      /\ e = Slot("end", id, 0) /\ l = Slot("length", id, 0)
      /\ own = [x \in {Slot("act", id, n) : n \in DOMAIN plan} |-> plan[x[3]]]
  OBVIOUS
<1>1. /\ f[1] = "flags" /\ c[1] = "count" /\ t[1] = "start" /\ e[1] = "end" /\ l[1] = "length"
      /\ e[2] = id /\ l[2] = id
  BY Slots
<1>2. /\ \A x \in DOMAIN own : x[1] = "act" /\ x[2] = id
      /\ \A n \in DOMAIN plan : Slot("act", id, n) \in DOMAIN own /\ own[Slot("act", id, n)] = plan[n]
  BY Slots
<1>3. s = Only(f, Live) ++ Only(c, k) ++ Only(t, start) ++ Only(e, start + 1) ++
          Only(l, Len(plan)) ++ own
  BY DEF MadeStorage
<1>4. DOMAIN s = {f, c, t, e, l} \cup DOMAIN own
  BY <1>3 DEF ++, Only
<1>5. PICK a, b, d :
        /\ a = Only(f, Live) ++ Only(c, k) ++ Only(t, start)
        /\ b = a ++ Only(e, start + 1) /\ d = b ++ Only(l, Len(plan))
  OBVIOUS
<1>6. s = d ++ own
  BY <1>3, <1>5
<1>7. DOMAIN a = {f, c, t} /\ a[c] = k
  BY <1>1, <1>5 DEF ++, Only
<1>8. DOMAIN b = {f, c, t, e} /\ b[c] = k /\ b[e] = start + 1
  BY <1>1, <1>5, <1>7 DEF ++, Only
<1>9. DOMAIN d = {f, c, t, e, l} /\ d[c] = k /\ d[e] = start + 1 /\ d[l] = Len(plan)
  BY <1>1, <1>5, <1>8 DEF ++, Only
<1>10. s[c] = k /\ s[e] = start + 1 /\ s[l] = Len(plan)
  BY <1>6, <1>9 DEF ++
<1>11. \A x \in DOMAIN own : s[x] = own[x]
  BY <1>1, <1>2, <1>6, <1>9 DEF ++
<1> QED
  BY <1>1, <1>2, <1>4, <1>10, <1>11

\* A proposal is made.
LEMMA CreateKeeps ==
  ASSUME ExecInv, NEW plan \in Plans, Create(plan)
  PROVE  ExecInv'
<1> PICK id, k, start, s, rec :
      /\ id = (IF governorType = "bravo" THEN Count(chain[Tip]) + 1 ELSE plan)
      /\ k = Count(chain[Tip]) + 1 /\ start = Tip + 2 /\ s = MadeStorage(id, k, start, plan)
      /\ rec = [block |-> Tip + 1, plan |-> plan, end |-> start + 1]
  OBVIOUS
<1> PICK top : top = s ++ chain[Tip]
  OBVIOUS
<1>0. id \notin DOMAIN created /\ created' = Only(id, rec) ++ created /\ Block(s)
  BY Zenon DEF Create, MadeStorage
<1>1. /\ Tip \in Nat /\ Tip \in DOMAIN chain /\ DOMAIN chain = 1..Tip
      /\ chain' \in Seq(Entries(chain)') /\ Len(chain') = Tip + 1
      /\ DOMAIN chain' = DOMAIN chain \cup {Tip + 1}
      /\ \A b \in DOMAIN chain : chain'[b] = chain[b]
      /\ chain'[Tip + 1] = top
  BY <1>0, BlockGrows
<1>2. UNCHANGED <<governorType, type, stage, subject, pinned, seeded, derived, ended>>
  BY <1>0 DEF Block
<1>3. /\ \A x \in DOMAIN s : /\ x[1] \in {"flags", "count", "start", "end", "length", "act"}
                             /\ x[1] \in {"end", "length", "act"} => x[2] = id
      /\ Slot("count", 0, 0) \in DOMAIN s /\ s[Slot("count", 0, 0)] = k
      /\ Slot("end", id, 0) \in DOMAIN s /\ s[Slot("end", id, 0)] = start + 1
      /\ Slot("length", id, 0) \in DOMAIN s /\ s[Slot("length", id, 0)] = Len(plan)
      /\ \A n \in DOMAIN plan : /\ Slot("act", id, n) \in DOMAIN s
                                /\ s[Slot("act", id, n)] = plan[n]
  BY MadeSlots
<1>4. /\ DOMAIN created' = DOMAIN created \cup {id} /\ created'[id] = rec
      /\ \A i \in DOMAIN created : created'[i] = created[i]
  BY <1>0 DEF ++, Only
<1>5. Sound(top)
  <2>1. Sound(chain[Tip])
    BY <1>1 DEF ExecInv, ChainIsSound
  <2>2. Count(s ++ chain[Tip]) = k
    BY <1>3 DEF Count, Read, ++
  <2>3. Count(s ++ chain[Tip]) \in Nat
    BY <2>1, <2>2 DEF Sound
  <2>4. \A x \in DOMAIN s : x[1] = "fact" => x = Slot("fact", x[2], 0) /\ s[x] = TRUE
    BY <1>3
  <2> QED
    BY <2>1, <2>3, <2>4, SoundOver
<1>6. ASSUME NEW i \in DOMAIN created PROVE KnowsOf(top, i)
  <2>1. created[i].block <= Tip
    BY <1>1 DEF ExecInv, ChainIsSound
  <2>2. KnowsOf(chain[Tip], i)
    BY <1>1, <2>1 DEF ExecInv, ChainIsSound
  <2>3. \A x \in DOMAIN s : x[1] \in {"end", "length", "act"} => x[2] # i
    BY <1>0, <1>3
  <2> QED
    BY <2>2, <2>3, HoldsOver
<1>7. ChainIsSound'
  <2>1. \A b \in DOMAIN chain' : Sound(chain'[b])
    BY <1>1, <1>5 DEF ExecInv, ChainIsSound
  <2>2. \A b \in DOMAIN chain' : Sound(chain[b])'
    BY <2>1 DEF Sound, Count
  <2>3. Len(chain') >= Pin + NewAge + 1
    <3>1. Tip >= Pin + NewAge + 1
      BY DEF ExecInv, ChainIsSound, Tip
    <3> QED
      BY <1>1, <3>1, Constants
  <2>4. ASSUME NEW i \in DOMAIN created
        PROVE  /\ created'[i].plan \in Plans
               /\ created'[i].block \in DOMAIN chain' /\ created'[i].end \in Nat \ {0}
               /\ OwnId(i, created[i].plan)'
               /\ \A b \in DOMAIN chain' : created'[i].block <= b => KnowsOf(chain[b], i)'
    <3>1. \A b \in DOMAIN chain' : created[i].block <= b => KnowsOf(chain'[b], i)
      BY <1>1, <1>6 DEF ExecInv, ChainIsSound
    <3>2. \A b \in DOMAIN chain' : KnowsOf(chain'[b], i) => KnowsOf(chain[b], i)'
      BY <1>4 DEF KnowsOf
    <3>3. created'[i] = created[i]
      BY <1>4
    <3>4. OwnId(i, created[i].plan)'
      BY <1>2, <3>3 DEF ExecInv, ChainIsSound, OwnId
    <3> QED
      BY <1>1, <3>1, <3>2, <3>3, <3>4 DEF ExecInv, ChainIsSound
  <2>5. /\ created'[id].plan \in Plans
        /\ created'[id].block \in DOMAIN chain' /\ created'[id].end \in Nat \ {0}
        /\ OwnId(id, created[id].plan)'
        /\ \A b \in DOMAIN chain' : created'[id].block <= b => KnowsOf(chain[b], id)'
    <3>1. created'[id].plan = plan /\ created'[id].block = Tip + 1 /\ created'[id].end = start + 1
      BY <1>4
    <3>2. OwnId(id, created[id].plan)'
      <4>1. Count(chain[Tip]) \in Nat
        BY <1>1 DEF ExecInv, ChainIsSound, Sound
      <4> QED
        BY <1>2, <3>1, <4>1 DEF OwnId
    <3>3. ASSUME NEW b \in DOMAIN chain', Tip + 1 <= b PROVE KnowsOf(chain[b], id)'
      <4>1. b = Tip + 1
        BY <1>1, <3>3
      <4>2. \A x \in DOMAIN s : x \in DOMAIN top /\ top[x] = s[x]
        BY DEF ++
      <4>3. /\ Slot("end", id, 0) \in DOMAIN top /\ top[Slot("end", id, 0)] = start + 1
            /\ Slot("length", id, 0) \in DOMAIN top /\ top[Slot("length", id, 0)] = Len(plan)
            /\ \A n \in DOMAIN plan : /\ Slot("act", id, n) \in DOMAIN top
                                      /\ top[Slot("act", id, n)] = plan[n]
        BY <1>3, <4>2
      <4>4. chain'[b] = top
        BY <1>1, <4>1
      <4> QED
        BY <3>1, <4>3, <4>4 DEF KnowsOf
    <3> QED
      BY <1>1, <3>1, <3>2, <3>3
  <2> QED
    BY <1>1, <1>4, <2>2, <2>3, <2>4, <2>5 DEF ChainIsSound
<1> QED
  BY <1>1, <1>2, <1>4, <1>7, HistoryKept DEF ExecInv

\* A proposal is canceled or carried out.
LEMMA SettleKeeps ==
  ASSUME ExecInv, NEW id \in DOMAIN created, Settle(id)
  PROVE  ExecInv'
<1> PICK f : f = Slot("flags", id, 0)
  OBVIOUS
<1>0. f[1] = "flags"
  BY Slots
<1>1. ASSUME NEW v, Block(Only(f, v)) PROVE ExecInv'
  <2>1. PICK s : s = Only(f, v)
    OBVIOUS
  <2>2. \A x \in DOMAIN s : x[1] = "flags"
    BY <1>0, <2>1 DEF Only
  <2> QED
    BY <1>1, <2>1, <2>2, OthersKept DEF Settle
<1>2. ASSUME NEW v, NEW F, Block(Only(f, v) ++ With(F)) PROVE ExecInv'
  <2>1. PICK s : s = Only(f, v) ++ With(F)
    OBVIOUS
  <2>2. \A x \in DOMAIN s : \/ x[1] = "flags"
                            \/ x[1] = "fact" /\ x = Slot("fact", x[2], 0) /\ s[x] = TRUE
    BY <1>0, <2>1, FactsWith DEF Only, ++
  <2> QED
    BY <1>2, <2>1, <2>2, OthersKept DEF Settle
<1> QED
  BY <1>1, <1>2 DEF Settle

\* A block without any of that.
LEMMA PassesKeeps ==
  ASSUME ExecInv, Passes
  PROVE  ExecInv'
<1>1. PICK s : s = <<>>
  OBVIOUS
<1>2. Block(s) /\ UNCHANGED created /\ DOMAIN s = {}
  BY <1>1 DEF Passes
<1> QED
  BY <1>2, OthersKept

-----------------------------------------------------------------------------
(* A run ends.                                                             *)

\* What a run that succeeded leaves: flags, queue entries, the facts that are
\* new, and the executor's balance, which is settled.
IsQueue(q) == \A x \in DOMAIN q : x[1] \in {"queued", "timestamp"}
IsDiff(D, f, u, q, F, v) == D = Only(f, u) ++ q ++ With(F) ++ Only(Slot("executor", 0, 0), v)
IsSettled(E, D, w) == E = Only(Slot("executor", 0, 0), w) ++ D
IsLeft(E, D, F, v, w) ==
  /\ D[Slot("executor", 0, 0)] = v
  /\ \A x \in DOMAIN E :
       /\ x[1] \in Kinds
       /\ x[1] = "fact" => x = Slot("fact", x[2], 0) /\ E[x] = TRUE
  /\ Slot("executor", 0, 0) \in DOMAIN E /\ E[Slot("executor", 0, 0)] = w
  /\ Facts(E) = F

\* What is left has the new facts, and the executor's balance as settled.
LEMMA DiffSlots ==
  ASSUME NEW f, NEW u, NEW q, NEW F, NEW v, NEW w, NEW D, NEW E,
         f[1] = "flags", IsQueue(q), IsDiff(D, f, u, q, F, v), IsSettled(E, D, w)
  PROVE  IsLeft(E, D, F, v, w)
<1> PICK e : e = Slot("executor", 0, 0)
  OBVIOUS
<1>1. e[1] = "executor"
  BY Slots
<1>2. PICK a, b, W, g, h : /\ a = Only(f, u) /\ b = a ++ q /\ W = With(F)
                           /\ g = Only(e, v) /\ h = Only(e, w)
  OBVIOUS
<1>3. PICK c : c = b ++ W
  OBVIOUS
<1>4. D = c ++ g /\ E = h ++ D
  BY <1>2, <1>3 DEF IsDiff, IsSettled
<1>5. /\ DOMAIN a = {f} /\ DOMAIN g = {e} /\ DOMAIN h = {e} /\ g[e] = v /\ h[e] = w
  BY <1>2 DEF Only
<1>6. /\ \A x \in DOMAIN W : x[1] = "fact" /\ x = Slot("fact", x[2], 0) /\ W[x] = TRUE
      /\ Facts(W) = F
  BY <1>2, FactsWith
<1>7. DOMAIN b = {f} \cup DOMAIN q
  BY <1>2, <1>5 DEF ++
<1>8. /\ DOMAIN c = DOMAIN b \cup DOMAIN W
      /\ \A x \in DOMAIN W : x \notin DOMAIN b => c[x] = W[x]
  BY <1>3 DEF ++
<1>9. \A x \in DOMAIN b : x[1] \in {"flags", "queued", "timestamp"}
  BY <1>7 DEF IsQueue
<1>10. /\ DOMAIN D = DOMAIN c \cup {e} /\ DOMAIN E = DOMAIN D
       /\ \A x \in DOMAIN c : D[x] = c[x]
       /\ e \notin DOMAIN c => D[e] = v
       /\ \A x \in DOMAIN D : x # e => E[x] = D[x]
       /\ E[e] = w
  <2>1. DOMAIN D = DOMAIN c \cup {e}
    BY <1>4, <1>5 DEF ++
  <2>2. (\A x \in DOMAIN c : D[x] = c[x]) /\ (e \notin DOMAIN c => D[e] = v)
    BY <1>4, <1>5 DEF ++
  <2>3. DOMAIN E = DOMAIN D
    BY <1>4, <1>5, <2>1 DEF ++
  <2>4. (\A x \in DOMAIN D : x # e => E[x] = D[x]) /\ E[e] = w
    BY <1>4, <1>5, <2>1 DEF ++
  <2> QED
    BY <2>1, <2>2, <2>3, <2>4
<1>11. e \notin DOMAIN c
  BY <1>1, <1>6, <1>8, <1>9
<1>12. \A x \in DOMAIN W : c[x] = TRUE /\ D[x] = TRUE /\ E[x] = TRUE
  BY <1>6, <1>8, <1>9, <1>10, <1>11
<1>13. Facts(E) = F
  <2>1. Facts(b) = {} /\ Facts(g) = {} /\ Facts(h) = {}
    BY <1>1, <1>5, <1>9, NoFacts
  <2>2. Facts(c) = Facts(b) \cup Facts(W)
    BY <1>3, <1>9, FactsOver
  <2>3. \A x \in DOMAIN c : x[1] = "fact" => c[x] = TRUE
    BY <1>8, <1>9, <1>12
  <2>4. Facts(D) = Facts(c) \cup Facts(g)
    BY <1>4, <2>3, FactsOver
  <2>5. \A x \in DOMAIN h : x[1] = "fact" => h[x] = TRUE
    BY <1>1, <1>5
  <2>6. Facts(E) = Facts(h) \cup Facts(D)
    BY <1>4, <2>5, FactsOver
  <2> QED
    BY <1>6, <2>1, <2>2, <2>4, <2>6
<1> QED
  BY <1>1, <1>6, <1>8, <1>9, <1>10, <1>11, <1>12, <1>13 DEF Kinds, IsLeft

\* The facts the current run is given, and those its calls are to find.
OnHand == Facts(derived) \cup (IF type = "new" THEN seeded ELSE {}) \cup Facts(chain[pinned])

ToFind(plan) == WithLentEther(plan, OnHand)

\* A run ends as it must: how it ends, and what it leaves.
EndsWell(status, diff) ==
  /\ status \in Statuses \ {"refused"}
  /\ subject' = [id |-> subject'.id, plan |-> subject'.plan, end |-> subject'.end]
  /\ status \in {"success", "failed"} => pinned \in DOMAIN chain
  /\ status = "failed" => After(subject'.plan, ToFind(subject'.plan)) = {"failed"}
  /\ type # "new" =>
       /\ subject'.id \in DOMAIN created
       /\ status = "not found" => created[subject'.id].block > pinned
       /\ status # "not found" => subject'.plan = created[subject'.id].plan
  /\ status = "not found" => type # "new"
  /\ status = "replayed" => derived = <<>>
  /\ status # "success" => diff = derived

LeavesWell(status, diff) ==
  status = "success" =>
    /\ After(subject'.plan, ToFind(subject'.plan)) # {"failed"}
    /\ \A x \in DOMAIN diff :
         /\ x[1] \in Kinds
         /\ x[1] = "fact" => x = Slot("fact", x[2], 0) /\ diff[x] = TRUE
    /\ Slot("executor", 0, 0) \in DOMAIN diff /\ diff[Slot("executor", 0, 0)] = 0
    /\ Facts(diff) = Altered(subject'.plan, ToFind(subject'.plan))

\* A run that ends well and leaves well keeps the invariant.
LEMMA EndKeeps ==
  ASSUME ExecInv, stage # "ended", NEW status, NEW diff,
         EndRun(status, diff), EndsWell(status, diff), LeavesWell(status, diff)
  PROVE  ExecInv'
<1>0. PICK r : r = [type |-> type, subject |-> subject', pinned |-> pinned, seeded |-> seeded,
                  status |-> status]
  OBVIOUS
<1>1. /\ ended' = Append(ended, r) /\ derived' = diff /\ stage' = "ended"
      /\ UNCHANGED <<governorType, chain, created, type, seeded, pinned>>
  BY <1>0 DEF EndRun, Await
<1>2. /\ Len(ended) \in {0, 1} /\ ended \in Seq(Entries(ended))
      /\ Len(ended) = 1 => /\ ended[1].status = "success" /\ 1 \in DOMAIN ended
                           /\ derived # <<>>
                           /\ Facts(derived) = Left
      /\ Len(ended) = 0 => derived = <<>> /\ Facts(derived) = {}
  <2>0. Len(ended) <= 1 /\ ended \in Seq(Entries(ended))
    BY DEF ExecInv, HistoryFits
  <2>1. Len(ended) \in {0, 1} /\ ended \in Seq(Entries(ended))
    <3>1. PICK n : n = Len(ended)
      OBVIOUS
    <3>2. n \in Nat /\ n <= 1
      BY <2>0, <3>1
    <3>3. n \in {0, 1}
      BY <3>2
    <3> QED
      BY <2>0, <3>1, <3>3
  <2>2. Len(ended) = 0 => ended = <<>>
    BY <2>1
  <2>3. derived = <<>> => Facts(derived) = {}
    BY NoFacts
  <2>4. Len(ended) = 1 => 1 \in DOMAIN ended
    BY <2>1
  <2> QED
    BY <2>1, <2>2, <2>3, <2>4 DEF ExecInv, HistoryFits
<1> PICK N : N = Len(ended) + 1
  OBVIOUS
<1>3. /\ ended' \in Seq(Entries(ended)') /\ Len(ended') = N
      /\ DOMAIN ended = 1..Len(ended) /\ DOMAIN ended' = DOMAIN ended \cup {N}
      /\ \A n \in DOMAIN ended : ended'[n] = ended[n]
      /\ ended'[N] = r
  <2>1. PICK s, t : s = ended /\ t = ended'
    OBVIOUS
  <2>2. IsList(s) /\ IsLonger(t, s, r)
    BY <1>1, <1>2, <2>1 DEF IsList, IsLonger
  <2>3. /\ t \in Seq(Entries(t)) /\ Len(t) = Len(s) + 1 /\ Len(s) \in Nat
        /\ DOMAIN s = 1..Len(s) /\ DOMAIN t = DOMAIN s \cup {Len(s) + 1}
        /\ \A n \in DOMAIN s : t[n] = s[n]
        /\ t[Len(s) + 1] = r
    BY <2>2, Appended
  <2>4. Entries(t) = Entries(ended)'
    BY <2>1 DEF Entries
  <2> QED
    BY <2>1, <2>3, <2>4
<1>4. Len(ended) = 1 => Given(1)' = Given(1) /\ Found(1)' = Found(1) /\ Left' = Left
  BY <1>1, <1>2, <1>3 DEF Given, Found, Left
<1>5. Given(N)' = Facts(chain[pinned]) \cup (IF type = "new" THEN seeded ELSE {})
  BY <1>0, <1>1, <1>3 DEF Given
<1>6. Found(N)' = ToFind(subject'.plan)
  <2>0. ended'[N].subject.plan = subject'.plan
    BY <1>0, <1>3
  <2>1. CASE Len(ended) = 0
    <3>1. N = 1
      BY <2>1
    <3>2. Found(N)' = WithLentEther(subject'.plan, Given(N)')
      <4>1. PICK S : S = Given(N)' \cup (IF N = 2 THEN Left' ELSE {})
        OBVIOUS
      <4>2. Found(N)' = WithLentEther(ended'[N].subject.plan, S)
        BY <4>1 DEF Found, Left
      <4>3. S = Given(N)'
        BY <3>1, <4>1
      <4> QED
        BY <2>0, <4>2, <4>3
    <3>3. Given(N)' = OnHand
      BY <1>2, <1>5, <2>1 DEF OnHand
    <3> QED
      BY <3>2, <3>3 DEF ToFind
  <2>2. CASE Len(ended) = 1
    <3>1. N = 2
      BY <2>2
    <3>2. Found(N)' = WithLentEther(subject'.plan, Given(N)' \cup Left')
      BY <2>0, <3>1 DEF Found, Left
    <3>3. Given(N)' \cup Left' = OnHand
      BY <1>2, <1>4, <1>5, <2>2 DEF OnHand
    <3> QED
      BY <3>2, <3>3 DEF ToFind
  <2> QED
    BY <1>2, <2>1, <2>2
<1>7. Honest(N)'
  <2>1. /\ r.status = status /\ r.pinned = pinned /\ r.type = type /\ r.subject = subject'
    BY <1>0
  <2>2. ended'[N] = r /\ chain' = chain /\ created' = created
    BY <1>1, <1>3
  <2> QED
    BY <1>6, <2>1, <2>2 DEF Honest, EndsWell, LeavesWell
<1>8. \A n \in DOMAIN ended : Honest(n)'
  <2>1. SUFFICES ASSUME Len(ended) = 1 PROVE Honest(1)'
    BY <1>2, <1>3
  <2>2. Honest(1)
    BY <1>2, <2>1 DEF ExecInv, HistoryFits
  <2>3. ended'[1] = ended[1] /\ chain' = chain /\ created' = created
    BY <1>1, <1>2, <1>3, <2>1
  <2> QED
    BY <1>4, <2>1, <2>2, <2>3 DEF Honest
<1>9. ChainIsSound'
  BY <1>1, ChainKept DEF ExecInv
<1>10. StageFits'
  BY <1>1 DEF ExecInv, StageFits, Stages, EndsWell
<1>11. HistoryFits'
  <2>1. (derived # <<>> => DerivedIsDiff)'
    <3>1. CASE status = "success"
      BY <1>1, <3>1 DEF DerivedIsDiff, LeavesWell
    <3>2. CASE status # "success"
      <4>1. derived' = derived
        BY <1>1, <3>2 DEF EndsWell
      <4> QED
        BY <4>1 DEF ExecInv, HistoryFits, DerivedIsDiff
    <3> QED
      BY <3>1, <3>2
  <2>2. Len(ended') <= 2 /\ ended' # <<>> /\ stage' = "ended"
    BY <1>1, <1>2, <1>3
  <2>3. \A n \in DOMAIN ended' : Honest(n)'
    BY <1>3, <1>7, <1>8
  <2>4. status = "success" => diff # <<>>
    BY DEF LeavesWell
  <2>5. (Len(ended) = 1 =>
          IF ended[1].status = "success"
            THEN derived # <<>> /\ Facts(derived) = Left
            ELSE derived = <<>>)'
    <3>1. SUFFICES ASSUME Len(ended') = 1
                   PROVE  IF ended'[1].status = "success"
                            THEN derived' # <<>> /\ Facts(derived') = Left'
                            ELSE derived' = <<>>
      OBVIOUS
    <3>2. Len(ended) = 0 /\ N = 1
      BY <1>2, <1>3, <3>1
    <3>3. Given(1)' = OnHand /\ ended'[1].status = status /\ ended'[1].subject = subject'
      BY <1>0, <1>2, <1>3, <1>5, <3>2 DEF OnHand
    <3>4. Left' = Altered(subject'.plan, ToFind(subject'.plan))
      BY <3>3 DEF Left, ToFind
    <3> QED
      BY <1>1, <1>2, <2>4, <3>2, <3>3, <3>4 DEF EndsWell, LeavesWell
  <2>6. Len(ended') = 2 =>
          ended'[1].status = "success" /\ derived' # <<>> /\ ended'[2].status # "replayed"
    <3>1. SUFFICES ASSUME Len(ended') = 2
                   PROVE ended'[1].status = "success" /\ derived' # <<>> /\ ended'[2].status # "replayed"
      OBVIOUS
    <3>2. Len(ended) = 1 /\ N = 2
      BY <1>2, <1>3, <3>1
    <3>3. derived' # <<>>
      BY <1>1, <1>2, <2>4, <3>2 DEF EndsWell
    <3>4. ended'[1] = ended[1] /\ ended'[2] = r
      BY <1>2, <1>3, <3>2
    <3>5. r.status = status /\ status # "replayed"
      BY <1>0, <1>2, <3>2 DEF EndsWell
    <3> QED
      BY <1>2, <3>2, <3>3, <3>4, <3>5
  <2> QED
    BY <1>3, <2>1, <2>2, <2>3, <2>5, <2>6 DEF HistoryFits
<1> QED
  BY <1>9, <1>10, <1>11 DEF ExecInv

-----------------------------------------------------------------------------
(* The steps of a run.                                                     *)

\* A step of a run that ends nothing.
LEMMA StepKeeps ==
  ASSUME ExecInv, StageFits',
         UNCHANGED <<governorType, chain, created, seeded, derived, ended>>,
         Len(ended) <= 1, Len(ended) = 1 => ended[1].status = "success"
  PROVE  ExecInv'
<1>1. ChainIsSound'
  BY ChainKept DEF ExecInv
<1>2. HistoryFits'
  <2>1. /\ Entries(ended)' = Entries(ended) /\ Given(1)' = Given(1) /\ Left' = Left
        /\ \A n \in DOMAIN ended : Found(n)' = Found(n)
    BY DEF Entries, Given, Found, Left
  <2>2. \A n \in DOMAIN ended : Honest(n)'
    BY <2>1 DEF ExecInv, HistoryFits, Honest
  <2>3. DerivedIsDiff => DerivedIsDiff'
    BY DEF DerivedIsDiff
  <2> QED
    BY <2>1, <2>2, <2>3 DEF ExecInv, HistoryFits
<1> QED
  BY <1>1, <1>2 DEF ExecInv

\* Until a run ends, at most one has, and that one succeeded.
LEMMA NotEnded ==
  ASSUME ExecInv, stage # "ended"
  PROVE  Len(ended) <= 1 /\ (Len(ended) = 1 => ended[1].status = "success")
BY DEF ExecInv, HistoryFits

\* The block is pinned.
LEMMA PinningKeeps ==
  ASSUME ExecInv, Pinning
  PROVE  ExecInv'
<1>1. stage = "begin" /\ type # "executed" /\ pinned' = Tip - Pin
      /\ stage' = (IF type = "new" THEN "id" ELSE "proposal")
      /\ UNCHANGED <<governorType, chain, created, type, seeded, subject, derived, ended>>
  BY DEF Pinning, Await
<1>2. pinned' \in DOMAIN chain /\ pinned' > NewAge
  <2>1. PICK t, p, a : t = Tip /\ p = Pin /\ a = NewAge
    OBVIOUS
  <2>2. t \in Nat /\ t >= p + a + 1 /\ DOMAIN chain = 1..t
    BY <2>1 DEF ExecInv, ChainIsSound, Tip
  <2>3. p \in Nat \ {0} /\ a \in Nat
    BY <2>1, Constants
  <2> QED
    BY <1>1, <2>1, <2>2, <2>3
<1>3. StageFits'
  <2>1. type \in {"new", "proposed"}
    BY <1>1 DEF ExecInv, StageFits, Types
  <2> QED
    BY <1>1, <1>2, <2>1 DEF ExecInv, StageFits, Stages
<1> QED
  BY <1>1, <1>3, NotEnded, StepKeeps

\* The id of a new proposal is read.
LEMMA NewIdKeeps ==
  ASSUME ExecInv, NewId
  PROVE  ExecInv'
<1>1. PICK plan \in Plans :
        subject' = [id |-> IF governorType = "bravo" THEN Count(chain[Tip]) + 1 ELSE plan,
                    plan |-> plan, end |-> pinned - NewAge + 1]
  BY DEF NewId
<1>2. stage = "id" /\ stage' = "send"
      /\ UNCHANGED <<governorType, chain, created, type, seeded, pinned, derived, ended>>
  BY DEF NewId, Await
<1>3. Count(chain[Tip]) \in Nat
  <2>1. Tip \in DOMAIN chain
    <3>1. PICK t, p, a : t = Tip /\ p = Pin /\ a = NewAge
      OBVIOUS
    <3>2. t \in Nat /\ t >= p + a + 1 /\ DOMAIN chain = 1..t
      BY <3>1 DEF ExecInv, ChainIsSound, Tip
    <3>3. p \in Nat \ {0} /\ a \in Nat
      BY <3>1, Constants
    <3> QED
      BY <3>1, <3>2, <3>3
  <2> QED
    BY <2>1 DEF ExecInv, ChainIsSound, Sound
<1>4. SubjectIsMade'
  <2>1. OwnId(subject.id, subject.plan)'
    BY <1>1, <1>2, <1>3 DEF OwnId
  <2> QED
    BY <1>1, <1>2, <2>1 DEF SubjectIsMade
<1>5. StageFits'
  BY <1>1, <1>2, <1>4 DEF ExecInv, StageFits, Stages
<1> QED
  BY <1>2, <1>5, NotEnded, StepKeeps

\* A proposal is read at the head.
LEMMA ReadProposalKeeps ==
  ASSUME ExecInv, ReadProposal
  PROVE  ExecInv'
<1>1. PICK id \in DOMAIN created :
        subject' = [id |-> id, plan |-> <<>>, end |-> created[id].end]
  BY DEF ReadProposal
<1>2. stage = "proposal" /\ stage' = "event"
      /\ UNCHANGED <<governorType, chain, created, type, seeded, pinned, derived, ended>>
  BY DEF ReadProposal, Await
<1>3. SubjectIsRead'
  BY <1>1, <1>2 DEF SubjectIsRead
<1>4. StageFits'
  BY <1>1, <1>2, <1>3 DEF ExecInv, StageFits, Stages
<1> QED
  BY <1>2, <1>4, NotEnded, StepKeeps

\* Its calls are found, or the run ends.
LEMMA FindEventKeeps ==
  ASSUME ExecInv, FindEvent
  PROVE  ExecInv'
<1>0. stage = "event" /\ type = "proposed" /\ SubjectIsRead /\ subject.id \in DOMAIN created
      /\ pinned \in DOMAIN chain
  BY DEF FindEvent, ExecInv, StageFits, SubjectIsRead
<1>1. CASE created[subject.id].block <= pinned
  <2>1. /\ subject' = [subject EXCEPT !.plan = created[subject.id].plan] /\ stage' = "send"
        /\ UNCHANGED <<governorType, chain, created, type, seeded, pinned, derived, ended>>
    BY <1>1 DEF FindEvent, Await
  <2>2. subject = [id |-> subject.id, plan |-> subject.plan, end |-> subject.end]
    BY DEF ExecInv, StageFits
  <2>3. /\ subject'.id = subject.id /\ subject'.plan = created[subject.id].plan
        /\ subject'.end = subject.end
        /\ subject' = [id |-> subject'.id, plan |-> subject'.plan, end |-> subject'.end]
    BY <2>1, <2>2
  <2>4. SubjectIsKnown'
    BY <1>0, <1>1, <2>1, <2>3 DEF SubjectIsKnown, SubjectIsRead
  <2>5. StageFits'
    BY <1>0, <2>1, <2>3, <2>4 DEF ExecInv, StageFits, Stages
  <2> QED
    BY <1>0, <2>1, <2>5, NotEnded, StepKeeps
<1>2. CASE ~(created[subject.id].block <= pinned)
  <2>1. EndRun("not found", derived) /\ subject' = subject
    BY <1>2 DEF FindEvent
  <2>2. created[subject.id].block > pinned
    <3>1. created[subject.id].block \in Nat /\ pinned \in Nat
      BY <1>0 DEF ExecInv, ChainIsSound
    <3> QED
      BY <1>2, <3>1
  <2>3. EndsWell("not found", derived)
    BY <1>0, <2>1, <2>2 DEF EndsWell, Statuses, ExecInv, StageFits
  <2>4. LeavesWell("not found", derived)
    BY DEF LeavesWell
  <2> QED
    BY <1>0, <2>1, <2>3, <2>4, EndKeeps
<1> QED
  BY <1>1, <1>2

\* An executed proposal is replayed, unless a run left something.
LEMMA ReplaysKeeps ==
  ASSUME ExecInv, NEW id \in DOMAIN created, Replays(id)
  PROVE  ExecInv'
<1> PICK status : status = IF derived = <<>> THEN "replayed" ELSE "replay refused"
  OBVIOUS
<1>1. /\ stage = "begin" /\ type = "executed" /\ EndRun(status, derived)
      /\ subject' = [id |-> id, plan |-> created[id].plan, end |-> created[id].end]
  BY DEF Replays
<1>2. EndsWell(status, derived)
  BY <1>1 DEF EndsWell, Statuses
<1>3. LeavesWell(status, derived)
  BY DEF LeavesWell
<1> QED
  BY <1>1, <1>2, <1>3, EndKeeps

\* A dependent run begins.
LEMMA DependKeeps ==
  ASSUME ExecInv, Depend
  PROVE  ExecInv'
<1>1. /\ stage' = "begin" /\ type' \in Types /\ subject' = Nobody
      /\ Len(ended) = 1 /\ ended[1].status = "success"
      /\ UNCHANGED <<governorType, chain, created, seeded, derived, ended>>
  BY DEF Depend
<1>2. StageFits'
  BY <1>1 DEF ExecInv, StageFits, Stages, Nobody
<1> QED
  BY <1>1, <1>2, StepKeeps

\* The node lets the proposal through, and its own calls decide.
LEMMA SendsKeeps ==
  ASSUME ExecInv, stage = "send", Sends
  PROVE  ExecInv'
<1>0. PICK id, plan, at, executor, result :
        /\ id = subject.id /\ plan = subject.plan
        /\ at = EtherOverrides(subject.plan) ++ StateObjects(subject.id, subject.plan) ++
                  chain[pinned]
        /\ executor = Slot("executor", 0, 0)
        /\ result = Executed(at, id, SimBlock, SimTimestamp, TotalValue(plan), Allowance(plan))
  OBVIOUS
<1>1. PICK diff : diff = IF result.status # "success" THEN derived
                         ELSE Only(executor, Refund(result.diff[executor])) ++ result.diff
  OBVIOUS
<1>2. subject' = subject /\ EndRun(result.status, diff)
  BY <1>0, <1>1 DEF Sends
<1>3. /\ Facts(at) = ToFind(plan)
      /\ CallsOf(at, id) = plan
      /\ IF governorType = "bravo" THEN BravoAccepts(at, id, plan, SimBlock, SimTimestamp)
                                   ELSE OzAccepts(at, id, SimBlock, SimTimestamp)
  BY <1>0, SimulatedState DEF ToFind, OnHand
<1>4. PICK value, facts, calls :
        /\ value = TotalValue(plan) /\ calls = CallsOf(at, id) /\ facts = After(calls, Facts(at))
  OBVIOUS
<1>5. value \in Nat
  <2>1. plan \in Plans
    BY <1>0 DEF ExecInv, StageFits, SubjectIsMade, SubjectIsKnown, SubjectIsRead, ChainIsSound
  <2> QED
    BY <1>4, <2>1, TotalIsNat
<1>6. Allowance(plan) = value + Gas /\ Gas \in Nat /\ GasUsed \in Nat
  BY <1>4, Constants DEF Allowance
<1>7. ~(value + Gas < value + Gas) /\ ~(value < value)
  BY <1>5, <1>6
<1>8. PICK q, eta : /\ eta = Read(at, Slot("eta", id, 0), 0)
                    /\ q = (IF governorType = "bravo"
                              THEN [x \in {Slot("queued", calls[n], eta) : n \in DOMAIN calls} |-> FALSE]
                              ELSE Only(Slot("timestamp", id, 0), 1))
  OBVIOUS
<1>9. PICK f : f = Slot("flags", id, 0)
  OBVIOUS
<1>10. result = IF facts = {"failed"} THEN [status |-> "failed", diff |-> <<>>]
                ELSE [status |-> "success", diff |->
                        Only(f, [Live EXCEPT !.executed = TRUE]) ++ q ++
                        With(Altered(calls, Facts(at))) ++
                        Only(executor, Allowance(plan) - GasUsed - TotalValue(plan))]
  <2>1. /\ ~(Allowance(plan) < TotalValue(plan) + Gas)
        /\ ~(TotalValue(plan) < TotalValue(calls))
    BY <1>3, <1>4, <1>6, <1>7
  <2>2. IF governorType = "bravo" THEN BravoAccepts(at, id, calls, SimBlock, SimTimestamp)
                                  ELSE OzAccepts(at, id, SimBlock, SimTimestamp)
    BY <1>3, <1>4
  <2> QED
    BY <1>0, <1>4, <1>8, <1>9, <2>1, <2>2 DEF Executed
<1>11. IsQueue(q)
  <2>1. CASE governorType = "bravo"
    BY <1>8, <2>1, Slots DEF IsQueue
  <2>2. CASE governorType # "bravo"
    <3>1. DOMAIN q = {Slot("timestamp", id, 0)}
      BY <1>8, <2>2 DEF Only
    <3> QED
      BY <3>1, Slots DEF IsQueue
  <2> QED
    BY <2>1, <2>2
<1>12. EndsWell(result.status, diff)
  <2>1. result.status \in {"success", "failed"} /\ (result.status = "failed" => facts = {"failed"})
    BY <1>10
  <2>2. pinned \in DOMAIN chain
    BY Times
  <2>3. type # "new" => subject.id \in DOMAIN created /\ subject.plan = created[subject.id].plan
    BY DEF ExecInv, StageFits, SubjectIsKnown, SubjectIsRead
  <2>4. subject = [id |-> subject.id, plan |-> subject.plan, end |-> subject.end]
    BY DEF ExecInv, StageFits
  <2> QED
    BY <1>0, <1>1, <1>2, <1>3, <1>4, <2>1, <2>2, <2>3, <2>4 DEF EndsWell, Statuses
<1>13. LeavesWell(result.status, diff)
  <2>1. SUFFICES ASSUME result.status = "success" PROVE LeavesWell("success", diff)
    BY DEF LeavesWell
  <2>2. facts # {"failed"}
    BY <1>10, <2>1
  <2>3. PICK D, F, v, w, u :
          /\ D = result.diff /\ F = Altered(plan, ToFind(plan))
          /\ v = Allowance(plan) - GasUsed - TotalValue(plan)
          /\ w = Refund(D[executor]) /\ u = [Live EXCEPT !.executed = TRUE]
    OBVIOUS
  <2>4. IsDiff(D, f, u, q, F, v) /\ IsSettled(diff, D, w)
    BY <1>0, <1>1, <1>3, <1>4, <1>10, <2>1, <2>2, <2>3 DEF IsDiff, IsSettled
  <2>5. f[1] = "flags"
    BY <1>9, Slots
  <2>6. /\ D[Slot("executor", 0, 0)] = v
        /\ \A x \in DOMAIN diff :
             /\ x[1] \in Kinds
             /\ x[1] = "fact" => x = Slot("fact", x[2], 0) /\ diff[x] = TRUE
        /\ Slot("executor", 0, 0) \in DOMAIN diff /\ diff[Slot("executor", 0, 0)] = w
        /\ Facts(diff) = F
    <3>1. IsLeft(diff, D, F, v, w)
      BY <1>11, <2>4, <2>5, DiffSlots
    <3> QED
      BY <3>1 DEF IsLeft
  <2>7. w = 0
    <3>1. v = value + Gas - GasUsed - value
      BY <1>4, <1>5, <1>6, <2>3
    <3> QED
      BY <1>0, <1>5, <1>6, <2>3, <2>6, <3>1 DEF Refund
  <2> QED
    BY <1>0, <1>2, <1>3, <1>4, <2>2, <2>3, <2>6, <2>7 DEF LeavesWell
<1> QED
  BY <1>2, <1>12, <1>13, EndKeeps

\* The invariant holds.
LEMMA ExecInvHolds == ExecSpec => []ExecInv
<1>1. ASSUME ExecInit PROVE ExecInv
  <2>1. PICK L : L = Pin + NewAge + 1
    OBVIOUS
  <2>2. L \in Nat /\ chain = [b \in 1..L |-> <<>>]
    BY <1>1, <2>1, Constants DEF ExecInit
  <2>3. Len(chain) = L /\ DOMAIN chain = 1..L /\ \A b \in DOMAIN chain : chain[b] = <<>>
    BY <2>2
  <2>4. chain \in Seq(Entries(chain))
    <3>1. chain \in [1..L -> {<<>>}]
      BY <2>2
    <3>2. \A b \in 1..L : chain[b] \in Entries(chain)
      BY <2>3 DEF Entries
    <3> QED
      BY <2>2, <2>3, <3>2
  <2>5. PICK s : s = <<>>
    OBVIOUS
  <2>6. Sound(s)
    <3>1. DOMAIN s = {}
      BY <2>5
    <3> QED
      BY <3>1 DEF Sound, Count, Read
  <2>7. created = <<>> /\ ended = <<>> /\ derived = <<>> /\ subject = Nobody /\ stage = "begin"
        /\ governorType \in {"bravo", "oz"} /\ type \in Types
    BY <1>1 DEF ExecInit
  <2>8. ChainIsSound
    BY <2>1, <2>2, <2>3, <2>4, <2>5, <2>6, <2>7 DEF ChainIsSound
  <2>9. StageFits
    BY <2>7 DEF StageFits, Stages, Nobody
  <2>10. HistoryFits
    <3>1. ended \in Seq(Entries(ended)) /\ Len(ended) = 0 /\ DOMAIN ended = {}
      BY <2>7
    <3> QED
      BY <2>7, <3>1 DEF HistoryFits
  <2> QED
    BY <2>8, <2>9, <2>10 DEF ExecInv
<1>2. ASSUME ExecInv, [ExecNext]_execVars PROVE ExecInv'
  <2>1. CASE \E plan \in Plans : Create(plan)
    BY <1>2, <2>1, CreateKeeps
  <2>2. CASE \E id \in DOMAIN created : Settle(id)
    BY <1>2, <2>2, SettleKeeps
  <2>3. CASE Passes
    BY <1>2, <2>3, PassesKeeps
  <2>4. CASE Pinning
    BY <1>2, <2>4, PinningKeeps
  <2>5. CASE NewId
    BY <1>2, <2>5, NewIdKeeps
  <2>6. CASE ReadProposal
    BY <1>2, <2>6, ReadProposalKeeps
  <2>7. CASE FindEvent
    BY <1>2, <2>7, FindEventKeeps
  <2>8. CASE SendNew \/ SendProposed
    BY <1>2, <2>8, SendsKeeps DEF SendNew, SendProposed
  <2>9. CASE ReplayBravo \/ ReplayOz
    BY <1>2, <2>9, ReplaysKeeps DEF ReplayBravo, ReplayOz
  <2>10. CASE Depend
    BY <1>2, <2>10, DependKeeps
  <2>11. CASE UNCHANGED execVars
    <3>1. /\ UNCHANGED <<governorType, chain, created, type, seeded, pinned, derived, ended>>
          /\ UNCHANGED <<stage, subject>>
      BY <2>11 DEF execVars
    <3>2. StageFits' /\ HistoryFits'
      BY <1>2, <3>1, HistoryKept
    <3>3. ChainIsSound'
      BY <1>2, <3>1, ChainKept DEF ExecInv
    <3> QED
      BY <3>2, <3>3 DEF ExecInv
  <2> QED
    BY <1>2, <2>1, <2>2, <2>3, <2>4, <2>5, <2>6, <2>7, <2>8, <2>9, <2>10, <2>11 DEF ExecNext
<1> QED
  BY <1>1, <1>2, PTL DEF ExecSpec

\* For any plans, chain and times: a simulation says what executing the proposal
\* would do (simulate of tenderly.ts) on the pinned state, the seeds and what an
\* earlier run changed, with a timelock that holds what the calls send, if any.
THEOREM SimulationTellsExecution == ExecSpec => []SimulationIsExecution
<1>1. ExecInv => SimulationIsExecution
  <2> SUFFICES ASSUME ExecInv PROVE SimulationIsExecution
    OBVIOUS
  <2>1. ASSUME NEW n \in DOMAIN ended
        PROVE  LET run == ended[n] IN
               /\ run.status # "refused"
               /\ run.status = "success" => After(run.subject.plan, Found(n)) # {"failed"}
               /\ run.status = "failed" => After(run.subject.plan, Found(n)) = {"failed"}
               /\ run.status = "not found" => created[run.subject.id].block > run.pinned
               /\ run.type # "new" /\ run.status # "not found" =>
                    run.subject.plan = created[run.subject.id].plan
    <3>1. Honest(n)
      BY DEF ExecInv, HistoryFits
    <3> QED
      BY <3>1 DEF Honest, Statuses
  <2>2. derived # <<>> => derived[Slot("executor", 0, 0)] = 0
    BY DEF ExecInv, HistoryFits, DerivedIsDiff
  <2>3. Len(ended) = 2 => ended[2].status # "replayed"
    BY DEF ExecInv, HistoryFits
  <2> QED
    BY <2>1, <2>2, <2>3 DEF SimulationIsExecution
<1> QED
  BY <1>1, ExecInvHolds, PTL

==============================================================================
