---------------------------- MODULE CrossChainProofs ----------------------------
(***************************************************************************)
(* What the proof system shows of CrossChain and of DerivedRun, for any    *)
(* chains, any proposals of any length, and any failures.                  *)
(***************************************************************************)
EXTENDS DerivedRun, FiniteSetTheorems, SequenceTheorems, WellFoundedInduction, TLAPS

-----------------------------------------------------------------------------
(* The order of the jobs: found by adapter, executed in source order.      *)

\* There is an adapter for every job.
LEMMA EachJobHasAnAdapter ==
  ASSUME NEW j \in Job
  PROVE  \E n \in {1, 2, 3} : j.bridge = Bridges[n]
BY DEF Job, Bridges

\* Of two jobs of different bridges one is found first.
LEMMA AdaptersAreOrdered ==
  ASSUME NEW i \in Job, NEW j \in Job
  PROVE  /\ i.bridge # j.bridge => FoundBefore(i, j) \/ FoundBefore(j, i)
         /\ FoundBefore(i, j) => i.bridge # j.bridge /\ ~FoundBefore(j, i)
         /\ \A k \in Job : FoundBefore(i, j) /\ FoundBefore(j, k) => FoundBefore(i, k)
<1>1. DOMAIN Bridges = {1, 2, 3}
  BY DEF Bridges
<1>2. \A m, n \in {1, 2, 3} : Bridges[m] = Bridges[n] => m = n
  BY DEF Bridges
<1>3. PICK a, b \in {1, 2, 3} : i.bridge = Bridges[a] /\ j.bridge = Bridges[b]
  BY EachJobHasAnAdapter
<1>4. FoundBefore(i, j) <=> a < b
  BY <1>1, <1>2, <1>3 DEF FoundBefore
<1>5. FoundBefore(j, i) <=> b < a
  BY <1>1, <1>2, <1>3 DEF FoundBefore
<1>6. ASSUME NEW k \in Job, FoundBefore(i, j), FoundBefore(j, k)
      PROVE  FoundBefore(i, k)
  <2>1. PICK c \in {1, 2, 3} : k.bridge = Bridges[c]
    BY EachJobHasAnAdapter
  <2>2. FoundBefore(j, k) <=> b < c
    BY <1>1, <1>2, <1>3, <2>1 DEF FoundBefore
  <2>3. FoundBefore(i, k) <=> a < c
    BY <1>1, <1>2, <1>3, <2>1 DEF FoundBefore
  <2> QED
    BY <1>4, <1>6, <2>2, <2>3
<1> QED
  BY <1>2, <1>3, <1>4, <1>5, <1>6

\* Of any two jobs one is found first, and so are those found before it.
LEMMA FindingIsAnOrder ==
  ASSUME NEW p \in Seq(Job), NEW k \in DOMAIN p, NEW m \in DOMAIN p
  PROVE  /\ k # m => k \in EarlierFound(p, m) \/ m \in EarlierFound(p, k)
         /\ k \in EarlierFound(p, m) =>
              EarlierFound(p, k) \subseteq EarlierFound(p, m) \ {k}
         /\ m \notin EarlierFound(p, m)
<1>1. DOMAIN p = 1..Len(p) /\ \A n \in DOMAIN p : p[n] \in Job
  OBVIOUS
<1>2. m \notin EarlierFound(p, m) /\ k \notin EarlierFound(p, k)
  BY <1>1, AdaptersAreOrdered DEF EarlierFound
<1>3. k # m => k \in EarlierFound(p, m) \/ m \in EarlierFound(p, k)
  BY <1>1, AdaptersAreOrdered DEF EarlierFound
<1>4. ASSUME k \in EarlierFound(p, m), NEW n \in EarlierFound(p, k)
      PROVE  n \in EarlierFound(p, m)
  <2>1. n \in DOMAIN p
    BY DEF EarlierFound
  <2>2. CASE FoundBefore(p[n], p[k]) /\ FoundBefore(p[k], p[m])
    BY <1>1, <2>1, <2>2, AdaptersAreOrdered DEF EarlierFound
  <2>3. CASE FoundBefore(p[n], p[k]) /\ p[k].bridge = p[m].bridge
    BY <2>1, <2>3 DEF EarlierFound, FoundBefore
  <2>4. CASE p[n].bridge = p[k].bridge /\ FoundBefore(p[k], p[m])
    BY <2>1, <2>4 DEF EarlierFound, FoundBefore
  <2>5. CASE p[n].bridge = p[k].bridge /\ n < k /\ p[k].bridge = p[m].bridge /\ k < m
    BY <1>1, <2>1, <2>5 DEF EarlierFound
  <2> QED
    BY <1>4, <2>2, <2>3, <2>4, <2>5 DEF EarlierFound
<1> QED
  BY <1>2, <1>3, <1>4

\* Each place in the order in which jobs are found is that of one job.
LEMMA PlacesAreTaken ==
  ASSUME NEW p \in Seq(Job),
         NEW f, f = [m \in DOMAIN p |-> Cardinality(EarlierFound(p, m))]
  PROVE  f \in Bijection(DOMAIN p, 0..(Len(p) - 1))
<1>0. PICK N : N = Len(p)
  OBVIOUS
<1>1. DOMAIN p = 1..N /\ N \in Nat
  BY <1>0
<1>2. IsFiniteSet(1..N) /\ Cardinality(1..N) = N
  BY <1>1, FS_Interval
<1>3. ASSUME NEW m \in DOMAIN p
      PROVE  /\ IsFiniteSet(EarlierFound(p, m))
             /\ Cardinality(EarlierFound(p, m)) \in 0..(N - 1)
  <2>1. EarlierFound(p, m) \subseteq (1..N) \ {m}
    BY <1>1, FindingIsAnOrder DEF EarlierFound
  <2>2. IsFiniteSet((1..N) \ {m}) /\ Cardinality((1..N) \ {m}) = N - 1
    <3>1. m \in 1..N
      BY <1>1
    <3> QED
      BY <1>2, <3>1, FS_RemoveElement
  <2>3. /\ IsFiniteSet(EarlierFound(p, m))
        /\ Cardinality(EarlierFound(p, m)) <= N - 1
    BY <2>1, <2>2, FS_Subset
  <2>4. Cardinality(EarlierFound(p, m)) \in Nat
    BY <2>3, FS_CardinalityType
  <2> QED
    BY <1>1, <2>3, <2>4
<1>4. f \in [DOMAIN p -> 0..(N - 1)]
  BY <1>3
<1>5. ASSUME NEW k \in DOMAIN p, NEW m \in DOMAIN p, k \in EarlierFound(p, m)
      PROVE  f[k] # f[m]
  <2>1. EarlierFound(p, k) \subseteq EarlierFound(p, m) \ {k}
    BY <1>5, FindingIsAnOrder
  <2>2. EarlierFound(p, k) # EarlierFound(p, m)
    BY <1>5, <2>1
  <2>3. Cardinality(EarlierFound(p, k)) # Cardinality(EarlierFound(p, m))
    BY <1>3, <2>1, <2>2, FS_Subset
  <2> QED
    BY <2>3
<1>6. \A k, m \in DOMAIN p : f[k] = f[m] => k = m
  BY <1>5, FindingIsAnOrder
<1>7. f \in Injection(DOMAIN p, 0..(N - 1))
  BY <1>4, <1>6 DEF Injection, IsInjective
<1>8. IsFiniteSet(0..(N - 1)) /\ Cardinality(0..(N - 1)) = N
  BY <1>1, FS_Interval
<1>9. f \in Surjection(DOMAIN p, 0..(N - 1))
  BY <1>1, <1>2, <1>7, <1>8, FS_Injection
<1> QED
  BY <1>0, <1>7, <1>9 DEF Bijection
\* Every job is found once.
LEMMA ExtractedIsAPermutation ==
  ASSUME NEW p \in Seq(Job)
  PROVE  Extracted(p) \in Bijection(DOMAIN p, DOMAIN p)
<1>0. PICK N : N = Len(p)
  OBVIOUS
<1>1. DOMAIN p = 1..N /\ N \in Nat
  BY <1>0
<1>2. PICK f : f = [m \in DOMAIN p |-> Cardinality(EarlierFound(p, m))]
  OBVIOUS
<1>3. f \in Bijection(DOMAIN p, 0..(N - 1))
  BY <1>0, <1>2, PlacesAreTaken
<1>4. /\ \A t \in 0..(N - 1) : \E m \in DOMAIN p : f[m] = t
      /\ \A k, m \in DOMAIN p : f[k] = f[m] => k = m
      /\ \A m \in DOMAIN p : f[m] \in 0..(N - 1)
  BY <1>3 DEF Bijection, Injection, Surjection, IsInjective
<1>5. PICK e : e = Extracted(p)
  OBVIOUS
<1>6. e = [n \in DOMAIN p |-> CHOOSE m \in DOMAIN p : f[m] = n - 1]
  BY <1>2, <1>5 DEF Extracted
<1>7. ASSUME NEW n \in DOMAIN p
      PROVE  e[n] \in DOMAIN p /\ f[e[n]] = n - 1
  <2>1. n - 1 \in 0..(N - 1)
    BY <1>1
  <2> QED
    BY <1>4, <1>6, <2>1
<1>8. e \in [DOMAIN p -> DOMAIN p]
  BY <1>6, <1>7
<1>9. \A k, n \in DOMAIN p : e[k] = e[n] => k = n
  BY <1>1, <1>7
<1>10. ASSUME NEW m \in DOMAIN p
       PROVE  \E n \in DOMAIN p : e[n] = m
  <2>1. f[m] + 1 \in DOMAIN p /\ (f[m] + 1) - 1 = f[m]
    BY <1>1, <1>4
  <2>2. f[e[f[m] + 1]] = f[m] /\ e[f[m] + 1] \in DOMAIN p
    BY <1>7, <2>1
  <2> QED
    BY <1>4, <2>1, <2>2
<1> QED
  BY <1>5, <1>8, <1>9, <1>10 DEF Bijection, Injection, Surjection, IsInjective

\* Sorting a permutation of 1..N gives 1..N.
LEMMA SortedPermutation ==
  ASSUME NEW N \in Nat, NEW s \in Bijection(1..N, 1..N)
  PROVE  InSourceOrder(s) = [n \in 1..N |-> n]
<1>1. /\ s \in [1..N -> 1..N]
      /\ \A j, k \in 1..N : s[j] = s[k] => j = k
      /\ \A m \in 1..N : \E k \in 1..N : s[k] = m
  BY DEF Bijection, Injection, Surjection, IsInjective
<1>2. DOMAIN s = 1..N /\ {s[k] : k \in DOMAIN s} = 1..N
  <2>1. DOMAIN s = 1..N
    BY <1>1
  <2>2. \A m \in {s[k] : k \in DOMAIN s} : m \in 1..N
    BY <1>1, <2>1
  <2>3. \A m \in 1..N : m \in {s[k] : k \in DOMAIN s}
    BY <1>1, <2>1
  <2> QED
    BY <2>1, <2>2, <2>3
<1>3. ASSUME NEW m \in 1..N
      PROVE  Cardinality({k \in DOMAIN s : s[k] < m}) = m - 1
  <2>1. PICK B : B = {k \in DOMAIN s : s[k] < m}
    OBVIOUS
  <2>2. PICK g : g = [k \in B |-> s[k]]
    OBVIOUS
  <2>3. g \in [B -> 1..(m - 1)]
    BY <1>1, <1>2, <2>1, <2>2
  <2>4. \A j, k \in B : g[j] = g[k] => j = k
    BY <1>1, <1>2, <2>1, <2>2
  <2>5. ASSUME NEW t \in 1..(m - 1) PROVE \E k \in B : g[k] = t
    <3>1. t \in 1..N /\ t < m
      OBVIOUS
    <3> QED
      BY <1>1, <1>2, <2>1, <2>2, <3>1
  <2>6. g \in Injection(B, 1..(m - 1))
    BY <2>3, <2>4 DEF Injection, IsInjective
  <2>7. g \in Surjection(B, 1..(m - 1))
    BY <2>3, <2>5 DEF Surjection
  <2>8. IsFiniteSet(1..(m - 1)) /\ Cardinality(1..(m - 1)) = m - 1
    <3>1. m - 1 \in Int /\ 1 \in Int
      OBVIOUS
    <3> QED
      BY <3>1, FS_Interval
  <2>9. IsFiniteSet(B)
    BY <2>6, <2>8, FS_Injection
  <2>10. ExistsBijection(B, 1..(m - 1))
    BY <2>6, <2>7 DEF ExistsBijection, Bijection
  <2>11. Cardinality(1..(m - 1)) = Cardinality(B)
    BY <2>9, <2>10, FS_Bijection
  <2> QED
    BY <2>1, <2>8, <2>11
<1>4. ASSUME NEW n \in 1..N
      PROVE  (CHOOSE m \in 1..N : Cardinality({k \in DOMAIN s : s[k] < m}) = n - 1) = n
  <2>1. \A m \in 1..N : Cardinality({k \in DOMAIN s : s[k] < m}) = n - 1 <=> m = n
    BY <1>3
  <2> QED
    BY <2>1
<1> QED
  BY <1>2, <1>4 DEF InSourceOrder

\* Hence jobs are executed in the order in which the proposal sends them.
LEMMA JobsAreInSourceOrder ==
  ASSUME NEW p \in Seq(Job)
  PROVE  InSourceOrder(Extracted(p)) = [n \in 1..Len(p) |-> n]
<1>1. DOMAIN p = 1..Len(p) /\ Len(p) \in Nat
  OBVIOUS
<1>2. Extracted(p) \in Bijection(1..Len(p), 1..Len(p))
  BY <1>1, ExtractedIsAPermutation
<1> QED
  BY <1>1, <1>2, SortedPermutation
-----------------------------------------------------------------------------
(* What the invariant says of the job that is next, or under way.          *)

LEMMA ChainStates ==
  /\ Fresh \in ChainState /\ ~Fresh.stub /\ Fresh.seq = None /\ Fresh.effects = <<>>
  /\ \A s \in ChainState : /\ s.effects \in Seq(Names \X Nat)
                           /\ s.seq \in Nat \cup {None}
                           /\ s.touched \in BOOLEAN /\ s.stub \in BOOLEAN
BY DEF Fresh, ChainState

\* A job that is under way is the one after those that have a result.
LEMMA CurrentJob ==
  ASSUME EngineTypes, InTurn, cur # None
  PROVE  /\ cur = Len(results) + 1 /\ cur \in 1..Len(proposal)
         /\ J = proposal[cur] /\ J \in Job
         /\ J.name \in Names /\ J.chain \in Chains
         /\ CallsOf(J) \in Nat \ {0}
         /\ queue = [n \in 1..(Len(proposal) - cur) |-> cur + n]
<1>1. cur = Len(results) + 1 /\ cur <= Len(proposal) /\ Len(results) \in Nat
  BY DEF EngineTypes, InTurn, Begun
<1>2. Len(proposal) \in Nat /\ cur \in 1..Len(proposal)
  BY <1>1 DEF EngineTypes
<1>3. J \in Job
  BY <1>2 DEF J, EngineTypes
<1>4. CallsOf(J) \in Nat \ {0}
  BY <1>3 DEF CallsOf, Job
<1>5. queue = [n \in 1..(Len(proposal) - cur) |-> cur + n]
  <2>1. pc \notin {"source", "failed"} /\ Begun = cur
    BY <1>1 DEF InTurn, Begun
  <2> QED
    BY <2>1 DEF InTurn
<1> QED
  BY <1>1, <1>2, <1>3, <1>4, <1>5 DEF J, Job

\* The next job is at the head of the queue, and the rest follows it.
LEMMA NextJob ==
  ASSUME EngineTypes, InTurn, pc = "next"
  PROVE  /\ cur = None /\ Head(queue) = Len(results) + 1
         /\ Head(queue) \in 1..Len(proposal)
         /\ proposal[Head(queue)] \in Job
         /\ proposal[Head(queue)].chain \in Chains
         /\ Tail(queue) = [n \in 1..(Len(proposal) - Head(queue)) |-> Head(queue) + n]
         /\ queue \in Seq(Nat) /\ queue # <<>>
<1> DEFINE r == Len(results)
           l == Len(proposal)
<1>1. cur = None /\ queue # <<>> /\ queue = [n \in 1..(l - Begun) |-> Begun + n]
  BY DEF InTurn
<1>2. r \in Nat /\ l \in Nat /\ Begun = r
  BY <1>1 DEF EngineTypes, Begun
<1> HIDE DEF r, l
<1>3. queue = [n \in 1..(l - r) |-> r + n]
  BY <1>1, <1>2
<1>4. l - r >= 1
  BY <1>1, <1>2, <1>3
<1>5. queue \in Seq(Nat) /\ Len(queue) = l - r
  BY <1>2, <1>3, <1>4
<1>6. Head(queue) = r + 1
  BY <1>2, <1>3, <1>4, <1>5
<1>7. Tail(queue) = [n \in 1..(l - (r + 1)) |-> (r + 1) + n]
  <2>1. /\ Tail(queue) \in Seq(Nat) /\ Len(Tail(queue)) = (l - r) - 1
        /\ \A n \in 1..Len(Tail(queue)) : Tail(queue)[n] = queue[n + 1]
    BY <1>1, <1>5, HeadTailProperties
  <2>2. \A n \in 1..((l - r) - 1) : queue[n + 1] = (r + 1) + n
    BY <1>2, <1>3
  <2>3. (l - r) - 1 = l - (r + 1)
    BY <1>2
  <2>4. PICK t : t = Tail(queue)
    OBVIOUS
  <2>5. t \in [1..((l - r) - 1) -> Nat]
    BY <2>1, <2>4, LenProperties
  <2> QED
    BY <2>1, <2>2, <2>3, <2>4, <2>5
<1>8. r + 1 \in 1..l
  BY <1>2, <1>4
<1>9. proposal[r + 1] \in Job
  BY <1>8 DEF EngineTypes, l
<1> QED
  BY <1>1, <1>5, <1>6, <1>7, <1>8, <1>9 DEF Job, r, l
\* The elements of two sequences in a row are those of both.
LEMMA RangeOfConcat ==
  ASSUME NEW S, NEW x \in Seq(S), NEW y \in Seq(S)
  PROVE  RangeOf(x \o y) = RangeOf(x) \cup RangeOf(y)
<1>1. PICK k, l : k = Len(x) /\ l = Len(y)
  OBVIOUS
<1>2. /\ k \in Nat /\ l \in Nat /\ DOMAIN x = 1..k /\ DOMAIN y = 1..l
      /\ DOMAIN (x \o y) = 1..(k + l)
      /\ \A n \in 1..(k + l) : (x \o y)[n] = IF n <= k THEN x[n] ELSE y[n - k]
  BY <1>1
<1>3. ASSUME NEW v \in RangeOf(x \o y)
      PROVE  v \in RangeOf(x) \cup RangeOf(y)
  <2>1. PICK n \in 1..(k + l) : v = (x \o y)[n]
    BY <1>2 DEF RangeOf
  <2>2. CASE n <= k
    BY <1>2, <2>1, <2>2 DEF RangeOf
  <2>3. CASE ~(n <= k)
    <3>1. n - k \in 1..l
      BY <1>2, <2>1, <2>3
    <3> QED
      BY <1>2, <2>1, <2>3, <3>1 DEF RangeOf
  <2> QED
    BY <2>2, <2>3
<1>4. ASSUME NEW v \in RangeOf(x) PROVE v \in RangeOf(x \o y)
  <2>1. PICK n \in 1..k : v = x[n]
    BY <1>2, <1>4 DEF RangeOf
  <2>2. n \in 1..(k + l) /\ (x \o y)[n] = v
    BY <1>2, <2>1
  <2> QED
    BY <1>2, <2>2 DEF RangeOf
<1>5. ASSUME NEW v \in RangeOf(y) PROVE v \in RangeOf(x \o y)
  <2>1. PICK n \in 1..l : v = y[n]
    BY <1>2, <1>5 DEF RangeOf
  <2>2. n + k \in 1..(k + l) /\ ~(n + k <= k) /\ (n + k) - k = n
    BY <1>2, <2>1
  <2>3. (x \o y)[n + k] = v
    BY <1>2, <2>1, <2>2
  <2> QED
    BY <1>2, <2>2, <2>3 DEF RangeOf
<1> QED
  BY <1>3, <1>4, <1>5
-----------------------------------------------------------------------------
(* What results leave behind.                                              *)

\* A step that ends the job after the last result, with result r.
Ends(r) ==
  /\ r \in Result /\ r.job = Len(results) + 1 /\ r.job <= Len(proposal)
  /\ results' = Append(results, r)
  /\ UNCHANGED <<proposal, base, block>>

LEMMA ResultsGrow ==
  ASSUME EngineTypes, NEW r, Ends(r)
  PROVE  /\ results' \in Seq(Result)
         /\ Len(results') = Len(results) + 1 /\ Len(results) \in Nat
         /\ DOMAIN results = 1..Len(results) /\ DOMAIN results' = 1..Len(results) + 1
         /\ \A n \in DOMAIN results : results'[n] = results[n]
         /\ results'[Len(results) + 1] = r
<1>1. results \in Seq(Result) /\ r \in Result /\ results' = Append(results, r)
  BY DEF EngineTypes, Ends
<1> QED
  BY <1>1

\* What earlier jobs left is not changed by a later result.
LEMMA PastIsKept ==
  ASSUME EngineTypes, NEW r, Ends(r), NEW c, NEW k \in 1..Len(results) + 1
  PROVE  LeftBefore(c, k)' = LeftBefore(c, k)
<1>1. /\ Len(results) \in Nat
      /\ DOMAIN results = 1..Len(results) /\ DOMAIN results' = 1..Len(results) + 1
      /\ \A n \in DOMAIN results : results'[n] = results[n]
  BY ResultsGrow
<1>2. {m \in DOMAIN results' : /\ Succeeded(m)' /\ m < k
                               /\ proposal'[m].chain = c}
      = {m \in DOMAIN results : /\ Succeeded(m) /\ m < k
                                /\ proposal[m].chain = c}
  BY <1>1 DEF Succeeded, Ends
<1>3. proposal' = proposal /\ base' = base
  BY DEF Ends
<1> QED
  BY <1>2, <1>3 DEF LeftBefore, EffectsOf, CallsOf

\* A success adds the effects of its job to what is left on its chain.
LEMMA PastGrows ==
  ASSUME EngineTypes, NEW r, Ends(r), NEW c, NEW k, k = Len(results) + 1
  PROVE  LeftBefore(c, k + 1)' =
           LeftBefore(c, k) \cup
             IF r.status = "success" /\ proposal[k].chain = c
               THEN RangeOf(EffectsOf(proposal[k])) ELSE {}
<1>1. PICK p, b : p = proposal /\ b = RangeOf(base[c].effects)
  OBVIOUS
<1>2. PICK done : done = {m \in DOMAIN results : /\ Succeeded(m) /\ m < k
                                                 /\ proposal[m].chain = c}
  OBVIOUS
<1>3. PICK last : last = IF r.status = "success" /\ p[k].chain = c THEN {k} ELSE {}
  OBVIOUS
<1>4. /\ k \in Nat
      /\ DOMAIN results = 1..(k - 1) /\ DOMAIN results' = 1..k
      /\ \A n \in DOMAIN results : results'[n] = results[n]
      /\ results'[k] = r
  BY ResultsGrow
<1>5. proposal' = p /\ base' = base
  BY <1>1 DEF Ends
<1>6. {m \in DOMAIN results' : /\ Succeeded(m)' /\ m < k + 1
                               /\ proposal'[m].chain = c} = done \cup last
  <2>1. \A m \in 1..(k - 1) : Succeeded(m)' <=> Succeeded(m)
    BY <1>4 DEF Succeeded
  <2>2. Succeeded(k)' <=> r.status = "success"
    BY <1>4 DEF Succeeded
  <2>3. \A m \in 1..k : m = k \/ m \in 1..(k - 1)
    BY <1>4
  <2>4. \A m \in 1..(k - 1) : m < k /\ m < k + 1 /\ m \in 1..k /\ m # k
    BY <1>4
  <2>5. k \in 1..k /\ k < k + 1
    <3>1. k - 1 \in Nat
      BY <1>4, ResultsGrow
    <3> QED
      BY <1>4, <3>1
  <2> QED
    BY <1>1, <1>2, <1>3, <1>4, <1>5, <2>1, <2>2, <2>3, <2>4, <2>5
<1>7. LeftBefore(c, k + 1)' =
        b \cup UNION {RangeOf(EffectsOf(p[n])) : n \in done \cup last}
  BY <1>1, <1>5, <1>6 DEF LeftBefore, EffectsOf, CallsOf, RangeOf
<1>8. LeftBefore(c, k) = b \cup UNION {RangeOf(EffectsOf(p[n])) : n \in done}
  BY <1>1, <1>2 DEF LeftBefore
<1>9. LeftBefore(c, k + 1)' =
        LeftBefore(c, k) \cup UNION {RangeOf(EffectsOf(p[n])) : n \in last}
  BY <1>7, <1>8
<1>10. UNION {RangeOf(EffectsOf(p[n])) : n \in last} =
         IF r.status = "success" /\ p[k].chain = c
           THEN RangeOf(EffectsOf(p[k])) ELSE {}
  BY <1>3
<1> QED
  BY <1>1, <1>9, <1>10
-----------------------------------------------------------------------------
(* The end of a job.                                                       *)

\* Nothing but a result, and the chain state of a success, remains of a job.
JobEnds(r) ==
  /\ Ends(r)
  /\ \A m \in DOMAIN r.steps : r.steps[m] \in Fitting(r.job, m)
  /\ queue' = [n \in 1..(Len(proposal) - r.job) |-> r.job + n]
  /\ pc' = After(queue')
  /\ cur' = None /\ msg' = None /\ work' = Fresh /\ steps' = <<>>
  /\ runtime' \in [Chains -> Nat \cup {None}]
  /\ committed' \in [Chains -> ChainState]
  /\ \A c \in Chains :
       /\ ~committed'[c].stub
       /\ RangeOf(committed'[c].effects) =
            RangeOf(committed[c].effects) \cup
              IF r.status = "success" /\ proposal[r.job].chain = c
                THEN RangeOf(EffectsOf(proposal[r.job])) ELSE {}

\* It ends without an effect on its chain, or with all its effects.
Refused(r) ==
  JobEnds(r) /\ r.status \in {"failure", "skipped"} /\ committed' = committed

Accomplished(r) ==
  /\ JobEnds(r) /\ r.status = "success"
  /\ \A c \in Chains :
       committed'[c].effects =
         IF c = proposal[r.job].chain
           THEN committed[c].effects \o EffectsOf(proposal[r.job])
           ELSE committed[c].effects

\* The turn goes to the next job, or the run is over.
LEMMA TurnPasses ==
  ASSUME EngineInv, NEW r, JobEnds(r)
  PROVE  EngineTypes' /\ InTurn' /\ AtRest' /\ CopyIsCurrent' /\ BlockIsKnown'
<1> USE DEF JobEnds, EngineInv
<1>1. PICK k, l : k = Len(results) + 1 /\ l = Len(proposal)
  OBVIOUS
<1>2. /\ results' \in Seq(Result) /\ Len(results') = k
      /\ k \in Nat /\ l \in Nat /\ k <= l /\ r.job = k
      /\ DOMAIN results = 1..(k - 1) /\ DOMAIN results' = 1..k
      /\ \A n \in DOMAIN results : results'[n] = results[n]
      /\ results'[k] = r
  BY <1>1, ResultsGrow DEF Ends, EngineTypes
<1>3. proposal' = proposal /\ base' = base /\ block' = block
  BY DEF Ends
<1>4. pc' \in {"next", "done"} /\ (pc' = "done" <=> queue' = <<>>)
  BY DEF After
<1>5. EngineTypes'
  BY <1>2, <1>3, <1>4, ChainStates DEF EngineTypes
<1>6. InTurn'
  <2>1. Begun' = k
    BY <1>2 DEF Begun
  <2>2. \A n \in DOMAIN results' : results'[n].job = n
    BY <1>2 DEF InTurn
  <2>3. Len(proposal') = l /\ queue' = [n \in 1..(l - k) |-> k + n]
    BY <1>1, <1>2, <1>3
  <2> QED
    BY <1>2, <1>4, <2>1, <2>2, <2>3 DEF InTurn
<1>7. AtRest' /\ CopyIsCurrent' /\ BlockIsKnown'
  BY <1>4 DEF AtRest, CopyIsCurrent, BlockIsKnown
<1> QED
  BY <1>5, <1>6, <1>7

\* What is left, and what calls have seen, stays accounted for.
LEMMA AccountsAreKept ==
  ASSUME EngineInv, NEW r, JobEnds(r)
  PROVE  CommittedIsLeft' /\ StepsFit'
<1> USE DEF EngineInv
<1>1. PICK k, p, bl : k = Len(results) + 1 /\ p = proposal /\ bl = block
  OBVIOUS
<1>2. /\ Len(results') = k /\ k \in Nat /\ r.job = k
      /\ DOMAIN results = 1..(k - 1) /\ DOMAIN results' = 1..k
      /\ \A n \in DOMAIN results : results'[n] = results[n]
      /\ results'[k] = r
  BY <1>1, ResultsGrow DEF JobEnds, Ends
<1>3. proposal' = p /\ base' = base /\ block' = bl /\ cur' = None
  BY <1>1 DEF JobEnds, Ends
<1>4. \A c : \A n \in 1..k : LeftBefore(c, n)' = LeftBefore(c, n)
  BY <1>1, PastIsKept DEF JobEnds
<1>5. CommittedIsLeft'
  <2> SUFFICES ASSUME NEW c \in Chains
               PROVE  /\ RangeOf(committed'[c].effects) = LeftBefore(c, k + 1)'
                      /\ ~committed'[c].stub /\ ~base'[c].stub
    BY <1>2 DEF CommittedIsLeft, RangeOf
  <2>1. RangeOf(committed'[c].effects) =
          LeftBefore(c, k) \cup
            IF r.status = "success" /\ proposal[k].chain = c
              THEN RangeOf(EffectsOf(proposal[k])) ELSE {}
    BY <1>1, <1>2 DEF JobEnds, CommittedIsLeft
  <2>2. LeftBefore(c, k + 1)' =
          LeftBefore(c, k) \cup
            IF r.status = "success" /\ proposal[k].chain = c
              THEN RangeOf(EffectsOf(proposal[k])) ELSE {}
    BY <1>1, PastGrows DEF JobEnds
  <2> QED
    BY <1>3, <2>1, <2>2 DEF JobEnds, CommittedIsLeft
<1>6. ASSUME NEW n \in 1..k, NEW m \in DOMAIN results'[n].steps
      PROVE  results'[n].steps[m] \in Fitting(n, m)
  <2>1. CASE n = k
    BY <1>2, <1>6, <2>1 DEF JobEnds
  <2>2. CASE n # k
    <3>1. n \in DOMAIN results /\ results'[n] = results[n]
      BY <1>2, <2>2
    <3> QED
      BY <1>6, <3>1 DEF StepsFit
  <2> QED
    BY <2>1, <2>2
<1>7. ASSUME NEW n \in 1..k, NEW m PROVE Fitting(n, m)' = Fitting(n, m)
  <2>1. LeftBefore(p[n].chain, n)' = LeftBefore(p[n].chain, n)
    BY <1>4
  <2>2. Effects(n, m - 1)' = Effects(n, m - 1)
    BY <1>1, <1>3 DEF Effects
  <2> QED
    BY <1>1, <1>3, <2>1, <2>2 DEF Fitting
<1>8. (\A n \in DOMAIN results : \A m \in DOMAIN results[n].steps :
         results[n].steps[m] \in Fitting(n, m))'
  BY <1>2, <1>6, <1>7
<1> QED
  BY <1>3, <1>5, <1>8 DEF StepsFit

\* So the invariant outlives a job, if the runtime store does.
LEMMA JobIsOver ==
  ASSUME EngineInv, NEW r, JobEnds(r), StoreIsCurrent'
  PROVE  EngineInv'
BY TurnPasses, AccountsAreKept DEF EngineInv

\* Ending a job without an effect does no harm.
LEMMA NothingIsLeft ==
  ASSUME EngineInv, cur # None,
         NEW sts \in Seq(StepRecord), \A m \in DOMAIN sts : sts[m] \in Fitting(cur, m),
         FailJob(sts), UNCHANGED runtime
  PROVE  EngineInv' /\ \E r : Refused(r)
<1> USE DEF EngineInv
<1>1. PICK r : r = [job |-> cur, status |-> "failure", steps |-> sts]
  OBVIOUS
<1>2. /\ cur = Len(results) + 1 /\ cur \in 1..Len(proposal)
      /\ queue = [n \in 1..(Len(proposal) - cur) |-> cur + n]
  BY CurrentJob
<1>3. r \in Result
  BY <1>1, <1>2 DEF Result
<1>4. Ends(r)
  BY <1>1, <1>2, <1>3 DEF Ends, FailJob, Report
<1>5. JobEnds(r)
  BY <1>1, <1>2, <1>4 DEF JobEnds, FailJob, EngineTypes, CommittedIsLeft
<1>6. StoreIsCurrent'
  <2>1. pc' # "call"
    BY DEF FailJob, After
  <2>2. committed' = committed /\ base' = base
    BY DEF FailJob
  <2> QED
    BY <2>1, <2>2 DEF StoreIsCurrent, InScope, Expected
<1> QED
  BY <1>1, <1>5, <1>6, JobIsOver DEF Refused, FailJob
-----------------------------------------------------------------------------
(* One step of the engine at a time.                                       *)

LEMMA SourceKeepsInv ==
  ASSUME EngineInv, SourceFails \/ SourceSucceeds
  PROVE  EngineInv'
<1> USE DEF EngineInv
<1>1. pc = "source" /\ cur = None /\ results = <<>> /\ queue = <<>>
  BY DEF SourceFails, SourceSucceeds, InTurn
<1>2. /\ UNCHANGED <<proposal, cur, base, committed, block, runtime, msg, work,
                     steps, results>>
      /\ pc' \in {"failed", "done", "next"}
  BY DEF SourceFails, SourceSucceeds
<1>3. EngineTypes'
  BY <1>2 DEF EngineTypes
<1>4. InTurn'
  <2>1. CASE SourceFails
    BY <1>1, <1>2, <2>1 DEF InTurn, SourceFails, Begun
  <2>2. CASE SourceSucceeds
    <3>1. PICK l : l = Len(proposal)
      OBVIOUS
    <3>2. queue' = [n \in 1..l |-> n]
      BY <2>2, <3>1, JobsAreInSourceOrder DEF SourceSucceeds, EngineTypes
    <3>3. Begun = 0 /\ Begun' = 0 /\ l \in Nat
      BY <1>1, <1>2, <3>1 DEF Begun, EngineTypes
    <3>4. proposal = <<>> <=> l = 0
      BY <3>1 DEF EngineTypes
    <3>5. pc' = IF l = 0 THEN "done" ELSE "next"
      BY <2>2, <3>4 DEF SourceSucceeds
    <3>6. queue' = [n \in 1..(l - 0) |-> 0 + n]
      BY <3>2, <3>3
    <3>7. queue' = <<>> <=> l = 0
      BY <3>2, <3>3
    <3> QED
      BY <1>1, <1>2, <3>1, <3>3, <3>5, <3>6, <3>7 DEF InTurn
  <2> QED
    BY <2>1, <2>2
<1>5. AtRest' /\ CopyIsCurrent' /\ BlockIsKnown'
  BY <1>1, <1>2 DEF AtRest, CopyIsCurrent, BlockIsKnown
<1>6. CommittedIsLeft' /\ StepsFit'
  <2>1. \A c, k : LeftBefore(c, k)' = LeftBefore(c, k)
    BY <1>2 DEF LeftBefore, Succeeded, EffectsOf, CallsOf
  <2> QED
    BY <1>1, <1>2, <2>1 DEF CommittedIsLeft, StepsFit
<1>7. StoreIsCurrent'
  BY <1>1, <1>2 DEF StoreIsCurrent, InScope, Expected
<1> QED
  BY <1>3, <1>4, <1>5, <1>6, <1>7

LEMMA SkipKeepsInv ==
  ASSUME EngineInv, SkipUnsupported
  PROVE  EngineInv' /\ \E r : Refused(r)
<1> USE DEF EngineInv
<1>1. PICK r : r = [job |-> Head(queue), status |-> "skipped", steps |-> <<>>]
  OBVIOUS
<1>2. /\ cur = None /\ Head(queue) = Len(results) + 1
      /\ Head(queue) \in 1..Len(proposal)
      /\ Tail(queue) = [n \in 1..(Len(proposal) - Head(queue)) |-> Head(queue) + n]
  BY NextJob DEF SkipUnsupported
<1>3. r \in Result
  BY <1>1, <1>2 DEF Result
<1>4. Ends(r)
  BY <1>1, <1>2, <1>3 DEF Ends, SkipUnsupported, Report
<1>5. msg = None /\ work = Fresh /\ steps = <<>>
  BY DEF AtRest, SkipUnsupported
<1>6. JobEnds(r)
  BY <1>1, <1>2, <1>4, <1>5 DEF JobEnds, SkipUnsupported, EngineTypes, CommittedIsLeft
<1>7. StoreIsCurrent'
  <2>1. pc' # "call"
    BY DEF SkipUnsupported, After
  <2>2. committed' = committed /\ base' = base /\ runtime' = runtime
    BY DEF SkipUnsupported
  <2> QED
    BY <2>1, <2>2 DEF StoreIsCurrent, InScope, Expected
<1> QED
  BY <1>1, <1>6, <1>7, JobIsOver DEF Refused, SkipUnsupported

LEMMA BeginKeepsInv ==
  ASSUME EngineInv, BeginJob
  PROVE  EngineInv'
<1> USE DEF EngineInv
<1>1. PICK h : h = Head(queue)
  OBVIOUS
<1>2. /\ cur = None /\ h = Len(results) + 1
      /\ h \in 1..Len(proposal)
      /\ Tail(queue) = [n \in 1..(Len(proposal) - h) |-> h + n]
  BY <1>1, NextJob DEF BeginJob
<1>3. /\ UNCHANGED <<proposal, base, committed, block, runtime, msg, work, steps,
                     results>>
      /\ cur' = h /\ pc' \in {"lookup", "prepare"} /\ h # None /\ h \in Nat
      /\ pc' = "lookup" <=> block[proposal[h].chain] = None
  BY <1>1, <1>2, EngineAssumption DEF BeginJob
<1>4. EngineTypes'
  BY <1>3 DEF EngineTypes
<1>5. InTurn'
  <2>1. Begun' = h
    BY <1>2, <1>3 DEF Begun
  <2>2. queue' = [n \in 1..(Len(proposal) - h) |-> h + n]
    BY <1>1, <1>2 DEF BeginJob
  <2> QED
    BY <1>2, <1>3, <2>1, <2>2 DEF InTurn
<1>6. msg = None /\ work = Fresh /\ steps = <<>>
  BY DEF AtRest, BeginJob
<1>7. AtRest' /\ CopyIsCurrent' /\ BlockIsKnown'
  BY <1>3, <1>6 DEF AtRest, CopyIsCurrent, BlockIsKnown, J
<1>8. CommittedIsLeft' /\ StepsFit'
  <2>1. \A c, k : LeftBefore(c, k)' = LeftBefore(c, k)
    BY <1>3 DEF LeftBefore, Succeeded, EffectsOf, CallsOf
  <2>2. \A n, m : Fitting(n, m)' = Fitting(n, m)
    BY <1>3, <2>1 DEF Fitting, Effects
  <2>3. CommittedIsLeft'
    BY <1>3, <2>1 DEF CommittedIsLeft
  <2>4. StepsFit'
    BY <1>3, <1>6, <2>2 DEF StepsFit
  <2> QED
    BY <2>3, <2>4
<1>9. StoreIsCurrent'
  BY <1>3 DEF StoreIsCurrent, InScope, Expected
<1> QED
  BY <1>4, <1>5, <1>7, <1>8, <1>9

LEMMA FindBlockKeepsInv ==
  ASSUME EngineInv, FindBlock
  PROVE  EngineInv'
<1> USE DEF EngineInv
<1>1. PICK c, b : c = J.chain /\ b \in Blocks /\ block' = [block EXCEPT ![c] = b]
  BY DEF FindBlock
<1>2. /\ UNCHANGED <<proposal, queue, cur, base, committed, runtime, msg, work,
                     steps, results>>
      /\ pc = "lookup" /\ pc' = "prepare"
  BY DEF FindBlock
<1>3. cur # None /\ block[c] = None /\ b # None /\ c \in Chains
  BY <1>1, <1>2, CurrentJob, EngineAssumption DEF InTurn, BlockIsKnown
<1>4. EngineTypes'
  BY <1>1, <1>2, <1>3 DEF EngineTypes
<1>5. InTurn'
  BY <1>2 DEF InTurn, Begun
<1>6. steps = <<>> /\ AtRest' /\ CopyIsCurrent' /\ BlockIsKnown'
  BY <1>1, <1>2, <1>3 DEF AtRest, CopyIsCurrent, BlockIsKnown, J, EngineTypes
<1>7. \A d, k : LeftBefore(d, k)' = LeftBefore(d, k)
  BY <1>2 DEF LeftBefore, Succeeded, EffectsOf, CallsOf
<1>8. CommittedIsLeft'
  BY <1>2, <1>7 DEF CommittedIsLeft
<1>9. \A n, m : Fitting(n, m) \subseteq Fitting(n, m)'
  <2> SUFFICES ASSUME NEW n, NEW m, NEW step \in Fitting(n, m)
               PROVE  step \in Fitting(n, m)'
    OBVIOUS
  <2>1. /\ step \in StepRecord /\ step.block = block[proposal[n].chain]
        /\ step.block # None
        /\ RangeOf(step.on.effects) =
             LeftBefore(proposal[n].chain, n) \cup RangeOf(Effects(n, m - 1))
    BY DEF Fitting
  <2>2. block'[proposal[n].chain] = block[proposal[n].chain]
    BY <1>1, <1>3, <2>1 DEF EngineTypes
  <2>3. Effects(n, m - 1)' = Effects(n, m - 1)
    BY <1>2 DEF Effects
  <2> QED
    BY <1>2, <1>7, <2>1, <2>2, <2>3 DEF Fitting
<1>10. StepsFit'
  BY <1>2, <1>6, <1>9 DEF StepsFit
<1>11. StoreIsCurrent'
  BY <1>2 DEF StoreIsCurrent, InScope, Expected
<1> QED
  BY <1>4, <1>5, <1>6, <1>8, <1>10, <1>11

LEMMA PrepareKeepsInv ==
  ASSUME EngineInv, Prepare
  PROVE  EngineInv'
<1> USE DEF EngineInv
<1>1. PICK c, s : c = J.chain /\ s = committed[c]
  OBVIOUS
<1>2. /\ UNCHANGED <<proposal, queue, cur, base, committed, block, steps, results>>
      /\ pc = "prepare" /\ pc' = "call" /\ work' = s
  BY <1>1 DEF Prepare
<1>3. /\ cur # None /\ c \in Chains /\ J \in Job /\ CallsOf(J) \in Nat \ {0}
      /\ steps = <<>> /\ s \in ChainState /\ ~s.stub
      /\ s.effects \in Seq(Names \X Nat) /\ s.seq \in Nat \cup {None}
  BY <1>1, <1>2, CurrentJob, ChainStates DEF InTurn, AtRest, EngineTypes, CommittedIsLeft
<1>4. ASSUME J.bridge = "wormhole"
      PROVE  /\ NextSequence(c, s) \in Nat
             /\ InScope(c) => NextSequence(c, s) = Expected(c, s)
  <2>1. ChainSeq[c] \in Nat /\ None \notin Nat
    BY <1>3, EngineAssumption
  <2>2. runtime[c] \in Nat \cup {None}
    BY <1>3 DEF EngineTypes
  <2>3. InScope(c) =>
          IF runtime[c] = None THEN c \in SlotZero \/ s.seq = None
                               ELSE runtime[c] = Expected(c, s)
    BY <1>1, <1>3 DEF StoreIsCurrent
  <2>4. CASE Overridden(c, s)
    BY <1>3, <2>4 DEF NextSequence, Overridden, Expected
  <2>5. CASE ~Overridden(c, s) /\ runtime[c] # None
    BY <2>2, <2>3, <2>5 DEF NextSequence
  <2>6. CASE ~Overridden(c, s) /\ runtime[c] = None
    BY <2>1, <2>3, <2>6 DEF NextSequence, Overridden, Expected
  <2> QED
    BY <2>4, <2>5, <2>6
<1>5. J' = J
  BY <1>2 DEF J
<1>6. EngineTypes'
  <2>1. msg' \in Nat \cup {None} /\ runtime' \in [Chains -> Nat \cup {None}]
    BY <1>1, <1>3, <1>4 DEF EngineTypes, Prepare
  <2> QED
    BY <1>2, <1>3, <2>1 DEF EngineTypes
<1>7. InTurn'
  BY <1>2 DEF InTurn, Begun
<1>8. AtRest' /\ BlockIsKnown'
  BY <1>2, <1>5 DEF AtRest, BlockIsKnown
<1>9. CopyIsCurrent'
  <2>1. Effects(cur, 0)' = <<>>
    BY DEF Effects
  <2>2. s.effects \o <<>> = s.effects
    BY <1>3
  <2>3. CallsOf(J)' = CallsOf(J) /\ Len(steps') = 0 /\ cur' = cur
    BY <1>2, <1>3, <1>5 DEF CallsOf
  <2> QED
    BY <1>1, <1>2, <1>3, <1>5, <2>1, <2>2, <2>3 DEF CopyIsCurrent, Effects
<1>10. CommittedIsLeft' /\ StepsFit'
  <2>1. \A d, k : LeftBefore(d, k)' = LeftBefore(d, k)
    BY <1>2 DEF LeftBefore, Succeeded, EffectsOf, CallsOf
  <2>2. \A n, m : Fitting(n, m)' = Fitting(n, m)
    BY <1>2, <2>1 DEF Fitting, Effects
  <2>3. CommittedIsLeft'
    BY <1>2, <2>1 DEF CommittedIsLeft
  <2>4. StepsFit'
    BY <1>2, <2>2 DEF StepsFit
  <2> QED
    BY <2>3, <2>4
<1>11. StoreIsCurrent'
  <2>1. CASE J.bridge # "wormhole"
    BY <1>2, <1>5, <2>1 DEF StoreIsCurrent, InScope, Expected, Prepare
  <2>2. CASE J.bridge = "wormhole"
    <3>1. PICK m : m = NextSequence(c, s)
      OBVIOUS
    <3>2. msg' = m /\ runtime' = [runtime EXCEPT ![c] = m]
      BY <1>1, <2>2, <3>1 DEF Prepare
    <3>3. m \in Nat /\ m # None /\ (InScope(c) => m = Expected(c, s))
      BY <1>4, <2>2, <3>1, EngineAssumption
    <3>4. \A d \in Chains : InScope(d)' = InScope(d)
      BY <1>2 DEF InScope
    <3>5. runtime'[c] = m /\ \A d \in Chains : d # c => runtime'[d] = runtime[d]
      BY <1>3, <3>2 DEF EngineTypes
    <3> QED
      BY <1>1, <1>2, <1>3, <1>5, <3>2, <3>3, <3>4, <3>5 DEF StoreIsCurrent, Expected
  <2> QED
    BY <2>1, <2>2
<1> QED
  BY <1>6, <1>7, <1>8, <1>9, <1>10, <1>11

\* The state a call runs on fits the call.
LEMMA NextCallFits ==
  ASSUME EngineInv, pc = "call", NEW ok \in BOOLEAN
  PROVE  /\ Step(ok) \in StepRecord
         /\ Append(steps, Step(ok)) \in Seq(StepRecord)
         /\ \A m \in DOMAIN Append(steps, Step(ok)) :
              Append(steps, Step(ok))[m] \in Fitting(cur, m)
<1> USE DEF EngineInv
<1>1. PICK c, k : c = J.chain /\ k = Len(steps)
  OBVIOUS
<1>2. cur # None /\ cur = Len(results) + 1 /\ c = proposal[cur].chain /\ c \in Chains
  BY <1>1, CurrentJob DEF InTurn
<1>3. Step(ok) \in StepRecord
  BY <1>1, <1>2 DEF Step, StepRecord, EngineTypes
<1>4. RangeOf(work.effects) = RangeOf(committed[c].effects) \cup RangeOf(Effects(cur, k))
  <2>1. PICK x, y : x = committed[c].effects /\ y = Effects(cur, k)
    OBVIOUS
  <2>2. work.effects = x \o y
    BY <1>1, <2>1 DEF CopyIsCurrent
  <2>3. x \in Seq(Names \X Nat)
    BY <1>2, <2>1, ChainStates DEF EngineTypes
  <2>4. k \in Nat /\ y \in Seq(Names \X Nat)
    <3>1. proposal[cur].name \in Names
      BY <1>2, CurrentJob
    <3>2. k \in Nat
      BY <1>1 DEF EngineTypes
    <3> QED
      BY <2>1, <3>1, <3>2 DEF Effects
  <2> QED
    BY <2>1, <2>2, <2>3, <2>4, RangeOfConcat
<1>5. Step(ok) \in Fitting(cur, k + 1)
  <2>1. /\ Step(ok).on = work /\ Step(ok).block = block[c]
        /\ block[c] # None
    BY <1>1 DEF Step, BlockIsKnown
  <2>2. RangeOf(committed[c].effects) = LeftBefore(c, cur)
    BY <1>2 DEF CommittedIsLeft
  <2>3. (k + 1) - 1 = k
    BY <1>1 DEF EngineTypes
  <2> QED
    BY <1>2, <1>3, <1>4, <2>1, <2>2, <2>3 DEF Fitting
<1>6. \A m \in DOMAIN steps : steps[m] \in Fitting(cur, m)
  BY <1>2 DEF StepsFit
<1>7. steps \in Seq(StepRecord)
  BY DEF EngineTypes
<1> QED
  BY <1>1, <1>3, <1>5, <1>6, <1>7

LEMMA FailureKeepsInv ==
  ASSUME EngineInv, LookupFails \/ PrepareFails \/ CallFails
  PROVE  EngineInv' /\ \E r : Refused(r)
<1>1. cur # None
  BY DEF EngineInv, InTurn, LookupFails, PrepareFails, CallFails
<1>2. CASE LookupFails \/ PrepareFails
  <2>1. PICK sts : sts = <<>>
    OBVIOUS
  <2>2. FailJob(sts) /\ UNCHANGED runtime
    BY <1>2, <2>1 DEF LookupFails, PrepareFails
  <2>3. sts \in Seq(StepRecord) /\ \A m \in DOMAIN sts : sts[m] \in Fitting(cur, m)
    BY <2>1
  <2> QED
    BY <1>1, <2>2, <2>3, NothingIsLeft
<1>3. CASE CallFails
  <2>1. PICK sts : sts = Append(steps, Step(FALSE))
    OBVIOUS
  <2>2. FailJob(sts) /\ UNCHANGED runtime
    BY <1>3, <2>1 DEF CallFails
  <2>3. sts \in Seq(StepRecord) /\ \A m \in DOMAIN sts : sts[m] \in Fitting(cur, m)
    BY <1>3, <2>1, NextCallFits DEF CallFails
  <2> QED
    BY <1>1, <2>2, <2>3, NothingIsLeft
<1> QED
  BY <1>2, <1>3

LEMMA OverridesAreRecords ==
  ASSUME NEW next \in Overrides
  PROVE  \E t \in {work.touched, TRUE}, u \in {work.stub, work.stub \/ J.bridge = "wormhole"} :
           next = [effects |-> Append(work.effects, <<J.name, Len(steps) + 1>>),
                   seq |-> IF J.bridge = "wormhole" THEN msg + 1 ELSE work.seq,
                   touched |-> t, stub |-> u]
BY DEF Overrides

\* The effects of k calls, and of one more.
LEMMA EffectsGrow ==
  ASSUME NEW n, NEW k \in Nat, proposal[n].name \in Names
  PROVE  /\ Effects(n, k) \in Seq(Names \X Nat)
         /\ Effects(n, k + 1) = Append(Effects(n, k), <<proposal[n].name, k + 1>>)
<1>1. PICK a \in Names : a = proposal[n].name
  OBVIOUS
<1>2. /\ Effects(n, k) = [s \in 1..k |-> <<a, s>>]
      /\ Effects(n, k + 1) = [s \in 1..(k + 1) |-> <<a, s>>]
  BY <1>1, Zenon DEF Effects
<1>3. PICK y, z : y = Effects(n, k) /\ z = Effects(n, k + 1)
  OBVIOUS
<1>4. y = [s \in 1..k |-> <<a, s>>] /\ z = [s \in 1..(k + 1) |-> <<a, s>>]
  BY <1>2, <1>3, Zenon
<1>5. \A s \in 1..k : <<a, s>> \in Names \X Nat
  OBVIOUS
<1>6. y \in [1..k -> Names \X Nat]
  BY <1>4, <1>5, Zenon
<1>7. y \in Seq(Names \X Nat) /\ Len(y) = k
  BY <1>6
<1>8. z = Append(y, <<a, k + 1>>)
  BY <1>4, <1>7
<1> QED
  BY <1>1, <1>3, <1>7, <1>8, Zenon

\* What a call leaves: its own effect on top of those of the calls before it.
LEMMA CallLeaves ==
  ASSUME EngineInv, pc = "call", NEW next \in Overrides
  PROVE  /\ next \in ChainState
         /\ next.effects = committed[J.chain].effects \o Effects(cur, Len(steps) + 1)
         /\ next.seq = IF J.bridge = "wormhole" THEN msg + 1
                                                ELSE committed[J.chain].seq
         /\ J.bridge # "wormhole" => ~next.stub
<1> USE DEF EngineInv
<1>0. PICK k, x : k = Len(steps) /\ x = committed[J.chain].effects
  OBVIOUS
<1>1. PICK t \in {work.touched, TRUE},
           u \in {work.stub, work.stub \/ J.bridge = "wormhole"} :
        next = [effects |-> Append(work.effects, <<J.name, Len(steps) + 1>>),
                seq |-> IF J.bridge = "wormhole" THEN msg + 1 ELSE work.seq,
                touched |-> t, stub |-> u]
  BY OverridesAreRecords
<1>2. /\ J = proposal[cur] /\ J.name \in Names /\ J.chain \in Chains /\ k \in Nat
      /\ work \in ChainState /\ x \in Seq(Names \X Nat)
  <2>1. cur # None
    BY DEF InTurn
  <2>2. J = proposal[cur] /\ J.name \in Names /\ J.chain \in Chains
    BY <2>1, CurrentJob
  <2>3. k \in Nat /\ work \in ChainState /\ committed[J.chain] \in ChainState
    BY <1>0, <2>2 DEF EngineTypes
  <2> QED
    BY <1>0, <2>2, <2>3, ChainStates
<1>3. work.effects = x \o Effects(cur, k) /\ ~work.stub
      /\ work.seq = committed[J.chain].seq
  BY <1>0 DEF CopyIsCurrent
<1>4. J.bridge = "wormhole" => msg + 1 \in Nat
  BY DEF StoreIsCurrent
<1>5. next \in ChainState
  <2>1. work.effects \in Seq(Names \X Nat) /\ work.seq \in Nat \cup {None}
        /\ work.touched \in BOOLEAN /\ work.stub \in BOOLEAN
    BY <1>2, ChainStates
  <2>2. Append(work.effects, <<J.name, k + 1>>) \in Seq(Names \X Nat)
    BY <1>2, <2>1
  <2>3. t \in BOOLEAN /\ u \in BOOLEAN
    BY <1>1, <2>1
  <2> QED
    BY <1>1, <1>4, <2>1, <2>2, <2>3 DEF ChainState
<1>6. Append(x \o Effects(cur, k), <<J.name, k + 1>>) = x \o Effects(cur, k + 1)
  <2>1. PICK y, z : y = Effects(cur, k) /\ z = Effects(cur, k + 1)
    OBVIOUS
  <2>2. y \in Seq(Names \X Nat) /\ z = Append(y, <<J.name, k + 1>>)
    <3>1. /\ Effects(cur, k) \in Seq(Names \X Nat)
          /\ Effects(cur, k + 1) = Append(Effects(cur, k), <<J.name, k + 1>>)
      BY <1>2, EffectsGrow
    <3> QED
      BY <2>1, <3>1, Zenon
  <2>3. PICK e : e = <<J.name, k + 1>>
    OBVIOUS
  <2>4. e \in Names \X Nat
    BY <1>2, <2>3
  <2>5. Append(x \o y, e) = x \o Append(y, e)
    <3>1. PICK S : S = Names \X Nat
      OBVIOUS
    <3>2. x \in Seq(S) /\ y \in Seq(S) /\ e \in S
      BY <1>2, <2>2, <2>4, <3>1
    <3>3. x \o y \in Seq(S) /\ <<e>> \in Seq(S)
      BY <3>2
    <3>4. Append(x \o y, e) = (x \o y) \o <<e>> /\ Append(y, e) = y \o <<e>>
      BY <3>2, <3>3, AppendIsConcat
    <3> QED
      BY <3>2, <3>3, <3>4, ConcatAssociative
  <2> QED
    BY <2>1, <2>2, <2>3, <2>5
<1>7. next.effects = x \o Effects(cur, k + 1)
  BY <1>0, <1>1, <1>3, <1>6
<1> QED
  BY <1>0, <1>1, <1>3, <1>5, <1>7

LEMMA CallSucceedsKeepsInv ==
  ASSUME EngineInv, CallSucceeds
  PROVE  /\ EngineInv'
         /\ \/ UNCHANGED <<proposal, pc, committed, results>>
            \/ \E r : Accomplished(r)
<1> USE DEF EngineInv
<1>1. PICK c, k, sts : /\ c = J.chain /\ k = Len(steps)
                       /\ sts = Append(steps, Step(TRUE))
  OBVIOUS
<1>2. PICK next \in Overrides :
        /\ runtime' = Advanced
        /\ IF k + 1 < CallsOf(J)
            THEN /\ work' = next
                 /\ steps' = sts
                 /\ UNCHANGED <<pc, cur, msg, committed, results>>
            ELSE /\ committed' = [committed EXCEPT ![c] = Finalized(next)]
                 /\ Report(cur, "success", sts)
                 /\ pc' = After(queue)
                 /\ cur' = None
                 /\ msg' = None
                 /\ work' = Fresh
                 /\ steps' = <<>>
  BY <1>1 DEF CallSucceeds
<1>3. pc = "call" /\ UNCHANGED <<proposal, queue, base, block>>
  BY DEF CallSucceeds
<1>4. /\ cur # None /\ cur = Len(results) + 1 /\ cur \in 1..Len(proposal)
      /\ J = proposal[cur] /\ J \in Job /\ c \in Chains /\ k \in Nat
      /\ CallsOf(J) \in Nat \ {0} /\ k < CallsOf(J)
      /\ queue = [n \in 1..(Len(proposal) - cur) |-> cur + n]
  BY <1>1, <1>3, CurrentJob DEF InTurn, EngineTypes, CopyIsCurrent
<1>5. /\ sts \in Seq(StepRecord) /\ Len(sts) = k + 1
      /\ \A m \in DOMAIN sts : sts[m] \in Fitting(cur, m)
  <2>1. steps \in Seq(StepRecord)
    BY DEF EngineTypes
  <2>2. /\ Step(TRUE) \in StepRecord /\ sts \in Seq(StepRecord)
        /\ \A m \in DOMAIN sts : sts[m] \in Fitting(cur, m)
    BY <1>1, <1>3, NextCallFits
  <2>3. Len(sts) = k + 1
    BY <1>1, <2>1, <2>2, AppendProperties
  <2> QED
    BY <2>2, <2>3
<1>6. /\ next \in ChainState
      /\ next.effects = committed[c].effects \o Effects(cur, k + 1)
      /\ next.seq = IF J.bridge = "wormhole" THEN msg + 1 ELSE committed[c].seq
      /\ J.bridge # "wormhole" => ~next.stub
  BY <1>1, <1>2, <1>3, CallLeaves
<1>7. J.bridge = "wormhole" => msg \in Nat /\ msg + 1 \in Nat
  BY <1>3 DEF StoreIsCurrent
<1>8. /\ runtime' = IF J.bridge = "wormhole" THEN [runtime EXCEPT ![c] = msg + 1]
                                             ELSE runtime
      /\ runtime' \in [Chains -> Nat \cup {None}]
  BY <1>1, <1>2, <1>7 DEF Advanced, EngineTypes
<1>9. CASE k + 1 < CallsOf(J)
  <2>1. /\ work' = next /\ steps' = sts
        /\ UNCHANGED <<pc, cur, msg, committed, results>>
    BY <1>2, <1>9
  <2>2. J.bridge # "wormhole" /\ runtime' = runtime
    BY <1>4, <1>8, <1>9 DEF CallsOf
  <2>3. J' = J /\ CallsOf(J)' = CallsOf(J)
    BY <1>3, <2>1 DEF J, CallsOf
  <2>4. EngineTypes' /\ InTurn' /\ AtRest' /\ BlockIsKnown'
    BY <1>3, <1>5, <1>6, <2>1, <2>2, <2>3
       DEF EngineTypes, InTurn, Begun, AtRest, BlockIsKnown
  <2>5. CopyIsCurrent'
    BY <1>1, <1>3, <1>5, <1>6, <1>9, <2>1, <2>2, <2>3 DEF CopyIsCurrent, Effects
  <2>6. CommittedIsLeft' /\ StepsFit'
    <3>1. \A d, n : LeftBefore(d, n)' = LeftBefore(d, n)
      BY <1>3, <2>1 DEF LeftBefore, Succeeded, EffectsOf, CallsOf
    <3>2. \A n, m : Fitting(n, m)' = Fitting(n, m)
      BY <1>3, <2>1, <3>1 DEF Fitting, Effects
    <3>3. CommittedIsLeft'
      BY <1>3, <2>1, <3>1 DEF CommittedIsLeft
    <3>4. StepsFit'
      BY <1>5, <2>1, <3>2 DEF StepsFit
    <3> QED
      BY <3>3, <3>4
  <2>7. StoreIsCurrent'
    BY <1>3, <2>1, <2>2, <2>3 DEF StoreIsCurrent, InScope, Expected
  <2> QED
    BY <1>3, <2>1, <2>4, <2>5, <2>6, <2>7
<1>10. CASE ~(k + 1 < CallsOf(J))
  <2>1. PICK r, f : /\ r = [job |-> cur, status |-> "success", steps |-> sts]
                    /\ f = Finalized(next)
    OBVIOUS
  <2>2. /\ committed' = [committed EXCEPT ![c] = f]
        /\ results' = Append(results, r)
        /\ pc' = After(queue) /\ cur' = None /\ msg' = None
        /\ work' = Fresh /\ steps' = <<>>
    BY <1>2, <1>10, <2>1 DEF Report
  <2>3. /\ f \in ChainState /\ ~f.stub
        /\ f.effects = next.effects /\ f.seq = next.seq
    BY <1>6, <2>1 DEF Finalized, ChainState
  <2>4. r \in Result
    BY <1>4, <1>5, <2>1 DEF Result
  <2>5. Ends(r)
    BY <1>3, <1>4, <2>1, <2>2, <2>4 DEF Ends
  <2>6. RangeOf(f.effects) = RangeOf(committed[c].effects) \cup RangeOf(EffectsOf(J))
    <3>1. PICK x, y : x = committed[c].effects /\ y = Effects(cur, k + 1)
      OBVIOUS
    <3>2. x \in Seq(Names \X Nat) /\ J.name \in Names
      BY <1>4, <3>1, ChainStates DEF EngineTypes, Job
    <3>3. k + 1 = CallsOf(J)
      BY <1>4, <1>10
    <3>4. y = EffectsOf(J) /\ y \in Seq(Names \X Nat)
      BY <1>4, <3>1, <3>2, <3>3 DEF Effects, EffectsOf
    <3> QED
      BY <1>6, <2>3, <3>1, <3>2, <3>4, RangeOfConcat
  <2>7. committed'[c] = f /\ \A d \in Chains : d # c => committed'[d] = committed[d]
    BY <1>4, <2>2 DEF EngineTypes
  <2>8. JobEnds(r)
    <3>1. ASSUME NEW d \in Chains
          PROVE  /\ ~committed'[d].stub
                 /\ RangeOf(committed'[d].effects) =
                      RangeOf(committed[d].effects) \cup
                        IF r.status = "success" /\ proposal[r.job].chain = d
                          THEN RangeOf(EffectsOf(proposal[r.job])) ELSE {}
      BY <1>1, <1>4, <2>1, <2>3, <2>6, <2>7 DEF CommittedIsLeft
    <3>2. committed' \in [Chains -> ChainState]
      BY <2>2, <2>3 DEF EngineTypes
    <3>3. \A m \in DOMAIN r.steps : r.steps[m] \in Fitting(r.job, m)
      BY <1>5, <2>1
    <3>4. queue' = [n \in 1..(Len(proposal) - r.job) |-> r.job + n]
      BY <1>3, <1>4, <2>1
    <3> QED
      BY <1>3, <1>8, <2>2, <2>5, <3>1, <3>2, <3>3, <3>4 DEF JobEnds
  <2>9. StoreIsCurrent'
    <3>1. pc' # "call"
      BY <2>2 DEF After
    <3>2. \A d \in Chains : InScope(d)' = InScope(d)
      BY <1>3 DEF InScope
    <3>3. \A d \in Chains : d # c => runtime'[d] = runtime[d]
      BY <1>8 DEF EngineTypes
    <3>4. J.bridge = "wormhole" =>
            /\ runtime'[c] = msg + 1 /\ committed'[c].seq = msg + 1
            /\ msg + 1 # None
      BY <1>4, <1>6, <1>7, <1>8, <2>3, <2>7, EngineAssumption DEF EngineTypes
    <3>5. J.bridge # "wormhole" =>
            runtime'[c] = runtime[c] /\ committed'[c].seq = committed[c].seq
      BY <1>6, <1>8, <2>3, <2>7
    <3>6. ASSUME NEW d \in Chains, InScope(d)
          PROVE  IF runtime'[d] = None THEN d \in SlotZero \/ committed'[d].seq = None
                                       ELSE runtime'[d] = Expected(d, committed'[d])
      <4>1. IF runtime[d] = None THEN d \in SlotZero \/ committed[d].seq = None
                                 ELSE runtime[d] = Expected(d, committed[d])
        BY <3>6 DEF StoreIsCurrent
      <4> QED
        BY <2>7, <3>3, <3>4, <3>5, <4>1 DEF Expected
    <3> QED
      BY <3>1, <3>2, <3>6 DEF StoreIsCurrent
  <2>10. Accomplished(r)
    <3>1. k + 1 = CallsOf(J)
      BY <1>4, <1>10
    <3>2. Effects(cur, k + 1) = EffectsOf(J)
      BY <1>4, <3>1 DEF Effects, EffectsOf
    <3>3. r.job = cur /\ proposal[r.job] = J /\ r.status = "success"
      BY <1>4, <2>1
    <3>4. committed'[c].effects = committed[c].effects \o EffectsOf(J)
      BY <1>6, <2>3, <2>7, <3>2
    <3> QED
      BY <1>1, <2>7, <2>8, <3>3, <3>4 DEF Accomplished
  <2> QED
    BY <2>8, <2>9, <2>10, JobIsOver
<1> QED
  BY <1>9, <1>10
-----------------------------------------------------------------------------
(***************************************************************************)
(* The invariant of the engine: of every run on its own, and of the derived*)
(* run, which starts from the states its predecessor committed.            *)
(***************************************************************************)
LEMMA StartHasInv ==
  \A p \in Proposals \cup Dependents : \A b \in [Chains -> ChainState] :
    (\A c \in Chains : ~b[c].stub) /\ Start(p, b) => EngineInv
<1> SUFFICES ASSUME NEW p \in Proposals \cup Dependents, NEW b \in [Chains -> ChainState],
                    \A c \in Chains : ~b[c].stub, Start(p, b)
             PROVE  EngineInv
  OBVIOUS
<1>1. p \in Seq(Job) /\ \A m, n \in DOMAIN p : p[m].name = p[n].name => m = n
  BY EngineAssumption, DerivedAssumption
<1>2. EngineTypes
  BY <1>1, ChainStates DEF EngineTypes, Start
<1>3. InTurn /\ AtRest /\ CopyIsCurrent /\ BlockIsKnown
  BY <1>1 DEF InTurn, AtRest, CopyIsCurrent, BlockIsKnown, Begun, Start
<1>4. \A c, k : LeftBefore(c, k) = RangeOf(b[c].effects)
  BY DEF LeftBefore, Start
<1>5. CommittedIsLeft /\ StepsFit
  BY <1>4 DEF CommittedIsLeft, StepsFit, Start
<1>6. StoreIsCurrent
  BY DEF StoreIsCurrent, InScope, Start
<1> QED
  BY <1>2, <1>3, <1>5, <1>6 DEF EngineInv

\* So it holds after a step that starts another run.
LEMMA RestartHasInv ==
  ASSUME NEW p \in Proposals \cup Dependents, NEW b \in [Chains -> ChainState],
         \A c \in Chains : ~b[c].stub
  PROVE  (Start(p, b) => EngineInv)'
<1>1. Start(p, b) => EngineInv
  BY StartHasInv
<1> QED
  BY <1>1, PTL

LEMMA StepKeepsInv ==
  ASSUME EngineInv, [Next]_engine
  PROVE  EngineInv'
<1>1. CASE SourceFails \/ SourceSucceeds
  BY <1>1, SourceKeepsInv
<1>2. CASE SkipUnsupported
  BY <1>2, SkipKeepsInv
<1>3. CASE BeginJob
  BY <1>3, BeginKeepsInv
<1>4. CASE FindBlock
  BY <1>4, FindBlockKeepsInv
<1>5. CASE Prepare
  BY <1>5, PrepareKeepsInv
<1>6. CASE LookupFails \/ PrepareFails \/ CallFails
  BY <1>6, FailureKeepsInv
<1>7. CASE CallSucceeds
  BY <1>7, CallSucceedsKeepsInv
<1>8. CASE UNCHANGED engine
  <2>1. \A d, n : LeftBefore(d, n)' = LeftBefore(d, n)
    BY <1>8 DEF engine, LeftBefore, Succeeded, EffectsOf, CallsOf
  <2>2. \A n, m : Fitting(n, m)' = Fitting(n, m)
    BY <1>8, <2>1 DEF engine, Fitting, Effects
  <2>3. EngineTypes' /\ InTurn' /\ AtRest' /\ BlockIsKnown'
    BY <1>8 DEF EngineInv, engine, EngineTypes, InTurn, Begun, AtRest, BlockIsKnown, J
  <2>4. CopyIsCurrent' /\ StoreIsCurrent'
    BY <1>8 DEF EngineInv, engine, CopyIsCurrent, Effects, CallsOf, J, StoreIsCurrent,
                InScope, Expected
  <2>5. CommittedIsLeft' /\ StepsFit'
    BY <1>8, <2>1, <2>2 DEF EngineInv, engine, CommittedIsLeft, StepsFit
  <2> QED
    BY <2>3, <2>4, <2>5 DEF EngineInv
<1> QED
  BY <1>1, <1>2, <1>3, <1>4, <1>5, <1>6, <1>7, <1>8 DEF Next, RunJob

THEOREM EngineInvariant == Spec => []EngineInv
<1>1. Init => EngineInv
  <2> SUFFICES ASSUME NEW p \in Proposals, Start(p, [c \in Chains |-> Fresh])
               PROVE  EngineInv
    BY DEF Init
  <2>1. /\ [c \in Chains |-> Fresh] \in [Chains -> ChainState]
        /\ \A d \in Chains : ~[c \in Chains |-> Fresh][d].stub
    BY ChainStates
  <2> QED
    BY <2>1, StartHasInv
<1>2. EngineInv /\ [Next]_engine => EngineInv'
  BY StepKeepsInv
<1> QED
  BY <1>1, <1>2, PTL DEF Spec
-----------------------------------------------------------------------------
(* What follows from the invariant.                                        *)

\* The steps of jobs that have ended or not, and what they may run on.
LEMMA AllStepsFit ==
  ASSUME EngineInv, NEW x \in AllSteps
  PROVE  /\ x.job \in 1..Len(proposal)
         /\ x.step \in Fitting(x.job, x.nr)
<1> USE DEF EngineInv
<1>1. DOMAIN results = 1..Len(results) /\ Len(results) \in Nat /\ Len(proposal) \in Nat
  BY DEF EngineTypes
<1>2. Len(results) <= Len(proposal)
  BY <1>1 DEF InTurn, Begun
<1>3. CASE x \in UNION {StepsOf(n) : n \in DOMAIN results}
  <2>1. PICK n \in DOMAIN results : x \in StepsOf(n)
    BY <1>3
  <2>2. PICK m \in DOMAIN results[n].steps :
          x = [job |-> results[n].job, nr |-> m, step |-> results[n].steps[m]]
    BY <2>1 DEF StepsOf
  <2>3. results[n].job = n /\ n \in 1..Len(proposal)
    BY <1>1, <1>2, <2>1 DEF InTurn
  <2>4. results[n].steps[m] \in Fitting(n, m)
    BY <2>1, <2>2 DEF StepsFit
  <2> QED
    BY <2>2, <2>3, <2>4
<1>4. CASE x \in {[job |-> cur, nr |-> m, step |-> steps[m]] : m \in DOMAIN steps}
  <2>1. PICK m \in DOMAIN steps : x = [job |-> cur, nr |-> m, step |-> steps[m]]
    BY <1>4
  <2>2. steps # <<>>
    BY <2>1 DEF EngineTypes
  <2>3. cur # None
    BY <2>2 DEF AtRest, InTurn
  <2>4. cur \in 1..Len(proposal) /\ steps[m] \in Fitting(cur, m)
    BY <2>1, <2>3, CurrentJob DEF StepsFit
  <2> QED
    BY <2>1, <2>4
<1>5. \/ x \in UNION {StepsOf(n) : n \in DOMAIN results}
      \/ x \in {[job |-> cur, nr |-> m, step |-> steps[m]] : m \in DOMAIN steps}
  BY Zenon DEF AllSteps
<1> QED
  BY <1>3, <1>4, <1>5

LEMMA VisibleIsFitting ==
  ASSUME EngineInv, NEW x, x.job \in 1..Len(proposal)
  PROVE  Visible(x) = LeftBefore(proposal[x.job].chain, x.job)
                        \cup RangeOf(Effects(x.job, x.nr - 1))
<1> USE DEF EngineInv
<1>1. PICK c, k : c = proposal[x.job].chain /\ k = x.job
  OBVIOUS
<1>2. \A n \in DOMAIN results : results[n].job = n
  BY DEF InTurn
<1>3. {n \in DOMAIN results : /\ Succeeded(n)
                              /\ results[n].job < k
                              /\ proposal[results[n].job].chain = c}
      = {n \in DOMAIN results : Succeeded(n) /\ n < k /\ proposal[n].chain = c}
  BY <1>2
<1>4. PICK past : past = {n \in DOMAIN results :
                            Succeeded(n) /\ n < k /\ proposal[n].chain = c}
  OBVIOUS
<1>5. UNION {{EffectsOf(proposal[results[n].job])[s] :
                s \in 1..CallsOf(proposal[results[n].job])} : n \in past}
      = UNION {RangeOf(EffectsOf(proposal[n])) : n \in past}
  <2>1. \A n \in past : results[n].job = n
    BY <1>2, <1>4
  <2>2. \A j : {EffectsOf(j)[s] : s \in 1..CallsOf(j)} = RangeOf(EffectsOf(j))
    BY DEF EffectsOf, RangeOf
  <2> QED
    BY <2>1, <2>2
<1>6. {<<proposal[k].name, s>> : s \in 1..(x.nr - 1)} = RangeOf(Effects(k, x.nr - 1))
  BY DEF Effects, RangeOf
<1>7. {base[c].effects[n] : n \in DOMAIN base[c].effects} = RangeOf(base[c].effects)
  BY DEF RangeOf
<1>8. Visible(x) = (UNION {RangeOf(EffectsOf(proposal[n])) : n \in past})
                     \cup RangeOf(Effects(k, x.nr - 1)) \cup RangeOf(base[c].effects)
  <2>1. Visible(x) =
          (UNION {{EffectsOf(proposal[results[n].job])[s] :
                     s \in 1..CallsOf(proposal[results[n].job])} : n \in past})
            \cup {<<proposal[k].name, s>> : s \in 1..(x.nr - 1)}
            \cup {base[c].effects[n] : n \in DOMAIN base[c].effects}
    BY <1>1, <1>3, <1>4, Zenon DEF Visible
  <2> QED
    BY <2>1, <1>5, <1>6, <1>7, Zenon
<1>9. LeftBefore(c, k) = RangeOf(base[c].effects) \cup
                           UNION {RangeOf(EffectsOf(proposal[n])) : n \in past}
  BY <1>4 DEF LeftBefore
<1>10. Visible(x) = LeftBefore(c, k) \cup RangeOf(Effects(k, x.nr - 1))
  <2>1. PICK u, v, w : /\ u = UNION {RangeOf(EffectsOf(proposal[n])) : n \in past}
                       /\ v = RangeOf(Effects(k, x.nr - 1))
                       /\ w = RangeOf(base[c].effects)
    OBVIOUS
  <2>2. Visible(x) = u \cup v \cup w /\ LeftBefore(c, k) = w \cup u
    BY <1>8, <1>9, <2>1, Zenon
  <2> QED
    BY <2>1, <2>2
<1> QED
  BY <1>1, <1>10, Zenon

LEMMA InvImpliesPast == EngineInv => CallsSeeTheirPast
<1> SUFFICES ASSUME EngineInv PROVE CallsSeeTheirPast
  OBVIOUS
<1>1. ASSUME NEW x \in AllSteps
      PROVE  {x.step.on.effects[n] : n \in DOMAIN x.step.on.effects} = Visible(x)
  <2>1. RangeOf(x.step.on.effects) = Visible(x)
    BY AllStepsFit, VisibleIsFitting DEF Fitting
  <2> QED
    BY <2>1 DEF RangeOf
<1>2. \A x \in AllSteps : x.step.block = block[proposal[x.job].chain]
  BY AllStepsFit DEF Fitting
<1>3. \A c \in Chains : ~committed[c].stub
  BY DEF EngineInv, CommittedIsLeft
<1> QED
  BY <1>1, <1>2, <1>3 DEF CallsSeeTheirPast

(***************************************************************************)
(* Whatever the proposal, and whichever jobs fail, every call is simulated *)
(* on the effects of the earlier successful jobs to its chain and of the   *)
(* calls before it, and of nothing else.                                   *)
(***************************************************************************)
THEOREM EngineCallsSeeTheirPast == Spec => []CallsSeeTheirPast
BY EngineInvariant, InvImpliesPast, PTL

LEMMA InvImpliesSequence == EngineInv => SequenceIsCurrent
BY DEF EngineInv, SequenceIsCurrent, StoreIsCurrent, CopyIsCurrent, InScope, Expected

(***************************************************************************)
(* However many messages go to a receiver, and whichever fail: each has the*)
(* sequence that the receiver accepts next.                                *)
(***************************************************************************)
THEOREM EngineSequenceIsCurrent == Spec => []SequenceIsCurrent
BY EngineInvariant, InvImpliesSequence, PTL
-----------------------------------------------------------------------------
(* The engine delivers in order: its state, as OrderedDelivery sees it.    *)

ToDeliver == [n \in DOMAIN Waiting |-> Message(Waiting[n])]
Delivered == [c \in Chains |-> committed[c].effects]
Told == [name \in Names |-> Verdict(name)]

LEMMA DeliveryStates ==
  /\ Delivery!vars = <<ToDeliver, Delivered, Told>>
  /\ Delivery!vars' = <<ToDeliver, Delivered, Told>>'
BY DEF Delivery!vars, ToDeliver, Delivered, Told

\* A job before the jobs that follow it.
LEMMA RunGrows ==
  ASSUME NEW r \in Nat, NEW k \in Nat
  PROVE  <<r + 1>> \o [n \in 1..k |-> (r + 1) + n] = [n \in 1..(k + 1) |-> r + n]
<1>1. PICK w, q, z : /\ w = <<r + 1>> /\ q = [n \in 1..k |-> (r + 1) + n]
                     /\ z = [n \in 1..(k + 1) |-> r + n]
  OBVIOUS
<1>2. w \in Seq(Nat) /\ q \in Seq(Nat) /\ z \in Seq(Nat)
  BY <1>1
<1>3. /\ Len(w) = 1 /\ w[1] = r + 1
      /\ Len(q) = k /\ \A n \in 1..k : q[n] = (r + 1) + n
      /\ Len(z) = k + 1 /\ \A n \in 1..(k + 1) : z[n] = r + n
  BY <1>1
<1>4. /\ w \o q \in Seq(Nat) /\ Len(w \o q) = Len(w) + Len(q)
      /\ \A n \in 1..(Len(w) + Len(q)) :
           (w \o q)[n] = IF n <= Len(w) THEN w[n] ELSE q[n - Len(w)]
  BY <1>2, ConcatProperties
<1>5. /\ Len(w \o q) = k + 1
      /\ \A n \in 1..(k + 1) : (w \o q)[n] = IF n <= 1 THEN w[n] ELSE q[n - 1]
  <2>1. 1 + k = k + 1
    OBVIOUS
  <2> QED
    BY <1>3, <1>4, <2>1
<1>6. ASSUME NEW n \in 1..(k + 1) PROVE (w \o q)[n] = z[n]
  <2>1. CASE n <= 1
    BY <1>3, <1>5, <2>1
  <2>2. CASE ~(n <= 1)
    <3>1. n - 1 \in 1..k /\ (r + 1) + (n - 1) = r + n
      BY <2>2
    <3> QED
      BY <1>3, <1>5, <2>2, <3>1
  <2> QED
    BY <2>1, <2>2
<1>7. w \o q = z
  BY <1>2, <1>3, <1>4, <1>5, <1>6, SeqEqual
<1> QED
  BY <1>1, <1>7

\* Unless the source simulation failed, the jobs without a result are waiting.
LEMMA JobsWait ==
  EngineInv =>
    Waiting = IF pc = "failed" THEN <<>>
              ELSE [n \in 1..(Len(proposal) - Len(results)) |-> Len(results) + n]
<1> SUFFICES ASSUME EngineInv
             PROVE  Waiting = IF pc = "failed" THEN <<>>
                              ELSE [n \in 1..(Len(proposal) - Len(results)) |->
                                      Len(results) + n]
  OBVIOUS
<1> USE DEF EngineInv
<1>1. PICK r, l : r = Len(results) /\ l = Len(proposal)
  OBVIOUS
<1>2. r \in Nat /\ l \in Nat /\ DOMAIN proposal = 1..l
  BY <1>1 DEF EngineTypes
<1>3. CASE pc = "source"
  <2>1. r = 0
    BY <1>1, <1>3 DEF InTurn
  <2>2. Waiting = [n \in 1..l |-> n]
    BY <1>2, <1>3 DEF Waiting
  <2>3. Waiting = [n \in 1..(l - r) |-> r + n]
    BY <1>2, <2>1, <2>2
  <2> QED
    BY <1>1, <1>3, <2>3
<1>4. CASE pc = "failed"
  BY <1>4 DEF Waiting, InTurn
<1>5. CASE pc \notin {"source", "failed"} /\ cur = None
  BY <1>1, <1>2, <1>5 DEF Waiting, InTurn, Begun
<1>6. CASE pc \notin {"source", "failed"} /\ cur # None
  <2>1. PICK q : q = [n \in 1..(l - (r + 1)) |-> (r + 1) + n]
    OBVIOUS
  <2>2. queue = q /\ cur = r + 1 /\ r + 1 <= l
    BY <1>1, <1>2, <1>6, <2>1, CurrentJob
  <2>3. Waiting = <<r + 1>> \o q
    BY <1>6, <2>2 DEF Waiting
  <2>4. PICK k : k = l - (r + 1)
    OBVIOUS
  <2>5. k \in Nat /\ k + 1 = l - r
    BY <1>2, <2>2, <2>4
  <2>6. <<r + 1>> \o q = [n \in 1..(k + 1) |-> r + n]
    BY <1>2, <2>1, <2>4, <2>5, RunGrows
  <2> QED
    BY <1>1, <1>6, <2>3, <2>5, <2>6
<1> QED
  BY <1>3, <1>4, <1>5, <1>6

LEMMA MessagesWait ==
  EngineInv =>
    ToDeliver = IF pc = "failed" THEN <<>>
                ELSE [n \in 1..(Len(proposal) - Len(results)) |->
                        Message(Len(results) + n)]
<1> SUFFICES ASSUME EngineInv
             PROVE  ToDeliver = IF pc = "failed" THEN <<>>
                                ELSE [n \in 1..(Len(proposal) - Len(results)) |->
                                        Message(Len(results) + n)]
  OBVIOUS
<1>1. CASE pc = "failed"
  BY <1>1, JobsWait DEF ToDeliver
<1>2. CASE pc # "failed"
  <2>1. PICK m, r : m = Len(proposal) - Len(results) /\ r = Len(results)
    OBVIOUS
  <2>2. Waiting = [n \in 1..m |-> r + n]
    BY <1>2, <2>1, JobsWait
  <2>3. ToDeliver = [n \in 1..m |-> Message(r + n)]
    BY <2>2 DEF ToDeliver
  <2> QED
    BY <1>2, <2>1, <2>3
<1> QED
  BY <1>1, <1>2

\* The verdict on a name is the status of its one result.
LEMMA VerdictIsStatus ==
  EngineInv =>
    /\ \A n \in DOMAIN results : Verdict(proposal[n].name) = results[n].status
    /\ \A name : (\A n \in DOMAIN results : proposal[n].name # name) =>
                   Verdict(name) = "none"
<1> SUFFICES ASSUME EngineInv
             PROVE  /\ \A n \in DOMAIN results :
                         Verdict(proposal[n].name) = results[n].status
                    /\ \A name : (\A n \in DOMAIN results : proposal[n].name # name) =>
                                   Verdict(name) = "none"
  OBVIOUS
<1> USE DEF EngineInv
<1>1. \A n \in DOMAIN results : results[n].job = n /\ n \in DOMAIN proposal
  BY DEF InTurn, Begun, EngineTypes
<1>2. ASSUME NEW n \in DOMAIN results
      PROVE  Verdict(proposal[n].name) = results[n].status
  <2>1. \A m \in DOMAIN results :
          proposal[results[m].job].name = proposal[n].name <=> m = n
    BY <1>1 DEF EngineTypes
  <2>2. (CHOOSE m \in DOMAIN results :
           proposal[results[m].job].name = proposal[n].name) = n
    BY <2>1
  <2> QED
    BY <2>1, <2>2 DEF Verdict
<1>3. ASSUME NEW name, \A n \in DOMAIN results : proposal[n].name # name
      PROVE  Verdict(name) = "none"
  BY <1>1, <1>3 DEF Verdict
<1> QED
  BY <1>2, <1>3

\* The end of a job: the first message is judged, the others wait on.
LEMMA JobIsJudged ==
  ASSUME EngineInv, EngineInv', NEW r, JobEnds(r), pc # "failed"
  PROVE  /\ ToDeliver # <<>> /\ Head(ToDeliver) = Message(r.job)
         /\ ToDeliver' = Tail(ToDeliver)
         /\ Told' = [Told EXCEPT ![proposal[r.job].name] = r.status]
<1>1. PICK k, l, p : k = Len(results) + 1 /\ l = Len(proposal) /\ p = proposal
  OBVIOUS
<1>2. EngineTypes /\ Ends(r)
  BY DEF EngineInv, JobEnds
<1>3. /\ Len(results') = k /\ r.job = k /\ k \in Nat /\ l \in Nat /\ k <= l /\ k >= 1
      /\ DOMAIN results = 1..(k - 1) /\ DOMAIN results' = 1..k
      /\ \A n \in DOMAIN results : results'[n] = results[n]
      /\ results'[k] = r /\ proposal' = p
  BY <1>1, <1>2, ResultsGrow DEF Ends, EngineTypes
<1>4. PICK s : s = [n \in 1..l |-> Message(n)]
  OBVIOUS
<1>5. \A n \in 1..l : Message(n)' = Message(n)
  BY <1>1, <1>3 DEF Message, EffectsOf, CallsOf
<1>6. ToDeliver = [n \in 1..(l - (k - 1)) |-> s[(k - 1) + n]]
  <2>1. ToDeliver = [n \in 1..(l - (k - 1)) |-> Message((k - 1) + n)]
    <3>1. Len(results) = k - 1
      BY <1>1, <1>2 DEF EngineTypes
    <3> QED
      BY <1>1, <3>1, MessagesWait
  <2>2. \A n \in 1..(l - (k - 1)) : (k - 1) + n \in 1..l
    BY <1>3
  <2> QED
    BY <1>4, <2>1, <2>2
<1>7. ToDeliver' = [n \in 1..(l - k) |-> s[k + n]]
  <2>1. pc' # "failed"
    BY DEF JobEnds, After
  <2>2. (EngineInv =>
           ToDeliver = IF pc = "failed" THEN <<>>
                       ELSE [n \in 1..(Len(proposal) - Len(results)) |->
                               Message(Len(results) + n)])'
    BY MessagesWait, PTL
  <2>3. ToDeliver' = [n \in 1..(Len(p) - k) |-> Message(k + n)']
    BY <1>3, <2>1, <2>2
  <2>4. \A n \in 1..(l - k) : k + n \in 1..l
    BY <1>3
  <2> QED
    BY <1>1, <1>4, <1>5, <2>3, <2>4
<1>8. PICK t, u : t = ToDeliver /\ u = ToDeliver'
  OBVIOUS
<1>9. t # <<>> /\ Head(t) = s[k] /\ u = Tail(t)
  <2>1. PICK S : S = {s[n] : n \in 1..l}
    OBVIOUS
  <2>2. /\ t \in [1..(l - (k - 1)) -> S] /\ l - (k - 1) \in Nat
        /\ u \in [1..(l - k) -> S] /\ l - k \in Nat
    BY <1>3, <1>6, <1>7, <1>8, <2>1
  <2>3. t \in Seq(S) /\ Len(t) = l - (k - 1) /\ u \in Seq(S) /\ Len(u) = l - k
    BY <2>2
  <2>4. t # <<>> /\ Head(t) = s[k]
    BY <1>3, <1>6, <1>8, <2>3
  <2>5. /\ Tail(t) \in Seq(S) /\ Len(Tail(t)) = l - k
        /\ \A n \in 1..Len(Tail(t)) : Tail(t)[n] = t[n + 1]
    BY <1>3, <2>3, <2>4, HeadTailProperties
  <2>6. ASSUME NEW n \in 1..(l - k) PROVE Tail(t)[n] = u[n]
    <3>1. n + 1 \in 1..(l - (k - 1)) /\ (k - 1) + (n + 1) = k + n
      BY <1>3
    <3> QED
      BY <1>6, <1>7, <1>8, <2>5, <3>1
  <2>7. Tail(t) = u
    BY <2>3, <2>5, <2>6, SeqEqual
  <2> QED
    BY <2>4, <2>7
<1>10. Told' = [Told EXCEPT ![p[k].name] = r.status]
  <2>1. (EngineInv =>
           /\ \A n \in DOMAIN results : Verdict(proposal[n].name) = results[n].status
           /\ \A name : (\A n \in DOMAIN results : proposal[n].name # name) =>
                          Verdict(name) = "none")'
    BY VerdictIsStatus, PTL
  <2>2. \A n \in 1..k : Verdict(p[n].name)' = results'[n].status
    BY <1>3, <2>1
  <2>3. \A name : (\A n \in 1..k : p[n].name # name) => Verdict(name)' = "none"
    BY <1>3, <2>1
  <2>4. p[k].name \in Names
    <3>1. p \in Seq(Job) /\ k \in 1..Len(p)
      BY <1>1, <1>2, <1>3 DEF EngineTypes
    <3>2. p[k] \in Job
      BY <3>1
    <3> QED
      BY <3>2 DEF Job
  <2>5. ASSUME NEW name \in Names, name # p[k].name
        PROVE  Verdict(name)' = Verdict(name)
    <3>1. CASE \E n \in DOMAIN results : p[n].name = name
      <4>1. PICK n \in DOMAIN results : p[n].name = name
        BY <3>1
      <4>2. n \in 1..k /\ results'[n] = results[n]
        BY <1>3, <4>1
      <4> QED
        BY <1>1, <2>2, <4>1, <4>2, VerdictIsStatus
    <3>2. CASE \A n \in DOMAIN results : p[n].name # name
      <4>1. \A n \in 1..k : p[n].name # name
        BY <1>3, <2>5, <3>2
      <4> QED
        BY <1>1, <2>3, <3>2, <4>1, VerdictIsStatus
    <3> QED
      BY <3>1, <3>2
  <2>6. Verdict(p[k].name)' = r.status
    BY <1>3, <2>2
  <2> QED
    BY <2>4, <2>5, <2>6 DEF Told
<1> QED
  BY <1>1, <1>3, <1>4, <1>8, <1>9, <1>10

\* Where no job ends, nothing happens to the messages.
LEMMA NothingIsJudged ==
  ASSUME EngineInv, EngineInv', UNCHANGED <<proposal, committed, results>>,
         pc = "failed" <=> pc' = "failed"
  PROVE  UNCHANGED Delivery!vars
<1>1. \A n : Message(n)' = Message(n)
  BY DEF Message, EffectsOf, CallsOf
<1>2. (EngineInv =>
         ToDeliver = IF pc = "failed" THEN <<>>
                     ELSE [n \in 1..(Len(proposal) - Len(results)) |->
                             Message(Len(results) + n)])'
  BY MessagesWait, PTL
<1>3. ToDeliver' = ToDeliver
  BY <1>1, <1>2, MessagesWait
<1>4. Delivered' = Delivered
  BY DEF Delivered
<1>5. Told' = Told
  BY DEF Told, Verdict
<1> QED
  BY <1>3, <1>4, <1>5, DeliveryStates

\* A job that ends is a message that is judged.
LEMMA JobIsAMessage ==
  ASSUME EngineInv, EngineInv', pc # "failed", NEW r,
         Refused(r) \/ Accomplished(r)
  PROVE  Delivery!Next
<1>1. JobEnds(r)
  BY DEF Refused, Accomplished
<1>2. /\ ToDeliver # <<>> /\ Head(ToDeliver) = Message(r.job)
      /\ ToDeliver' = Tail(ToDeliver)
      /\ Told' = [Told EXCEPT ![proposal[r.job].name] = r.status]
  BY <1>1, JobIsJudged
<1>3. PICK j : j = proposal[r.job]
  OBVIOUS
<1>4. /\ Message(r.job).name = j.name /\ Message(r.job).chain = j.chain
      /\ Message(r.job).effects = EffectsOf(j)
  BY <1>3 DEF Message
<1>5. CASE Refused(r)
  <2>1. Delivered' = Delivered /\ r.status \in {"failure", "skipped"}
    BY <1>5 DEF Refused, Delivered
  <2>2. Delivery!Refuse
    BY <1>2, <1>3, <1>4, <2>1 DEF Delivery!Refuse, Delivery!Judge, ToDeliver, Delivered, Told
  <2> QED
    BY <2>2 DEF Delivery!Next
<1>6. CASE Accomplished(r)
  <2>1. r.status = "success"
    BY <1>6 DEF Accomplished
  <2>2. j.chain \in Chains
    <3>1. proposal \in Seq(Job) /\ results \in Seq(Result)
      BY DEF EngineInv, EngineTypes
    <3>2. r.job = Len(results) + 1 /\ r.job <= Len(proposal)
      BY <1>1 DEF JobEnds, Ends
    <3>3. j \in Job
      BY <1>3, <3>1, <3>2
    <3> QED
      BY <3>3 DEF Job
  <2>3. Delivered' = [Delivered EXCEPT ![j.chain] = @ \o EffectsOf(j)]
    BY <1>3, <1>6, <2>2 DEF Accomplished, Delivered
  <2>4. Delivery!Deliver
    BY <1>2, <1>3, <1>4, <2>1, <2>3 DEF Delivery!Deliver, Delivery!Judge, ToDeliver, Delivered, Told
  <2> QED
    BY <2>4 DEF Delivery!Next
<1> QED
  BY <1>5, <1>6

LEMMA StepIsDelivery ==
  ASSUME EngineInv, EngineInv', [Next]_engine
  PROVE  [Delivery!Next]_Delivery!vars
<1>1. CASE SourceFails
  <2>1. results = <<>> /\ UNCHANGED <<proposal, committed, results>> /\ pc' = "failed"
    BY <1>1 DEF SourceFails, EngineInv, InTurn
  <2>2. (EngineInv =>
           ToDeliver = IF pc = "failed" THEN <<>>
                       ELSE [n \in 1..(Len(proposal) - Len(results)) |->
                               Message(Len(results) + n)])'
    BY MessagesWait, PTL
  <2>3. ToDeliver' = <<>>
    BY <2>1, <2>2
  <2>4. Delivered' = Delivered /\ Told' = Told
    BY <2>1 DEF Delivered, Told, Verdict
  <2>5. Told = [n \in Names |-> "none"]
    BY <2>1 DEF Told, Verdict
  <2>6. Delivery!Cancel
    BY <2>3, <2>4, <2>5 DEF Delivery!Cancel, ToDeliver, Delivered, Told
  <2> QED
    BY <2>6 DEF Delivery!Next
<1>2. CASE SourceSucceeds \/ BeginJob \/ FindBlock \/ Prepare
  <2>1. UNCHANGED <<proposal, committed, results>> /\ pc # "failed" /\ pc' # "failed"
    BY <1>2 DEF SourceSucceeds, BeginJob, FindBlock, Prepare
  <2> QED
    BY <2>1, NothingIsJudged
<1>3. CASE SkipUnsupported
  <2>1. pc # "failed" /\ \E r : Refused(r)
    BY <1>3, SkipKeepsInv DEF SkipUnsupported
  <2> QED
    BY <2>1, JobIsAMessage
<1>4. CASE LookupFails \/ PrepareFails \/ CallFails
  <2>1. pc # "failed" /\ \E r : Refused(r)
    BY <1>4, FailureKeepsInv DEF LookupFails, PrepareFails, CallFails
  <2> QED
    BY <2>1, JobIsAMessage
<1>5. CASE CallSucceeds
  <2>1. /\ pc # "failed"
        /\ \/ UNCHANGED <<proposal, pc, committed, results>>
           \/ \E r : Accomplished(r)
    BY <1>5, CallSucceedsKeepsInv DEF CallSucceeds
  <2> QED
    BY <2>1, JobIsAMessage, NothingIsJudged
<1>6. CASE UNCHANGED engine
  BY <1>6, NothingIsJudged DEF engine
<1> QED
  BY <1>1, <1>2, <1>3, <1>4, <1>5, <1>6 DEF Next, RunJob

(***************************************************************************)
(* The engine implements OrderedDelivery: whatever fails, the messages are *)
(* judged one by one in the order of the proposal, and the effects of one  *)
(* appear all at once, or never.                                           *)
(***************************************************************************)
THEOREM EngineImplementsDelivery == Spec => ImplementsOrderedDelivery
<1>1. Init => Delivery!Init
  BY DEF Init, Start, Delivery!Init, Verdict
<1>2. EngineInv /\ EngineInv' /\ [Next]_engine => [Delivery!Next]_Delivery!vars
  BY StepIsDelivery
<1> QED
  BY <1>1, <1>2, EngineInvariant, PTL DEF Spec, ImplementsOrderedDelivery, Delivery!Spec
-----------------------------------------------------------------------------
(* What a proposal sends to a chain, as DerivedRun adds it up.             *)

\* A set of numbers that is not empty has an element with none below it.
LEMMA MinimalNumber ==
  ASSUME NEW R, IsWellFoundedOn(R, Nat), NEW T, T \subseteq Nat, T # {}
  PROVE  \E p \in T : \A q \in T : ~(<<q, p>> \in R)
BY WFMin, Zenon

\* With the order of the numbers that element is below the others.
LEMMA BelowTheOthers ==
  ASSUME NEW R, IsWellFoundedOn(R, Nat), R = {ss \in Nat \X Nat : ss[1] < ss[2]},
         NEW T, T \subseteq Nat, T # {}
  PROVE  \E p \in T : \A q \in T : p <= q
<1>1. PICK p \in T : \A q \in T : ~(<<q, p>> \in R)
  BY MinimalNumber, Zenon
<1>2. ASSUME NEW q \in T PROVE p <= q
  <2>1. p \in Nat /\ q \in Nat
    OBVIOUS
  <2>2. <<q, p>> \notin R
    BY <1>1
  <2>3. <<q, p>> \in {ss \in Nat \X Nat : ss[1] < ss[2]} <=> q < p
    BY <2>1
  <2> QED
    BY <2>1, <2>2, <2>3
<1> QED
  BY <1>2

\* Hence a set of numbers that is not empty has a least element.
LEMMA LeastNumber ==
  ASSUME NEW T, T \subseteq Nat, T # {}
  PROVE  \E p \in T : \A q \in T : p <= q
<1>1. IsWellFoundedOn({ss \in Nat \X Nat : ss[1] < ss[2]}, Nat)
  BY NatLessThanWellFounded, Zenon DEF OpToRel
<1> QED
  BY <1>1, BelowTheOthers, Zenon

\* There is a function that adds the sequences up, one after the other, ...
LEMMA SumExists ==
  ASSUME NEW L \in Nat, NEW t
  PROVE  \E g : g = [n \in 0..L |-> IF n = 0 THEN <<>> ELSE g[n - 1] \o t[n]]
<1> DEFINE Sums(l) == \E g : g = [n \in 0..l |-> IF n = 0 THEN <<>> ELSE g[n - 1] \o t[n]]
<1>1. Sums(0)
  <2>1. PICK g : g = [n \in 0..0 |-> <<>>]
    OBVIOUS
  <2>2. g = [n \in 0..0 |-> IF n = 0 THEN <<>> ELSE g[n - 1] \o t[n]]
    BY <2>1
  <2> QED
    BY <2>2
<1>2. ASSUME NEW m \in Nat, Sums(m)
      PROVE  Sums(m + 1)
  <2>1. PICK g : g = [n \in 0..m |-> IF n = 0 THEN <<>> ELSE g[n - 1] \o t[n]]
    BY <1>2
  <2>2. PICK h : h = [n \in 0..(m + 1) |-> IF n = m + 1 THEN g[m] \o t[m + 1] ELSE g[n]]
    OBVIOUS
  <2>3. ASSUME NEW n \in 0..(m + 1)
        PROVE  h[n] = IF n = 0 THEN <<>> ELSE h[n - 1] \o t[n]
    <3>1. CASE n = m + 1
      <4>1. h[n - 1] = g[m] /\ n # 0 /\ h[n] = g[m] \o t[m + 1]
        BY <2>2, <3>1
      <4> QED
        BY <3>1, <4>1
    <3>2. CASE n # m + 1
      <4>1. n \in 0..m
        BY <3>2
      <4>2. h[n] = g[n] /\ (n # 0 => h[n - 1] = g[n - 1])
        BY <2>2, <3>2, <4>1
      <4> QED
        BY <2>1, <4>1, <4>2
    <3> QED
      BY <3>1, <3>2
  <2>4. h = [n \in 0..(m + 1) |-> IF n = 0 THEN <<>> ELSE h[n - 1] \o t[n]]
    <3>1. h = [n \in 0..(m + 1) |-> h[n]]
      BY <2>2
    <3> QED
      BY <2>3, <3>1
  <2> QED
    BY <2>4
<1>3. PICK T : T = {l \in Nat : ~Sums(l)}
  OBVIOUS
<1>4. ASSUME T # {} PROVE FALSE
  <2>1. PICK m \in T : \A l \in T : m <= l
    BY <1>3, <1>4, LeastNumber
  <2>2. m \in Nat /\ ~Sums(m)
    BY <1>3
  <2>3. m # 0
    BY <1>1, <2>2
  <2>4. m - 1 \in Nat /\ (m - 1) + 1 = m /\ ~(m <= m - 1)
    BY <2>2, <2>3
  <2>5. Sums(m - 1)
    BY <1>3, <2>1, <2>4
  <2>6. Sums((m - 1) + 1)
    BY <1>2, <2>4, <2>5
  <2> QED
    BY <2>2, <2>4, <2>6
<1>5. Sums(L)
  BY <1>3, <1>4
<1> QED
  BY <1>5 DEF Sums

\* ... and all its values are sequences.
LEMMA SumsAreSequences ==
  ASSUME NEW L \in Nat, NEW S, NEW t, \A n \in 1..L : t[n] \in Seq(S),
         NEW g, g = [n \in 0..L |-> IF n = 0 THEN <<>> ELSE g[n - 1] \o t[n]]
  PROVE  \A n \in 0..L : g[n] \in Seq(S)
<1>1. PICK T : T = {n \in 0..L : g[n] \notin Seq(S)}
  OBVIOUS
<1>2. CASE T # {}
  <2>0. T \subseteq Nat
    BY <1>1
  <2>1. PICK m \in T : \A l \in T : m <= l
    BY <1>2, <2>0, LeastNumber
  <2>2. m \in 0..L /\ g[m] \notin Seq(S)
    BY <1>1
  <2>3. g[0] = <<>>
    <3>1. 0 \in 0..L
      OBVIOUS
    <3> QED
      BY <3>1
  <2>4. <<>> \in Seq(S)
    OBVIOUS
  <2>5. m # 0
    BY <2>2, <2>3, <2>4
  <2>6. m - 1 \in 0..L /\ m \in 1..L /\ ~(m <= m - 1)
    BY <2>2, <2>5
  <2>7. g[m - 1] \in Seq(S)
    BY <1>1, <2>1, <2>6
  <2>8. g[m] = g[m - 1] \o t[m]
    BY <2>2, <2>5
  <2>9. PICK u, v : u = g[m - 1] /\ v = t[m]
    OBVIOUS
  <2>10. u \in Seq(S) /\ v \in Seq(S)
    BY <2>6, <2>7, <2>9
  <2>11. u \o v \in Seq(S)
    BY <2>10
  <2> QED
    BY <2>2, <2>8, <2>9, <2>11
<1> QED
  BY <1>1, <1>2

\* So what a proposal sends grows job by job.
LEMMA SentGrows ==
  ASSUME NEW p \in Seq(Job), NEW c
  PROVE  /\ \A n \in 0..Len(p) : SentBy(p, c)[n] \in Seq(Names \X Nat)
         /\ SentBy(p, c)[0] = <<>>
         /\ \A n \in 1..Len(p) :
              /\ SentAs(p, c, n) \in Seq(Names \X Nat)
              /\ SentBy(p, c)[n] = SentBy(p, c)[n - 1] \o SentAs(p, c, n)
<1>1. PICK L : L = Len(p)
  OBVIOUS
<1>2. L \in Nat /\ \A n \in 1..L : p[n] \in Job
  BY <1>1
<1>3. ASSUME NEW n \in 1..L PROVE SentAs(p, c, n) \in Seq(Names \X Nat)
  <2>1. p[n] \in Job
    BY <1>2
  <2>2. CallsOf(p[n]) \in Nat /\ p[n].name \in Names
    BY <2>1 DEF CallsOf, Job
  <2>3. EffectsOf(p[n]) \in Seq(Names \X Nat)
    BY <2>2 DEF EffectsOf
  <2> QED
    BY <2>3 DEF SentAs
<1>4. PICK t : t = [n \in 1..L |-> SentAs(p, c, n)]
  OBVIOUS
<1>5. PICK g : g = [n \in 0..L |-> IF n = 0 THEN <<>> ELSE g[n - 1] \o t[n]]
  BY <1>2, SumExists
<1>6. ASSUME NEW f
      PROVE  [n \in 0..L |-> IF n = 0 THEN <<>> ELSE f[n - 1] \o SentAs(p, c, n)]
             = [n \in 0..L |-> IF n = 0 THEN <<>> ELSE f[n - 1] \o t[n]]
  <2>1. \A n \in 0..L : n # 0 => t[n] = SentAs(p, c, n)
    BY <1>4
  <2> QED
    BY <2>1
<1>7. g = [n \in 0..L |-> IF n = 0 THEN <<>> ELSE g[n - 1] \o SentAs(p, c, n)]
  BY <1>5, <1>6
<1>8. PICK f : f = SentBy(p, c)
  OBVIOUS
<1>9. f = [n \in 0..L |-> IF n = 0 THEN <<>> ELSE f[n - 1] \o SentAs(p, c, n)]
  <2> DEFINE e == CHOOSE e : e = [n \in 0..L |->
                     IF n = 0 THEN <<>> ELSE e[n - 1] \o SentAs(p, c, n)]
  <2>1. SentBy(p, c) = e
    BY <1>1 DEF SentBy
  <2>2. e = [n \in 0..L |-> IF n = 0 THEN <<>> ELSE e[n - 1] \o SentAs(p, c, n)]
    BY <1>7, Zenon
  <2> QED
    BY <1>8, <2>1, <2>2, Zenon
<1>10. f = [n \in 0..L |-> IF n = 0 THEN <<>> ELSE f[n - 1] \o t[n]]
  BY <1>6, <1>9
<1>11. \A n \in 0..L : f[n] \in Seq(Names \X Nat)
  <2>2. PICK N : N = Names \X Nat
    OBVIOUS
  <2>3. \A n \in 1..L : t[n] \in Seq(N)
    BY <1>3, <1>4, <2>2
  <2>4. \A n \in 0..L : f[n] \in Seq(N)
    BY <1>2, <1>10, <2>3, SumsAreSequences
  <2> QED
    BY <2>2, <2>4
<1>12. f[0] = <<>> /\ \A n \in 1..L : f[n] = f[n - 1] \o SentAs(p, c, n)
  <2>1. \A n \in 0..L : f[n] = IF n = 0 THEN <<>> ELSE f[n - 1] \o SentAs(p, c, n)
    BY <1>9
  <2>2. 0 \in 0..L /\ \A n \in 1..L : n \in 0..L /\ n # 0
    BY <1>2
  <2> QED
    BY <2>1, <2>2
<1> QED
  BY <1>1, <1>3, <1>8, <1>11, <1>12
-----------------------------------------------------------------------------
(* The two runs, their checks and the gate between them.                   *)

\* What a step of the engine can do to the results.
LEMMA StepOfAJob ==
  ASSUME EngineInv, [Next]_engine
  PROVE  /\ UNCHANGED <<proposal, base>>
         /\ \/ UNCHANGED <<committed, results>>
            \/ \E r : Refused(r) \/ Accomplished(r)
<1>1. CASE SourceFails \/ SourceSucceeds \/ BeginJob \/ FindBlock \/ Prepare
  BY <1>1 DEF SourceFails, SourceSucceeds, BeginJob, FindBlock, Prepare
<1>2. CASE SkipUnsupported
  BY <1>2, SkipKeepsInv DEF Refused, JobEnds, Ends
<1>3. CASE LookupFails \/ PrepareFails \/ CallFails
  BY <1>3, FailureKeepsInv DEF Refused, JobEnds, Ends
<1>4. CASE CallSucceeds
  <2>1. UNCHANGED <<proposal, base>>
    BY <1>4 DEF CallSucceeds
  <2> QED
    BY <1>4, <2>1, CallSucceedsKeepsInv
<1>5. CASE UNCHANGED engine
  BY <1>5 DEF engine
<1> QED
  BY <1>1, <1>2, <1>3, <1>4, <1>5 DEF Next, RunJob

\* The next call to check is one of those still to be checked.
LEMMA NextCallIsUnchecked ==
  ASSUME unchecked \subseteq Nat \X Nat, unchecked # {}
  PROVE  NextCall \in unchecked
<1>1. PICK T : T = {x[1] : x \in unchecked}
  OBVIOUS
<1>2. T \subseteq Nat /\ T # {}
  BY <1>1
<1>3. PICK a \in T : \A n \in T : a <= n
  BY <1>2, LeastNumber
<1>4. PICK U : U = {x[2] : x \in {y \in unchecked : y[1] = a}}
  OBVIOUS
<1>5. U \subseteq Nat /\ U # {}
  BY <1>1, <1>3, <1>4
<1>6. PICK b \in U : \A n \in U : b <= n
  BY <1>5, LeastNumber
<1>7. PICK z \in unchecked : z[1] = a /\ z[2] = b
  BY <1>4, <1>6
<1>8. ASSUME NEW y \in unchecked
      PROVE  z[1] < y[1] \/ (z[1] = y[1] /\ z[2] <= y[2])
  <2>1. y[1] \in T /\ y[1] \in Nat /\ z[1] \in Nat /\ z[1] <= y[1]
    BY <1>1, <1>2, <1>3, <1>7
  <2>2. CASE y[1] = a
    BY <1>4, <1>6, <1>7, <2>2
  <2>3. CASE y[1] # a
    BY <1>7, <2>1, <2>3
  <2> QED
    BY <2>2, <2>3
<1> QED
  BY <1>8 DEF NextCall

\* Merging loses no error, and takes nothing for checked that was skipped.
LEMMA MergeIsHonest ==
  ASSUME NEW f \in [Checks -> Verdicts], NEW g \in [Checks -> Verdicts]
  PROVE  /\ Merge(f, g) \in [Checks -> Verdicts]
         /\ HasErrors(f) \/ HasErrors(g) => HasErrors(Merge(f, g))
         /\ ~AllSkipped(Merge(f, g)) => ~AllSkipped(f) \/ ~AllSkipped(g)
<1>1. PICK h : h = Merge(f, g)
  OBVIOUS
<1>2. \A k \in Checks : /\ f[k] \in {"ok", "error", "skipped"}
                        /\ g[k] \in {"ok", "error", "skipped"}
  BY DEF Verdicts
<1>3. \A k \in Checks :
        h[k] = IF f[k] = "error" \/ g[k] = "error" THEN "error"
               ELSE IF f[k] = "skipped" /\ g[k] = "skipped" THEN "skipped" ELSE "ok"
  BY <1>1, <1>2 DEF Merge
<1>4. h \in [Checks -> Verdicts]
  <2>1. h = [k \in Checks |-> h[k]]
    BY <1>1 DEF Merge
  <2> QED
    BY <1>3, <2>1 DEF Verdicts
<1>5. HasErrors(f) \/ HasErrors(g) => HasErrors(h)
  BY <1>3 DEF HasErrors
<1>6. ~AllSkipped(h) => ~AllSkipped(f) \/ ~AllSkipped(g)
  BY <1>3 DEF AllSkipped
<1> QED
  BY <1>1, <1>4, <1>5, <1>6

LEMMA ChainsOfResults ==
  ASSUME EngineInv, NEW n \in DOMAIN results
  PROVE  /\ results[n].job = n /\ n \in DOMAIN proposal
         /\ ChainOf(n) = proposal[n].chain /\ ChainOf(n) \in Chains
<1>1. /\ proposal \in Seq(Job) /\ Len(results) <= Len(proposal)
      /\ DOMAIN results = 1..Len(results) /\ Len(results) \in Nat
      /\ results[n].job = n
  BY DEF EngineInv, EngineTypes, InTurn, Begun
<1>2. n \in 1..Len(proposal) /\ proposal[n] \in Job
  BY <1>1
<1> QED
  BY <1>1, <1>2 DEF ChainOf, Job

\* Steps that leave the engine alone keep what is said of it.
LEMMA EngineRests ==
  ASSUME DerivedInv, UNCHANGED <<engine, run>>
  PROVE  /\ EngineInv' /\ GrowsAsSent'
         /\ UNCHANGED <<proposal, pc, results>>
         /\ \A n : ChainOf(n)' = ChainOf(n)
<1>1. EngineInv'
  BY StepKeepsInv DEF DerivedInv
<1>2. UNCHANGED <<proposal, pc, base, committed, results, run>>
  BY DEF engine
<1>3. GrowsAsSent'
  BY <1>2 DEF DerivedInv, GrowsAsSent, Succeeded
<1> QED
  BY <1>1, <1>2, <1>3 DEF ChainOf

LEMMA SimulateKeepsInv ==
  ASSUME DerivedInv, Simulate
  PROVE  DerivedInv'
<1> USE DEF DerivedInv
<1>1. /\ stage = "simulate" /\ Next
      /\ UNCHANGED <<run, stage, source, unchecked, dest, seen>>
  BY DEF Simulate
<1>2. EngineInv'
  BY <1>1, StepKeepsInv
<1>3. unchecked = {} /\ seen = {} /\ \A c \in Chains : dest[c] = None
  BY <1>1 DEF InStages
<1>4. DerivedTypes' /\ InStages' /\ SeenIsMerged' /\ MergedIsSeen'
  BY <1>1, <1>3 DEF DerivedTypes, InStages, SeenIsMerged, MergedIsSeen
<1>5. /\ UNCHANGED <<proposal, base>>
      /\ \/ UNCHANGED <<committed, results>>
         \/ \E r : Refused(r) \/ Accomplished(r)
  BY <1>1, StepOfAJob
<1>6. GrowsAsSent'
  <2>1. CASE UNCHANGED <<committed, results>>
    BY <1>1, <1>5, <2>1 DEF GrowsAsSent, Succeeded
  <2>2. ASSUME NEW r, Refused(r) \/ Accomplished(r) PROVE GrowsAsSent'
    <3>1. PICK k, p : k = Len(results) + 1 /\ p = proposal
      OBVIOUS
    <3>2. JobEnds(r) /\ Ends(r) /\ EngineTypes
      BY <2>2 DEF Refused, Accomplished, JobEnds, EngineInv
    <3>3. /\ Len(results') = k /\ r.job = k /\ k \in 1..Len(p)
          /\ DOMAIN results = 1..(k - 1) /\ DOMAIN results' = 1..k
          /\ \A n \in DOMAIN results : results'[n] = results[n]
          /\ results'[k] = r /\ proposal' = p /\ base' = base
          /\ p \in Seq(Job) /\ Len(results) = k - 1
      BY <3>1, <3>2, ResultsGrow DEF Ends, EngineTypes
    <3>4. ASSUME \A n \in DOMAIN results' : Succeeded(n)', NEW c \in Chains
          PROVE  committed'[c].effects = base[c].effects \o SentBy(p, c)[k]
      <4>1. Accomplished(r)
        <5>1. r.status = "success"
          BY <3>3, <3>4 DEF Succeeded
        <5> QED
          BY <2>2, <5>1 DEF Refused
      <4>2. \A n \in DOMAIN results : Succeeded(n)
        BY <3>3, <3>4 DEF Succeeded
      <4>3. PICK x, y, z, S : /\ x = base[c].effects /\ y = SentBy(p, c)[k - 1]
                              /\ z = SentAs(p, c, k) /\ S = Names \X Nat
        OBVIOUS
      <4>4. committed[c].effects = x \o y
        BY <3>1, <3>3, <4>2, <4>3 DEF GrowsAsSent
      <4>5. SentBy(p, c)[k] = y \o z /\ y \in Seq(S) /\ z \in Seq(S)
        <5>1. k - 1 \in 0..Len(p)
          BY <3>3
        <5> QED
          BY <3>3, <4>3, <5>1, SentGrows
      <4>6. x \in Seq(S)
        BY <3>2, <4>3, ChainStates DEF EngineTypes
      <4>7. committed'[c].effects = (x \o y) \o z
        <5>1. CASE c = p[k].chain
          BY <3>1, <3>3, <4>1, <4>3, <4>4, <5>1 DEF Accomplished, SentAs
        <5>2. CASE c # p[k].chain
          <6>1. committed'[c].effects = x \o y /\ z = <<>>
            BY <3>1, <3>3, <4>1, <4>3, <4>4, <5>2 DEF Accomplished, SentAs
          <6>2. x \o y \in Seq(S)
            BY <4>5, <4>6
          <6>3. PICK w : w = x \o y
            OBVIOUS
          <6>4. w \in Seq(S) => w \o <<>> = w
            OBVIOUS
          <6> QED
            BY <6>1, <6>2, <6>3, <6>4
        <5> QED
          BY <5>1, <5>2
      <4>8. (x \o y) \o z = x \o (y \o z)
        BY <4>5, <4>6, ConcatAssociative
      <4> QED
        BY <4>3, <4>5, <4>7, <4>8
    <3> QED
      BY <1>1, <3>3, <3>4 DEF GrowsAsSent
  <2> QED
    BY <1>5, <2>1, <2>2
<1> QED
  BY <1>2, <1>4, <1>6

LEMMA CheckSourceKeepsInv ==
  ASSUME DerivedInv, CheckSource
  PROVE  DerivedInv'
<1> USE DEF DerivedInv
<1>1. PICK found \in CheckRuns :
        /\ source' = found
        /\ seen' = {[chain |-> Source, call |-> <<0, 0>>, found |-> found]}
  BY DEF CheckSource
<1>2. /\ stage = "simulate" /\ pc \in {"done", "failed"}
      /\ unchecked' = CallsToCheck
      /\ stage' = IF CallsToCheck = {} THEN "report" ELSE "check"
      /\ UNCHANGED <<engine, run, dest>>
  BY DEF CheckSource
<1>3. /\ EngineInv' /\ GrowsAsSent' /\ UNCHANGED <<proposal, pc, results>>
  BY <1>2, EngineRests
<1>4. found \in [Checks -> Verdicts]
  BY DerivedAssumption
<1>5. ASSUME NEW call \in CallsToCheck
      PROVE  call[1] \in DOMAIN results /\ call \in Nat \X Nat
  <2>1. PICK n \in DOMAIN results : \E m \in DOMAIN results[n].steps : call = <<n, m>>
    BY DEF CallsToCheck
  <2>2. PICK m \in DOMAIN results[n].steps : call = <<n, m>>
    BY <2>1
  <2>3. results \in Seq(Result)
    BY DEF EngineInv, EngineTypes
  <2>4. n \in Nat /\ results[n] \in Result
    BY <2>3
  <2>5. m \in Nat
    BY <2>4 DEF Result
  <2> QED
    BY <2>1, <2>2, <2>4, <2>5
<1>6. DerivedTypes'
  BY <1>1, <1>2, <1>4, <1>5 DEF DerivedTypes
<1>7. InStages'
  BY <1>2, <1>3, <1>5 DEF InStages
<1>8. SeenIsMerged'
  BY <1>1 DEF SeenIsMerged
<1>9. MergedIsSeen'
  BY <1>1, <1>2 DEF MergedIsSeen, InStages
<1> QED
  BY <1>3, <1>6, <1>7, <1>8, <1>9

LEMMA CheckCallKeepsInv ==
  ASSUME DerivedInv, CheckCall
  PROVE  DerivedInv'
<1> USE DEF DerivedInv
<1>1. PICK c, call : c = ChainOf(NextCall[1]) /\ call = NextCall
  OBVIOUS
<1>2. PICK found \in CheckRuns :
        /\ dest' = [dest EXCEPT ![c] = IF @ = None THEN found ELSE Merge(@, found)]
        /\ seen' = seen \cup {[chain |-> c, call |-> call, found |-> found]}
  BY <1>1 DEF CheckCall
<1>3. /\ stage = "check" /\ unchecked' = unchecked \ {call}
      /\ stage' = IF unchecked' = {} THEN "report" ELSE "check"
      /\ UNCHANGED <<engine, run, source>>
  BY <1>1 DEF CheckCall, Rest
<1>4. /\ EngineInv' /\ GrowsAsSent' /\ UNCHANGED <<proposal, pc, results>>
      /\ \A n : ChainOf(n)' = ChainOf(n)
  BY <1>3, EngineRests
<1>5. call \in unchecked /\ call[1] \in DOMAIN results
  BY <1>1, <1>3, NextCallIsUnchecked DEF InStages, DerivedTypes
<1>6. c \in Chains
  BY <1>1, <1>5, ChainsOfResults
<1>7. found \in [Checks -> Verdicts] /\ None \notin [Checks -> Verdicts]
  BY DerivedAssumption
<1>8. PICK d : d = dest'[c]
  OBVIOUS
<1>9. /\ d = IF dest[c] = None THEN found ELSE Merge(dest[c], found)
      /\ \A e \in Chains : e # c => dest'[e] = dest[e]
      /\ DOMAIN dest' = Chains
  BY <1>2, <1>6, <1>8 DEF DerivedTypes
<1>10. dest[c] # None => dest[c] \in [Checks -> Verdicts]
  BY <1>6 DEF DerivedTypes
<1>11. /\ d \in [Checks -> Verdicts] /\ d # None
       /\ HasErrors(found) => HasErrors(d)
       /\ dest[c] # None /\ HasErrors(dest[c]) => HasErrors(d)
       /\ ~AllSkipped(d) => \/ ~AllSkipped(found)
                            \/ dest[c] # None /\ ~AllSkipped(dest[c])
  BY <1>7, <1>9, <1>10, MergeIsHonest
<1>12. DerivedTypes'
  <2>1. dest' \in [Chains -> [Checks -> Verdicts] \cup {None}]
    BY <1>2, <1>6, <1>7, <1>10, MergeIsHonest DEF DerivedTypes
  <2> QED
    BY <1>2, <1>3, <1>7, <2>1 DEF DerivedTypes
<1>13. InStages'
  BY <1>3, <1>4 DEF InStages
<1>14. SeenIsMerged'
  <2> SUFFICES ASSUME NEW x \in seen'
               PROVE  \/ x.chain = Source /\ x.found = source'
                      \/ /\ \E n \in DOMAIN results' : ChainOf(n)' = x.chain
                         /\ dest'[x.chain] # None
                         /\ HasErrors(x.found) => HasErrors(dest'[x.chain])
    BY DEF SeenIsMerged
  <2>1. CASE x \in seen
    <3>1. CASE x.chain = Source /\ x.found = source
      BY <1>3, <3>1
    <3>2. CASE /\ \E n \in DOMAIN results : ChainOf(n) = x.chain
               /\ dest[x.chain] # None
               /\ HasErrors(x.found) => HasErrors(dest[x.chain])
      <4>1. x.chain \in Chains
        BY <3>2, ChainsOfResults
      <4>2. \E n \in DOMAIN results' : ChainOf(n)' = x.chain
        BY <1>4, <3>2
      <4>3. CASE x.chain = c
        BY <1>8, <1>11, <3>2, <4>2, <4>3
      <4>4. CASE x.chain # c
        BY <1>9, <3>2, <4>1, <4>2, <4>4
      <4> QED
        BY <4>3, <4>4
    <3> QED
      BY <2>1, <3>1, <3>2 DEF SeenIsMerged
  <2>2. CASE x = [chain |-> c, call |-> call, found |-> found]
    BY <1>1, <1>4, <1>5, <1>8, <1>11, <2>2
  <2> QED
    BY <1>2, <2>1, <2>2
<1>15. MergedIsSeen'
  <2>1. \E x \in seen' : x.chain = Source /\ x.found = source'
    BY <1>2, <1>3 DEF MergedIsSeen
  <2>2. ASSUME NEW e \in Chains, dest'[e] # None, ~AllSkipped(dest'[e])
        PROVE  \E x \in seen' : x.chain = e /\ ~AllSkipped(x.found)
    <3>1. CASE dest[e] # None /\ ~AllSkipped(dest[e])
      BY <1>2, <3>1 DEF MergedIsSeen
    <3>2. CASE e = c /\ ~AllSkipped(found)
      <4>1. PICK x : x = [chain |-> c, call |-> call, found |-> found]
        OBVIOUS
      <4>2. x \in seen' /\ x.chain = c /\ x.found = found
        BY <1>2, <4>1
      <4> QED
        BY <3>2, <4>2
    <3> QED
      BY <1>8, <1>9, <1>11, <2>2, <3>1, <3>2
  <2> QED
    BY <2>1, <2>2 DEF MergedIsSeen
<1> QED
  BY <1>4, <1>12, <1>13, <1>14, <1>15

LEMMA RestKeepsInv ==
  ASSUME DerivedInv, CheckThrows \/ SkipDerived \/ UNCHANGED vars
  PROVE  DerivedInv'
<1> USE DEF DerivedInv
<1>1. /\ UNCHANGED <<engine, run, source, dest, seen>>
      /\ unchecked' \subseteq unchecked
      /\ stage = "simulate" <=> stage' = "simulate"
      /\ stage' \in {"simulate", "check", "report", "skip"}
      /\ stage' = "check" <=> unchecked' # {}
  BY DEF CheckThrows, SkipDerived, Rest, vars, InStages, DerivedTypes
<1>2. /\ EngineInv' /\ GrowsAsSent' /\ UNCHANGED <<proposal, pc, results>>
      /\ \A n : ChainOf(n)' = ChainOf(n)
  BY <1>1, EngineRests
<1>3. DerivedTypes' /\ InStages'
  BY <1>1, <1>2 DEF DerivedTypes, InStages
<1>4. SeenIsMerged' /\ MergedIsSeen'
  BY <1>1, <1>2 DEF SeenIsMerged, MergedIsSeen
<1> QED
  BY <1>2, <1>3, <1>4

\* What the gate lets through: every job of the predecessor succeeded, ...
LEMMA AllSucceeded ==
  ASSUME DerivedInv, stage = "report", GatePasses
  PROVE  /\ pc = "done" /\ queue = <<>> /\ cur = None
         /\ Len(results) = Len(proposal)
         /\ DOMAIN results = DOMAIN proposal
         /\ \A n \in DOMAIN results : Succeeded(n)
<1> USE DEF DerivedInv, EngineInv
<1>1. pc = "done"
  BY DEF InStages, GatePasses
<1>2. queue = <<>> /\ cur = None /\ queue = [n \in 1..(Len(proposal) - Begun) |-> Begun + n]
  BY <1>1 DEF InTurn
<1>3. PICK r, l : r = Len(results) /\ l = Len(proposal)
  OBVIOUS
<1>4. /\ r \in Nat /\ l \in Nat /\ r <= l /\ Begun = r
      /\ DOMAIN results = 1..r /\ DOMAIN proposal = 1..l
  BY <1>2, <1>3 DEF EngineTypes, InTurn, Begun
<1>5. r = l
  <2>1. queue = [n \in 1..(l - r) |-> r + n]
    BY <1>2, <1>3, <1>4
  <2>2. ASSUME r # l PROVE FALSE
    <3>1. 1 \in 1..(l - r)
      BY <1>4, <2>2
    <3>2. DOMAIN queue = 1..(l - r)
      BY <2>1
    <3>3. DOMAIN queue = {}
      BY <1>2
    <3> QED
      BY <3>1, <3>2, <3>3
  <2> QED
    BY <2>2
<1>6. ASSUME NEW n \in DOMAIN results PROVE Succeeded(n)
  <2>1. StatusesOn(ChainOf(n)) = {"success"}
    BY DEF GatePasses, ChainPasses
  <2>2. results[n].status \in StatusesOn(ChainOf(n))
    BY DEF StatusesOn
  <2> QED
    BY <2>1, <2>2 DEF Succeeded
<1> QED
  BY <1>1, <1>2, <1>3, <1>4, <1>5, <1>6

\* ... and left on each chain what the proposal sent to it.
LEMMA LeftIsSent ==
  ASSUME DerivedInv, stage = "report", run = "predecessor", GatePasses, NEW c \in Chains
  PROVE  committed[c].effects = Sent(c)
<1>1. /\ Len(results) = Len(proposal) /\ \A n \in DOMAIN results : Succeeded(n)
      /\ proposal \in Seq(Job) /\ Len(proposal) \in Nat
  BY AllSucceeded DEF DerivedInv, EngineInv, EngineTypes
<1>2. PICK s : s = SentBy(proposal, c)[Len(proposal)]
  OBVIOUS
<1>3. base[c].effects = <<>> /\ committed[c].effects = base[c].effects \o s
  BY <1>1, <1>2, ChainStates DEF DerivedInv, GrowsAsSent
<1>4. s \in Seq(Names \X Nat)
  <2>1. Len(proposal) \in 0..Len(proposal)
    BY <1>1
  <2> QED
    BY <1>1, <1>2, <2>1, SentGrows
<1>5. <<>> \o s = s
  BY <1>4
<1> QED
  BY <1>2, <1>3, <1>5 DEF Sent

LEMMA DeriveKeepsInv ==
  ASSUME DerivedInv, Derive
  PROVE  DerivedInv'
<1> USE DEF DerivedInv
<1>1. PICK p \in Dependents : Restart(p)
  BY DEF Derive
<1>2. PICK b : b = committed
  OBVIOUS
<1>3. /\ stage = "report" /\ GatePasses
      /\ run' = "dependent" /\ stage' = "simulate" /\ source' = None
      /\ dest' = [c \in Chains |-> None] /\ seen' = {} /\ unchecked' = unchecked
  BY DEF Derive
<1>4. pc = "done" /\ queue = <<>> /\ cur = None /\ msg = None /\ work = Fresh /\ steps = <<>>
  BY <1>3, AllSucceeded DEF EngineInv, AtRest
<1>5. Start(p, b)'
  BY <1>1, <1>2, <1>4 DEF Start, Restart
<1>6. b \in [Chains -> ChainState] /\ \A c \in Chains : ~b[c].stub
  BY <1>2 DEF EngineInv, EngineTypes, CommittedIsLeft
<1>7. EngineInv'
  <2>1. (Start(p, b) => EngineInv)'
    BY <1>6, RestartHasInv
  <2> QED
    BY <1>5, <2>1
<1>8. DerivedTypes' /\ InStages' /\ SeenIsMerged' /\ MergedIsSeen'
  BY <1>3 DEF DerivedTypes, InStages, SeenIsMerged, MergedIsSeen
<1>9. GrowsAsSent'
  <2> SUFFICES ASSUME NEW c \in Chains
               PROVE  committed'[c].effects =
                        base'[c].effects \o SentBy(proposal', c)[Len(results')]
    BY <1>3 DEF GrowsAsSent
  <2>1. proposal' = p /\ base' = b /\ committed' = b /\ results' = <<>>
    BY <1>5 DEF Start
  <2>2. SentBy(p, c)[0] = <<>>
    BY SentGrows, DerivedAssumption
  <2>3. PICK x : x = b[c].effects
    OBVIOUS
  <2>4. x \in Seq(Names \X Nat)
    BY <1>6, <2>3, ChainStates
  <2>5. x \o <<>> = x
    BY <2>4
  <2> QED
    BY <2>1, <2>2, <2>3, <2>5
<1> QED
  BY <1>7, <1>8, <1>9

THEOREM DerivedInvariant == DerivedSpec => []DerivedInv
<1>1. DerivedInit => DerivedInv
  <2> SUFFICES ASSUME DerivedInit PROVE DerivedInv
    OBVIOUS
  <2>1. PICK p \in Proposals : Start(p, [c \in Chains |-> Fresh])
    BY DEF DerivedInit, Init
  <2>2. /\ [c \in Chains |-> Fresh] \in [Chains -> ChainState]
        /\ \A d \in Chains : ~[c \in Chains |-> Fresh][d].stub
    BY ChainStates
  <2>3. EngineInv
    BY <2>1, <2>2, StartHasInv
  <2>4. DerivedTypes /\ InStages /\ SeenIsMerged /\ MergedIsSeen
    BY DEF DerivedInit, DerivedTypes, InStages, SeenIsMerged, MergedIsSeen
  <2>5. GrowsAsSent
    <3>1. /\ proposal = p /\ results = <<>> /\ p \in Seq(Job)
          /\ \A c \in Chains : base[c] = Fresh /\ committed[c] = Fresh
      BY <2>1, EngineAssumption DEF Start
    <3>2. \A c \in Chains : SentBy(p, c)[0] = <<>>
      BY <3>1, SentGrows
    <3>3. Len(results) = 0 /\ <<>> \o <<>> = <<>>
      BY <3>1
    <3>4. \A c \in Chains : committed[c].effects =
                              base[c].effects \o SentBy(proposal, c)[Len(results)]
      BY <3>1, <3>2, <3>3, ChainStates
    <3> QED
      BY <3>1, <3>4 DEF GrowsAsSent
  <2> QED
    BY <2>3, <2>4, <2>5 DEF DerivedInv
<1>2. DerivedInv /\ [DerivedNext]_vars => DerivedInv'
  <2> SUFFICES ASSUME DerivedInv, [DerivedNext]_vars PROVE DerivedInv'
    OBVIOUS
  <2> QED
    BY SimulateKeepsInv, CheckSourceKeepsInv, CheckCallKeepsInv, RestKeepsInv, DeriveKeepsInv
       DEF DerivedNext
<1> QED
  BY <1>1, <1>2, PTL DEF DerivedSpec

\* The calls of both runs see their past: that of a dependent proposal begins
\* with what its predecessor committed.
THEOREM DerivedCallsSeeTheirPast == DerivedSpec => [](CallsSeeTheirPast /\ SequenceIsCurrent)
<1>1. DerivedInv => CallsSeeTheirPast /\ SequenceIsCurrent
  BY InvImpliesPast, InvImpliesSequence DEF DerivedInv
<1> QED
  BY <1>1, DerivedInvariant, PTL

(***************************************************************************)
(* The gate is fail-closed, whatever the checks find, on however many calls*)
(* and in whichever order their results are merged.                        *)
(***************************************************************************)
THEOREM DerivedGateIsFailClosed == DerivedSpec => GateIsFailClosed
<1>1. ASSUME DerivedInv, [DerivedNext]_vars, run' # run
      PROVE  /\ pc # "failed"
             /\ \A x \in seen : ~HasErrors(x.found)
             /\ \A c \in {Source} \cup {proposal[n].chain : n \in DOMAIN proposal} :
                  \E x \in seen : x.chain = c /\ ~AllSkipped(x.found)
  <2> USE DEF DerivedInv
  <2>1. Derive
    BY <1>1 DEF DerivedNext, Simulate, CheckSource, CheckCall, CheckThrows, SkipDerived, vars
  <2>2. stage = "report" /\ GatePasses
    BY <2>1 DEF Derive
  <2>3. pc # "failed" /\ ChecksPass(source) /\ \A n \in DOMAIN results : ChainPasses(ChainOf(n))
    BY <2>2 DEF GatePasses
  <2>4. ASSUME NEW x \in seen PROVE ~HasErrors(x.found)
    BY <1>1, <2>3 DEF SeenIsMerged, ChainPasses, ChecksPass
  <2>5. \E x \in seen : x.chain = Source /\ ~AllSkipped(x.found)
    BY <1>1, <2>2, <2>3 DEF MergedIsSeen, ChecksPass
  <2>6. ASSUME NEW n \in DOMAIN proposal
        PROVE  \E x \in seen : x.chain = proposal[n].chain /\ ~AllSkipped(x.found)
    <3>1. n \in DOMAIN results
      BY <1>1, <2>2, AllSucceeded
    <3>2. ChainOf(n) = proposal[n].chain /\ ChainOf(n) \in Chains
      BY <1>1, <3>1, ChainsOfResults
    <3>3. dest[ChainOf(n)] # None /\ ~AllSkipped(dest[ChainOf(n)])
      BY <2>3, <3>1 DEF ChainPasses, ChecksPass
    <3> QED
      BY <1>1, <3>2, <3>3 DEF MergedIsSeen
  <2> QED
    BY <2>3, <2>4, <2>5, <2>6
<1> QED
  BY <1>1, DerivedInvariant, PTL DEF DerivedSpec, GateIsFailClosed

(***************************************************************************)
(* A dependent proposal starts from the whole predecessor, of any length,  *)
(* on every chain, and from nothing else.                                  *)
(***************************************************************************)
THEOREM DerivedBuildsOnPredecessor == DerivedSpec => DependentBuildsOnPredecessor
<1>1. ASSUME DerivedInv, [DerivedNext]_vars, run' # run
      PROVE  \A c \in Chains : base'[c].effects = Sent(c) /\ ~base'[c].stub
  <2>1. Derive
    BY <1>1 DEF DerivedNext, Simulate, CheckSource, CheckCall, CheckThrows, SkipDerived, vars
  <2>2. stage = "report" /\ run = "predecessor" /\ GatePasses /\ base' = committed
    BY <2>1 DEF Derive, Restart
  <2>3. \A c \in Chains : committed[c].effects = Sent(c)
    BY <1>1, <2>2, LeftIsSent
  <2>4. \A c \in Chains : ~committed[c].stub
    BY <1>1 DEF DerivedInv, EngineInv, CommittedIsLeft
  <2> QED
    BY <2>2, <2>3, <2>4
<1> QED
  BY <1>1, DerivedInvariant, PTL DEF DerivedSpec, DependentBuildsOnPredecessor
=============================================================================
