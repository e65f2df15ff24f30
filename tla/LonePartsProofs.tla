---------------------------- MODULE LonePartsProofs ----------------------------
(***************************************************************************)
(* Five components that share nothing with the others: the relay's rate    *)
(* limiter and the share button's, for any clients, window and allowance;  *)
(* the quotas of the simulation gateway, for any limits and any calls; the *)
(* publish through the CLI, for any number of executions; and the action   *)
(* page, for any reports, chains and clicks.                               *)
(***************************************************************************)
EXTENDS RateLimiter, ShareLinkLimiter, TracedCalls, CliPublisher, ActionPage,
        FiniteSetTheorems, NaturalsInduction, WellFoundedInduction, TLAPS
-----------------------------------------------------------------------------
(* RateLimiter: a bucket that counts knows exactly what its window has     *)
(* admitted, and the window before it admitted no more than the allowance. *)

Arrival == [client: Clients, at: Nat, ok: BOOLEAN, retryAfter: Nat]

\* Rounding up loses nothing.
LEMMA RoundedUp ==
  ASSUME NEW a \in Int, NEW d \in Nat \ {0}
  PROVE  /\ (a + d - 1) \div d \in Int
         /\ ((a + d - 1) \div d) * d >= a
<1>1. PICK b \in Int : b = a + d - 1
  OBVIOUS
<1>2. b \div d \in Int /\ b < (b \div d) * d + d
  BY SMTT(30)
<1>3. PICK q, x : q = b \div d /\ x = q * d
  OBVIOUS
<1>4. x \in Int
  BY <1>2, <1>3
<1>5. x >= a
  BY <1>1, <1>2, <1>3, <1>4
<1>6. QED
  BY <1>1, <1>2, <1>3, <1>5

\* The seconds of a refusal outlast the window that refused.
LEMMA RetryOutlasts ==
  ASSUME NEW bucket \in Bucket, NEW t \in Nat
  PROVE  /\ RetryAfter(bucket, t) \in Nat
         /\ bucket.start + Window <= t + RetryAfter(bucket, t) * MsPerSecond
<1>1. Window \in Nat /\ MsPerSecond \in Nat \ {0} /\ bucket.start \in Nat
  BY RateLimitAssumption DEF Bucket
<1>2. PICK left \in Int : left = Window - (t - bucket.start)
  BY <1>1
<1>3. PICK q : q = (left + MsPerSecond - 1) \div MsPerSecond
  OBVIOUS
<1>4. q \in Int /\ q * MsPerSecond >= left
  BY <1>1, <1>3, RoundedUp
<1>5. RetryAfter(bucket, t) = IF q < 1 THEN 1 ELSE q
  BY <1>2, <1>3 DEF RetryAfter
<1>6. CASE q < 1
  <2>1. q * MsPerSecond <= 0
    BY <1>1, <1>4, <1>6, SMTT(30)
  <2>2. left <= 0
    BY <1>1, <1>4, <2>1
  <2>3. QED
    BY <1>1, <1>2, <1>5, <1>6, <2>2
<1>7. CASE ~(q < 1)
  <2>1. q \in Nat /\ RetryAfter(bucket, t) = q
    BY <1>4, <1>5, <1>7
  <2>2. PICK x \in Int : x = q * MsPerSecond
    BY <1>1, <2>1
  <2>3. QED
    BY <1>1, <1>2, <1>4, <2>1, <2>2
<1>8. QED
  BY <1>6, <1>7

\* Pruning forgets only what has been over for a window's length.
LEMMA PrunedIsOver ==
  ASSUME NEW b \in [Clients -> Bucket], NEW t \in Nat, NEW c \in Clients
  PROVE  /\ Pruned(b, t) \in [Clients -> Bucket]
         /\ \/ Pruned(b, t)[c] = b[c]
            \/ /\ Pruned(b, t)[c] = NoBucket
               /\ t - b[c].start > 2 * Window
<1>1. NoBucket \in Bucket
  BY RateLimitAssumption DEF NoBucket, Bucket
<1>2. QED
  BY <1>1 DEF Pruned
-----------------------------------------------------------------------------
(* What the history says, as a function of it.                             *)

Admitted(l, c, S) == {n \in DOMAIN l : l[n].client = c /\ l[n].ok /\ l[n].at \in S}

Exact(l, c, k, s, t) ==
  /\ k = 0 => Admitted(l, c, (t - Window)..t) = {}
  /\ k > 0 =>
       /\ s <= t
       /\ Cardinality(Admitted(l, c, s..t)) = k
       /\ Admitted(l, c, s..t) = Admitted(l, c, s..(s + Window - 1))
       /\ Cardinality(Admitted(l, c, (s - Window)..(s - 1))) <= MaxRequests

Fits(l, c, x) ==
  Cardinality(Admitted(l, c, x..(x + Window - 1))) <= 2 * MaxRequests

Past(l, t) == \A n \in DOMAIN l : l[n].at <= t

LEMMA TimesAreNumbers ==
  ASSUME NEW l \in Seq(Arrival)
  PROVE  \A n \in DOMAIN l : l[n].at \in Nat
<1>1. ASSUME NEW n \in DOMAIN l
      PROVE  l[n].at \in Nat
  <2>1. l[n] \in Arrival
    OBVIOUS
  <2>2. QED
    BY <2>1 DEF Arrival
<1>2. QED
  BY <1>1

LEMMA AdmittedIsFinite ==
  ASSUME NEW E, NEW l \in Seq(E), NEW c, NEW S
  PROVE  /\ Admitted(l, c, S) \subseteq 1..Len(l)
         /\ IsFiniteSet(Admitted(l, c, S))
         /\ Cardinality(Admitted(l, c, S)) \in Nat
<1>1. Admitted(l, c, S) \subseteq 1..Len(l) /\ Len(l) \in Nat
  BY DEF Admitted
<1>2. IsFiniteSet(1..Len(l))
  BY <1>1, FS_Interval
<1>3. QED
  BY <1>1, <1>2, FS_Subset, FS_CardinalityType

LEMMA FewerAdmitted ==
  ASSUME NEW l \in Seq(Arrival), NEW c, NEW S, NEW T,
         Admitted(l, c, S) \subseteq Admitted(l, c, T)
  PROVE  Cardinality(Admitted(l, c, S)) <= Cardinality(Admitted(l, c, T))
BY AdmittedIsFinite, FS_Subset

Counts(e, c, S) == e.client = c /\ e.ok /\ e.at \in S

\* What one arrival adds to the admissions.
LEMMA AdmittedGrows ==
  ASSUME NEW E, NEW l \in Seq(E), NEW e \in E, NEW c, NEW S
  PROVE  /\ Counts(e, c, S) =>
              Cardinality(Admitted(Append(l, e), c, S)) = Cardinality(Admitted(l, c, S)) + 1
         /\ ~Counts(e, c, S) => Admitted(Append(l, e), c, S) = Admitted(l, c, S)
<1>1. PICK k : k = Append(l, e)
  OBVIOUS
<1>2. /\ DOMAIN k = DOMAIN l \cup {Len(l) + 1}
      /\ k[Len(l) + 1] = e
      /\ \A n \in DOMAIN l : k[n] = l[n]
  BY <1>1
<1>3. PICK A : A = Admitted(l, c, S)
  OBVIOUS
<1>4. IsFiniteSet(A) /\ Len(l) + 1 \notin A /\ Cardinality(A) \in Nat
  BY <1>3, AdmittedIsFinite
<1>5. Cardinality(A \cup {Len(l) + 1}) = Cardinality(A) + 1
  BY <1>4, FS_AddElement
<1>6. Counts(e, c, S) => Admitted(k, c, S) = A \cup {Len(l) + 1}
  BY <1>2, <1>3 DEF Admitted, Counts
<1>7. ~Counts(e, c, S) => Admitted(k, c, S) = A
  BY <1>2, <1>3 DEF Admitted, Counts
<1>8. QED
  BY <1>1, <1>3, <1>5, <1>6, <1>7

\* Time passes.
LEMMA ExactLater ==
  ASSUME NEW l \in Seq(Arrival), NEW c, NEW k \in Nat, NEW s \in Nat, NEW t \in Nat,
         Past(l, t), Exact(l, c, k, s, t)
  PROVE  Exact(l, c, k, s, t + 1)
<1>1. Window \in Nat
  BY RateLimitAssumption
<1>2. \A n \in DOMAIN l : l[n].at \in Nat /\ l[n].at <= t
  BY TimesAreNumbers DEF Past
<1>3. Admitted(l, c, s..(t + 1)) = Admitted(l, c, s..t)
  BY <1>2 DEF Admitted
<1>4. Admitted(l, c, (t + 1 - Window)..(t + 1)) \subseteq Admitted(l, c, (t - Window)..t)
  BY <1>1, <1>2 DEF Admitted
<1>5. QED
  BY <1>1, <1>3, <1>4 DEF Exact

\* A bucket that is pruned had nothing to say any more.
LEMMA ExactPruned ==
  ASSUME NEW l \in Seq(Arrival), NEW c, NEW k \in Nat, NEW s \in Nat, NEW t \in Nat,
         Past(l, t), Exact(l, c, k, s, t), t - s > 2 * Window
  PROVE  Exact(l, c, 0, 0, t)
<1>1. Window \in Nat
  BY RateLimitAssumption
<1>2. \A n \in DOMAIN l : l[n].at \in Nat /\ l[n].at <= t
  BY TimesAreNumbers DEF Past
<1>3. Admitted(l, c, (t - Window)..t) = {}
  <2>1. CASE k = 0
    BY <2>1 DEF Exact
  <2>2. CASE k > 0
    <3>1. Admitted(l, c, s..t) = Admitted(l, c, s..(s + Window - 1))
      BY <2>2 DEF Exact
    <3> SUFFICES ASSUME NEW n \in Admitted(l, c, (t - Window)..t)
                 PROVE  FALSE
      OBVIOUS
    <3>2. n \in DOMAIN l /\ l[n].at \in Nat /\ l[n].at >= t - Window /\ l[n].at <= t
      BY <1>1, <1>2 DEF Admitted
    <3>3. n \in Admitted(l, c, s..t)
      BY <1>1, <3>2 DEF Admitted
    <3>4. l[n].at <= s + Window - 1
      BY <3>1, <3>3 DEF Admitted
    <3>5. QED
      BY <1>1, <3>2, <3>4
  <2>3. QED
    BY <2>1, <2>2
<1>4. QED
  BY <1>3 DEF Exact

\* An admission opens a window, ...
LEMMA ExactOpened ==
  ASSUME NEW l \in Seq(Arrival), NEW c, NEW k \in 0..MaxRequests, NEW s \in Nat, NEW t \in Nat,
         Past(l, t), Exact(l, c, k, s, t), k = 0 \/ t - s >= Window,
         NEW e \in Arrival, e.client = c, e.ok, e.at = t
  PROVE  /\ Exact(Append(l, e), c, 1, t, t)
         /\ \A x \in Int : Fits(l, c, x) => Fits(Append(l, e), c, x)
<1>1. Window \in Nat \ {0} /\ MaxRequests \in Nat \ {0}
      /\ k \in Nat /\ k <= MaxRequests
  BY RateLimitAssumption
<1>2. \A n \in DOMAIN l : l[n].at \in Nat /\ l[n].at <= t
  BY TimesAreNumbers DEF Past
<1> DEFINE A == Admitted(l, c, (t - Window)..t)
           B == Admitted(l, c, t..t)
<1>3. Cardinality(A) <= MaxRequests /\ B = {}
  <2>0. Cardinality(A) \in Nat
    BY AdmittedIsFinite
  <2>1. CASE k = 0
    <3>1. A = {}
      BY <2>1 DEF Exact
    <3>2. B \subseteq A
      BY <1>1 DEF Admitted
    <3>3. Cardinality(A) = 0 /\ B = {}
      BY <3>1, <3>2, FS_EmptySet
    <3> HIDE DEF A, B
    <3>4. QED
      BY <1>1, <3>3
  <2>2. CASE k > 0
    <3>1. /\ Cardinality(Admitted(l, c, s..t)) = k /\ t - s >= Window
          /\ Admitted(l, c, s..t) = Admitted(l, c, s..(s + Window - 1))
      BY <2>2 DEF Exact
    <3>2. A \subseteq Admitted(l, c, s..t)
      BY <1>1, <3>1 DEF Admitted
    <3>3. Cardinality(A) <= k
      BY <3>1, <3>2, FewerAdmitted
    <3>4. ASSUME NEW n \in B
          PROVE  FALSE
      <4>1. n \in Admitted(l, c, s..t) /\ l[n].at = t
        BY <1>1, <3>1 DEF Admitted
      <4>2. l[n].at <= s + Window - 1
        BY <3>1, <4>1 DEF Admitted
      <4>3. QED
        BY <1>1, <3>1, <4>1, <4>2
    <3>5. B = {}
      BY <3>4
    <3> HIDE DEF A, B
    <3>6. QED
      BY <1>1, <2>0, <3>3, <3>5
  <2> HIDE DEF A, B
  <2>3. QED
    BY <1>1, <2>1, <2>2
<1>4. Cardinality(Admitted(Append(l, e), c, t..t)) = 1
  <2>1. Counts(e, c, t..t)
    BY DEF Counts
  <2>2. Cardinality(Admitted(l, c, t..t)) = 0
    BY <1>3, FS_EmptySet
  <2>3. QED
    BY <2>1, <2>2, AdmittedGrows
<1>5. Admitted(Append(l, e), c, t..t) = Admitted(Append(l, e), c, t..(t + Window - 1))
  <2>1. PICK m : m = Append(l, e)
    OBVIOUS
  <2>2. m \in Seq(Arrival) /\ \A n \in DOMAIN m : m[n].at \in Nat /\ m[n].at <= t
    <3>1. m \in Seq(Arrival)
      BY <2>1
    <3>2. \A n \in DOMAIN m : m[n] = e \/ (n \in DOMAIN l /\ m[n] = l[n])
      BY <2>1
    <3>3. QED
      BY <1>2, <3>1, <3>2
  <2>3. Admitted(m, c, t..t) = Admitted(m, c, t..(t + Window - 1))
    BY <1>1, <2>2 DEF Admitted
  <2>4. QED
    BY <2>1, <2>3
<1>6. Cardinality(Admitted(Append(l, e), c, (t - Window)..(t - 1))) <= MaxRequests
  <2>1. ~Counts(e, c, (t - Window)..(t - 1))
    BY <1>1 DEF Counts
  <2>2. Admitted(l, c, (t - Window)..(t - 1)) \subseteq Admitted(l, c, (t - Window)..t)
    BY <1>1 DEF Admitted
  <2>3. Cardinality(Admitted(l, c, (t - Window)..(t - 1))) <=
          Cardinality(Admitted(l, c, (t - Window)..t))
    BY <2>2, FewerAdmitted
  <2>4. QED
    BY <1>1, <1>3, <2>1, <2>3, AdmittedGrows, AdmittedIsFinite
<1>7. ASSUME NEW x \in Int, Fits(l, c, x)
      PROVE  Fits(Append(l, e), c, x)
  <2>1. CASE Counts(e, c, x..(x + Window - 1))
    <3>1. t - Window < x /\ x <= t
      BY <1>1, <2>1 DEF Counts
    <3>2. Admitted(l, c, x..(x + Window - 1)) \subseteq Admitted(l, c, (t - Window)..t)
      BY <1>1, <1>2, <3>1 DEF Admitted
    <3>3. Cardinality(Admitted(l, c, x..(x + Window - 1))) <=
            Cardinality(Admitted(l, c, (t - Window)..t))
      BY <3>2, FewerAdmitted
    <3>4. Cardinality(Admitted(Append(l, e), c, x..(x + Window - 1))) =
            Cardinality(Admitted(l, c, x..(x + Window - 1))) + 1
      BY <2>1, AdmittedGrows
    <3>5. QED
      BY <1>1, <1>3, <3>3, <3>4, AdmittedIsFinite DEF Fits
  <2>2. CASE ~Counts(e, c, x..(x + Window - 1))
    BY <1>7, <2>2, AdmittedGrows DEF Fits
  <2>3. QED
    BY <2>1, <2>2
<1>8. Exact(Append(l, e), c, 1, t, t)
  BY <1>4, <1>5, <1>6 DEF Exact
<1>9. QED
  BY <1>7, <1>8

\* ... or counts in the one that is open.
LEMMA ExactCharged ==
  ASSUME NEW l \in Seq(Arrival), NEW c, NEW k \in Nat, NEW s \in Nat, NEW t \in Nat,
         Past(l, t), Exact(l, c, k, s, t), 0 < k, k < MaxRequests, t - s < Window,
         NEW e \in Arrival, e.client = c, e.ok, e.at = t
  PROVE  /\ Exact(Append(l, e), c, k + 1, s, t)
         /\ \A x \in Int : Fits(l, c, x) => Fits(Append(l, e), c, x)
<1>1. Window \in Nat \ {0} /\ MaxRequests \in Nat \ {0} /\ s <= t
  BY RateLimitAssumption DEF Exact
<1>2. \A n \in DOMAIN l : l[n].at \in Nat /\ l[n].at <= t
  BY TimesAreNumbers DEF Past
<1>3. /\ Cardinality(Admitted(l, c, s..t)) = k
      /\ Cardinality(Admitted(l, c, (s - Window)..(s - 1))) <= MaxRequests
  BY DEF Exact
<1>4. Cardinality(Admitted(Append(l, e), c, s..t)) = k + 1
  <2>1. Counts(e, c, s..t)
    BY <1>1 DEF Counts
  <2>2. QED
    BY <1>3, <2>1, AdmittedGrows
<1>5. Admitted(Append(l, e), c, s..t) = Admitted(Append(l, e), c, s..(s + Window - 1))
  <2>1. PICK m : m = Append(l, e)
    OBVIOUS
  <2>2. m \in Seq(Arrival) /\ \A n \in DOMAIN m : m[n].at \in Nat /\ m[n].at <= t
    <3>1. m \in Seq(Arrival)
      BY <2>1
    <3>2. \A n \in DOMAIN m : m[n] = e \/ (n \in DOMAIN l /\ m[n] = l[n])
      BY <2>1
    <3>3. QED
      BY <1>2, <3>1, <3>2
  <2>3. Admitted(m, c, s..t) = Admitted(m, c, s..(s + Window - 1))
    BY <1>1, <2>2 DEF Admitted
  <2>4. QED
    BY <2>1, <2>3
<1>6. Cardinality(Admitted(Append(l, e), c, (s - Window)..(s - 1))) <= MaxRequests
  <2>1. ~Counts(e, c, (s - Window)..(s - 1))
    BY <1>1 DEF Counts
  <2>2. QED
    BY <1>3, <2>1, AdmittedGrows
<1>7. ASSUME NEW x \in Int, Fits(l, c, x)
      PROVE  Fits(Append(l, e), c, x)
  <2> DEFINE A == Admitted(l, c, x..(x + Window - 1))
             B == Admitted(l, c, (s - Window)..(s - 1))
             C == Admitted(l, c, s..t)
  <2>1. CASE Counts(e, c, x..(x + Window - 1))
    <3>1. t - Window < x /\ x <= t
      BY <1>1, <2>1 DEF Counts
    <3>2. A \subseteq B \cup C
      BY <1>1, <1>2, <3>1 DEF Admitted
    <3>3. /\ IsFiniteSet(A) /\ IsFiniteSet(B) /\ IsFiniteSet(C)
          /\ Cardinality(A) \in Nat /\ Cardinality(B) \in Nat /\ Cardinality(C) \in Nat
      BY AdmittedIsFinite
    <3>4. Cardinality(Admitted(Append(l, e), c, x..(x + Window - 1))) = Cardinality(A) + 1
      BY <2>1, AdmittedGrows
    <3> HIDE DEF A, B, C
    <3>5. /\ IsFiniteSet(B \cup C)
          /\ Cardinality(B \cup C) \in Nat
          /\ Cardinality(B \cup C) <= Cardinality(B) + Cardinality(C)
      <4>1. PICK b, d : b = B /\ d = C
        OBVIOUS
      <4>2. /\ IsFiniteSet(b \cup d)
            /\ Cardinality(b \cup d) = Cardinality(b) + Cardinality(d) - Cardinality(b \cap d)
        BY <3>3, <4>1, FS_Union
      <4>3. IsFiniteSet(b \cap d)
        BY <3>3, <4>1, FS_Intersection
      <4>4. Cardinality(b \cap d) \in Nat /\ Cardinality(b \cup d) \in Nat
        BY <4>2, <4>3, FS_CardinalityType
      <4>5. QED
        BY <3>3, <4>1, <4>2, <4>4
    <3>6. Cardinality(A) <= Cardinality(B \cup C)
      BY <3>2, <3>5, FS_Subset
    <3>7. Cardinality(B) <= MaxRequests /\ Cardinality(C) = k
      BY <1>3 DEF B, C
    <3>8. Cardinality(A) + 1 <= 2 * MaxRequests
      BY <1>1, <3>3, <3>5, <3>6, <3>7
    <3>9. QED
      BY <3>4, <3>8 DEF Fits
  <2>2. CASE ~Counts(e, c, x..(x + Window - 1))
    BY <1>7, <2>2, AdmittedGrows DEF Fits
  <2>3. QED
    BY <2>1, <2>2
<1>8. Exact(Append(l, e), c, k + 1, s, t)
  BY <1>1, <1>4, <1>5, <1>6 DEF Exact
<1>9. QED
  BY <1>7, <1>8

\* An arrival that is not an admission of c changes nothing for c.
LEMMA ExactForOthers ==
  ASSUME NEW l \in Seq(Arrival), NEW c, NEW k, NEW s, NEW t,
         NEW e \in Arrival, e.client # c \/ ~e.ok
  PROVE  /\ Exact(l, c, k, s, t) => Exact(Append(l, e), c, k, s, t)
         /\ \A x : Fits(l, c, x) => Fits(Append(l, e), c, x)
<1>1. ASSUME NEW S
      PROVE  Admitted(Append(l, e), c, S) = Admitted(l, c, S)
  BY AdmittedGrows DEF Counts
<1>2. QED
  BY <1>1 DEF Exact, Fits

\* A client is refused when its window is full.
LEMMA FullWhenRefused ==
  ASSUME NEW l \in Seq(Arrival), NEW c, NEW k \in Nat, NEW s \in Nat, NEW t \in Nat,
         Past(l, t), Exact(l, c, k, s, t), 0 < k, k >= MaxRequests, t - s < Window
  PROVE  Cardinality(Admitted(l, c, (t - Window + 1)..t)) >= MaxRequests
<1>1. Window \in Nat \ {0} /\ MaxRequests \in Nat
  BY RateLimitAssumption
<1>2. Admitted(l, c, s..t) \subseteq Admitted(l, c, (t - Window + 1)..t)
  BY <1>1 DEF Admitted
<1>3. Cardinality(Admitted(l, c, s..t)) = k
  BY DEF Exact
<1>4. k <= Cardinality(Admitted(l, c, (t - Window + 1)..t))
  BY <1>2, <1>3, FewerAdmitted
<1>5. Cardinality(Admitted(l, c, (t - Window + 1)..t)) \in Nat
  BY AdmittedIsFinite
<1>6. QED
  BY <1>1, <1>4, <1>5
-----------------------------------------------------------------------------
(* The invariant, as a function of the state.                              *)

RefusedFull(l, n) ==
  ~l[n].ok =>
    Cardinality({m \in Admitted(l, l[n].client, (l[n].at - Window + 1)..l[n].at) :
                   m < n}) >= MaxRequests

Honest(l, m, b) ==
  ~l[m].ok =>
    \/ \E p \in (m + 1)..Len(l) : l[p].client = l[m].client /\ l[p].ok
    \/ b[l[m].client].count = 0
    \/ b[l[m].client].start + Window <= l[m].at + l[m].retryAfter * MsPerSecond

Suffices(l, m, n) ==
  /\ m < n
  /\ l[m].client = l[n].client
  /\ ~l[m].ok /\ ~l[n].ok
  /\ l[n].at >= l[m].at + l[m].retryAfter * MsPerSecond
  => \E p \in (m + 1)..(n - 1) : l[p].client = l[n].client /\ l[p].ok

Holds(l, b, t) ==
  /\ t \in Nat /\ b \in [Clients -> Bucket] /\ l \in Seq(Arrival) /\ Past(l, t)
  /\ RateLimitEnabled =>
       /\ \A c \in Clients, x \in 0..MaxTime : Fits(l, c, x)
       /\ \A n \in DOMAIN l : RefusedFull(l, n)
       /\ \A c \in Clients : Exact(l, c, b[c].count, b[c].start, t)
  /\ \A m, n \in DOMAIN l : Suffices(l, m, n)
  /\ \A m \in DOMAIN l : Honest(l, m, b)

LEMMA InvHolds ==
  /\ LimiterInv <=> Holds(log, buckets, now)
  /\ LimiterInv' <=> Holds(log', buckets', now')
<1>1. LimiterInv <=> Holds(log, buckets, now)
  <2>1. LimiterTypes <=> /\ now \in Nat /\ buckets \in [Clients -> Bucket]
                         /\ log \in Seq(Arrival) /\ Past(log, now)
    BY DEF LimiterTypes, Arrival, Past
  <2>2. LimitIsExact <=> /\ \A c \in Clients, x \in 0..MaxTime : Fits(log, c, x)
                         /\ \A n \in DOMAIN log : RefusedFull(log, n)
    BY DEF LimitIsExact, Admissions, Fits, RefusedFull, Admitted
  <2>3. (\A c \in Clients : BucketIsExact(c)) <=>
          \A c \in Clients : Exact(log, c, buckets[c].count, buckets[c].start, now)
    BY DEF BucketIsExact, Exact, Admissions, Admitted
  <2>4. RetryAfterSuffices <=> \A m, n \in DOMAIN log : Suffices(log, m, n)
    BY DEF RetryAfterSuffices, Suffices
  <2>5. (\A m \in DOMAIN log : RefusalIsHonest(m)) <=>
          \A m \in DOMAIN log : Honest(log, m, buckets)
    BY DEF RefusalIsHonest, Honest
  <2>6. QED
    BY <2>1, <2>2, <2>3, <2>4, <2>5, Zenon DEF LimiterInv, Holds
<1>2. LimiterInv' <=> Holds(log', buckets', now')
  <2>1. LimiterTypes' <=> /\ now' \in Nat /\ buckets' \in [Clients -> Bucket]
                          /\ log' \in Seq(Arrival) /\ Past(log', now')
    BY DEF LimiterTypes, Arrival, Past
  <2>2. LimitIsExact' <=> /\ \A c \in Clients, x \in 0..MaxTime : Fits(log', c, x)
                          /\ \A n \in DOMAIN log' : RefusedFull(log', n)
    BY DEF LimitIsExact, Admissions, Fits, RefusedFull, Admitted
  <2>3. (\A c \in Clients : BucketIsExact(c))' <=>
          \A c \in Clients : Exact(log', c, buckets'[c].count, buckets'[c].start, now')
    BY DEF BucketIsExact, Exact, Admissions, Admitted
  <2>4. RetryAfterSuffices' <=> \A m, n \in DOMAIN log' : Suffices(log', m, n)
    BY DEF RetryAfterSuffices, Suffices
  <2>5. (\A m \in DOMAIN log : RefusalIsHonest(m))' <=>
          \A m \in DOMAIN log' : Honest(log', m, buckets')
    BY DEF RefusalIsHonest, Honest
  <2>6. QED
    BY <2>1, <2>2, <2>3, <2>4, <2>5, Zenon DEF LimiterInv, Holds
<1>3. QED
  BY <1>1, <1>2

LEMMA BucketFields ==
  ASSUME NEW x \in Bucket
  PROVE  x.count \in 0..MaxRequests /\ x.count \in Nat /\ x.start \in Nat
BY RateLimitAssumption DEF Bucket

LEMMA HoldsAtFirst == Holds(<<>>, [c \in Clients |-> NoBucket], 0)
<1>1. NoBucket \in Bucket /\ NoBucket.count = 0 /\ MaxRequests \in Nat
  BY RateLimitAssumption DEF NoBucket, Bucket
<1>2. PICK l : l = <<>>
  OBVIOUS
<1>3. l \in Seq(Arrival) /\ DOMAIN l = {}
  BY <1>2
<1>4. ASSUME NEW c, NEW S
      PROVE  Admitted(l, c, S) = {} /\ Cardinality(Admitted(l, c, S)) = 0
  <2>1. Admitted(l, c, S) = {}
    BY <1>3 DEF Admitted
  <2>2. QED
    BY <2>1, FS_EmptySet
<1>5. \A c, x : Fits(l, c, x)
  BY <1>1, <1>4 DEF Fits
<1>6. \A c \in Clients : Exact(l, c, NoBucket.count, NoBucket.start, 0)
  BY <1>1, <1>4 DEF Exact
<1>7. Holds(l, [c \in Clients |-> NoBucket], 0)
  BY <1>1, <1>3, <1>5, <1>6 DEF Holds, Past
<1>8. QED
  BY <1>2, <1>7

LEMMA HoldsLater ==
  ASSUME NEW l, NEW b, NEW t, Holds(l, b, t)
  PROVE  Holds(l, b, t + 1)
<1>1. t \in Nat /\ b \in [Clients -> Bucket] /\ l \in Seq(Arrival) /\ Past(l, t)
  BY DEF Holds
<1>2. Past(l, t + 1)
  BY <1>1, TimesAreNumbers DEF Past
<1>3. ASSUME NEW c \in Clients, Exact(l, c, b[c].count, b[c].start, t)
      PROVE  Exact(l, c, b[c].count, b[c].start, t + 1)
  <2>1. b[c].count \in Nat /\ b[c].start \in Nat
    BY <1>1, BucketFields
  <2>2. QED
    BY <1>1, <1>3, <2>1, ExactLater
<1>4. QED
  BY <1>1, <1>2, <1>3 DEF Holds

LEMMA HoldsPruned ==
  ASSUME NEW l, NEW b, NEW t, Holds(l, b, t)
  PROVE  Holds(l, Pruned(b, t), t)
<1>1. t \in Nat /\ b \in [Clients -> Bucket] /\ l \in Seq(Arrival) /\ Past(l, t)
  BY DEF Holds
<1>2. PICK p : p = Pruned(b, t)
  OBVIOUS
<1>3. \A c \in Clients : p[c] = b[c] \/ (p[c] = NoBucket /\ t - b[c].start > 2 * Window)
  BY <1>1, <1>2, PrunedIsOver
<1>4. p \in [Clients -> Bucket]
  <2>1. NoBucket \in Bucket
    BY RateLimitAssumption DEF NoBucket, Bucket
  <2>2. QED
    BY <1>1, <1>2, <2>1 DEF Pruned
<1>5. ASSUME NEW c \in Clients, Exact(l, c, b[c].count, b[c].start, t)
      PROVE  Exact(l, c, p[c].count, p[c].start, t)
  <2>1. b[c].count \in Nat /\ b[c].start \in Nat
    BY <1>1, BucketFields
  <2>2. CASE p[c] = b[c]
    BY <1>5, <2>2
  <2>3. CASE p[c] = NoBucket /\ t - b[c].start > 2 * Window
    <3>1. Exact(l, c, 0, 0, t)
      BY <1>1, <1>5, <2>1, <2>3, ExactPruned
    <3>2. p[c].count = 0 /\ p[c].start = 0
      BY <2>3 DEF NoBucket
    <3>3. QED
      BY <3>1, <3>2
  <2>4. QED
    BY <1>3, <2>2, <2>3
<1>6. ASSUME NEW m \in DOMAIN l, Honest(l, m, b)
      PROVE  Honest(l, m, p)
  <2>1. l[m].client \in Clients
    <3>1. l[m] \in Arrival
      BY <1>1
    <3>2. QED
      BY <3>1 DEF Arrival
  <2>2. p[l[m].client] = b[l[m].client] \/ p[l[m].client].count = 0
    BY <1>3, <2>1 DEF NoBucket
  <2>3. QED
    BY <1>6, <2>2 DEF Honest
<1>7. Holds(l, p, t)
  BY <1>1, <1>4, <1>5, <1>6 DEF Holds
<1>8. QED
  BY <1>2, <1>7

\* What history k keeps of history l when it ends with one more arrival.
Keeps(l, k, e, t) ==
  /\ k \in Seq(Arrival) /\ Past(k, t) /\ Len(k) = Len(l) + 1 /\ Len(l) \in Nat
  /\ k[Len(k)] = e /\ DOMAIN k = DOMAIN l \cup {Len(k)} /\ Len(k) \notin DOMAIN l
  /\ \A n \in DOMAIN l : k[n] = l[n] /\ (RefusedFull(l, n) => RefusedFull(k, n))
  /\ \A m, n \in DOMAIN l : Suffices(l, m, n) => Suffices(k, m, n)

LEMMA HistoryIsKept ==
  ASSUME NEW l \in Seq(Arrival), NEW e \in Arrival, NEW t \in Nat, Past(l, t), e.at = t,
         NEW k, k = Append(l, e)
  PROVE  Keeps(l, k, e, t)
<1>1. /\ k \in Seq(Arrival) /\ Len(k) = Len(l) + 1 /\ Len(l) \in Nat
      /\ k[Len(k)] = e /\ DOMAIN k = DOMAIN l \cup {Len(k)} /\ Len(k) \notin DOMAIN l
      /\ DOMAIN l = 1..Len(l)
      /\ \A n \in DOMAIN l : k[n] = l[n]
  OBVIOUS
<1>2. Past(k, t)
  BY <1>1 DEF Past
<1>3. ASSUME NEW n \in DOMAIN l, RefusedFull(l, n)
      PROVE  RefusedFull(k, n)
  <2>1. ASSUME NEW c, NEW S
        PROVE  {m \in Admitted(k, c, S) : m < n} = {m \in Admitted(l, c, S) : m < n}
    <3>1. \A m \in DOMAIN k : m < n => m \in DOMAIN l
      BY <1>1
    <3>2. QED
      BY <1>1, <3>1 DEF Admitted
  <2>2. k[n] = l[n]
    BY <1>1
  <2>3. QED
    BY <1>3, <2>1, <2>2 DEF RefusedFull
<1>4. ASSUME NEW m \in DOMAIN l, NEW n \in DOMAIN l, Suffices(l, m, n)
      PROVE  Suffices(k, m, n)
  <2>1. \A p \in (m + 1)..(n - 1) : p \in DOMAIN l
    BY <1>1
  <2>2. QED
    BY <1>1, <1>4, <2>1 DEF Suffices
<1>5. QED
  BY <1>1, <1>2, <1>3, <1>4 DEF Keeps

LEMMA HoldsAdmitted ==
  ASSUME NEW l, NEW b, NEW t, Holds(l, b, t), NEW c \in Clients, Admits(b[c], t),
         NEW e, e = [client |-> c, at |-> t, ok |-> TRUE, retryAfter |-> 0]
  PROVE  Holds(Append(l, e), [b EXCEPT ![c] = Charged(@, t)], t)
<1>1. t \in Nat /\ b \in [Clients -> Bucket] /\ l \in Seq(Arrival) /\ Past(l, t)
  BY DEF Holds
<1>2. PICK k, a : k = Append(l, e) /\ a = [b EXCEPT ![c] = Charged(@, t)]
  OBVIOUS
<1>3. e \in Arrival /\ e.client = c /\ e.at = t /\ e.ok
  BY <1>1 DEF Arrival
<1>4. /\ k \in Seq(Arrival) /\ Past(k, t) /\ Len(k) = Len(l) + 1 /\ Len(l) \in Nat
      /\ k[Len(k)] = e /\ DOMAIN k = DOMAIN l \cup {Len(k)} /\ Len(k) \notin DOMAIN l
      /\ \A n \in DOMAIN l : k[n] = l[n] /\ (RefusedFull(l, n) => RefusedFull(k, n))
      /\ \A m, n \in DOMAIN l : Suffices(l, m, n) => Suffices(k, m, n)
  <2>1. k = Append(l, e)
    BY <1>2
  <2>2. Keeps(l, k, e, t)
    BY <1>1, <1>3, <2>1, HistoryIsKept
  <2>3. QED
    BY <2>2 DEF Keeps
<1>5. /\ b[c] \in Bucket /\ b[c].count \in 0..MaxRequests /\ b[c].count \in Nat
      /\ b[c].start \in Nat /\ Window \in Nat \ {0} /\ MaxRequests \in Nat \ {0}
  BY <1>1, BucketFields, RateLimitAssumption
<1>6. Charged(b[c], t) \in Bucket
  <2>1. CASE ~RateLimitEnabled
    BY <1>5, <2>1 DEF Charged
  <2>2. CASE RateLimitEnabled /\ OpensWindow(b[c], t)
    <3>1. Charged(b[c], t) = [count |-> 1, start |-> t]
      BY <2>2 DEF Charged
    <3>2. QED
      BY <1>1, <1>5, <3>1 DEF Bucket
  <2>3. CASE RateLimitEnabled /\ ~OpensWindow(b[c], t)
    <3>1. Charged(b[c], t) = [b[c] EXCEPT !.count = @ + 1] /\ b[c].count < MaxRequests
      BY <2>3 DEF Charged, Admits
    <3>2. b[c].count + 1 \in 0..MaxRequests
      BY <1>5, <3>1
    <3>3. QED
      BY <1>5, <3>1, <3>2 DEF Bucket
  <2>4. QED
    BY <2>1, <2>2, <2>3
<1>7. /\ a \in [Clients -> Bucket]
      /\ \A d \in Clients : a[d] = IF d = c THEN Charged(b[c], t) ELSE b[d]
  BY <1>1, <1>2, <1>6
<1>8. ASSUME RateLimitEnabled
      PROVE  /\ \A d \in Clients, x \in 0..MaxTime : Fits(k, d, x)
             /\ \A n \in DOMAIN k : RefusedFull(k, n)
             /\ \A d \in Clients : Exact(k, d, a[d].count, a[d].start, t)
  <2>1. /\ \A d \in Clients, x \in 0..MaxTime : Fits(l, d, x)
        /\ \A n \in DOMAIN l : RefusedFull(l, n)
        /\ \A d \in Clients : Exact(l, d, b[d].count, b[d].start, t)
    BY <1>8 DEF Holds
  <2>2. \A n \in DOMAIN k : RefusedFull(k, n)
    <3>1. RefusedFull(k, Len(k))
      BY <1>3, <1>4 DEF RefusedFull
    <3>2. QED
      BY <1>4, <2>1, <3>1
  <2>3. ASSUME NEW d \in Clients, d # c
        PROVE  /\ Exact(k, d, a[d].count, a[d].start, t)
               /\ \A x \in 0..MaxTime : Fits(k, d, x)
    <3>1. a[d] = b[d]
      BY <1>7, <2>3
    <3>2. QED
      BY <1>1, <1>2, <1>3, <2>1, <2>3, <3>1, ExactForOthers
  <2>4. /\ Exact(k, c, a[c].count, a[c].start, t)
        /\ \A x \in Int : Fits(l, c, x) => Fits(k, c, x)
    <3>1. CASE OpensWindow(b[c], t)
      <4>1. a[c].count = 1 /\ a[c].start = t
        BY <1>7, <1>8, <3>1 DEF Charged
      <4>2. b[c].count = 0 \/ t - b[c].start >= Window
        BY <3>1 DEF OpensWindow
      <4>3. Exact(l, c, b[c].count, b[c].start, t)
        BY <2>1
      <4>4. /\ Exact(Append(l, e), c, 1, t, t)
            /\ \A x \in Int : Fits(l, c, x) => Fits(Append(l, e), c, x)
        BY <1>1, <1>3, <1>5, <4>2, <4>3, ExactOpened, Zenon
      <4>5. QED
        BY <1>2, <4>1, <4>4
    <3>2. CASE ~OpensWindow(b[c], t)
      <4>1. 0 < b[c].count /\ b[c].count < MaxRequests /\ t - b[c].start < Window
        BY <1>1, <1>5, <1>8, <3>2 DEF OpensWindow, Admits
      <4>2. a[c].count = b[c].count + 1 /\ a[c].start = b[c].start
        <5>1. a[c] = [b[c] EXCEPT !.count = @ + 1]
          BY <1>7, <1>8, <3>2 DEF Charged
        <5>2. QED
          BY <1>5, <5>1 DEF Bucket
      <4>3. Exact(l, c, b[c].count, b[c].start, t)
        BY <2>1
      <4>4. /\ Exact(Append(l, e), c, b[c].count + 1, b[c].start, t)
            /\ \A x \in Int : Fits(l, c, x) => Fits(Append(l, e), c, x)
        BY <1>1, <1>3, <1>5, <4>1, <4>3, ExactCharged, ZenonT(40)
      <4>5. QED
        BY <1>2, <4>2, <4>4
    <3>3. QED
      BY <3>1, <3>2
  <2>5. \A x \in 0..MaxTime : Fits(k, c, x)
    BY <2>1, <2>4
  <2>6. QED
    BY <2>2, <2>3, <2>4, <2>5
<1>9. \A m, n \in DOMAIN k : Suffices(k, m, n)
  <2> SUFFICES ASSUME NEW m \in DOMAIN k, NEW n \in DOMAIN k
               PROVE  Suffices(k, m, n)
    OBVIOUS
  <2>1. CASE m \in DOMAIN l /\ n \in DOMAIN l
    BY <1>4, <2>1 DEF Holds
  <2>2. CASE m = Len(k) \/ n = Len(k)
    BY <1>3, <1>4, <2>2 DEF Suffices
  <2>3. QED
    BY <1>4, <2>1, <2>2
<1>10. \A m \in DOMAIN k : Honest(k, m, a)
  <2> SUFFICES ASSUME NEW m \in DOMAIN k, ~k[m].ok
               PROVE  Honest(k, m, a)
    BY DEF Honest
  <2>1. m \in DOMAIN l /\ k[m] = l[m] /\ m \in 1..Len(l) /\ l[m].client \in Clients
    <3>1. m \in DOMAIN l /\ k[m] = l[m]
      BY <1>3, <1>4
    <3>2. l[m] \in Arrival
      BY <1>1, <3>1
    <3>3. QED
      BY <1>1, <3>1, <3>2 DEF Arrival
  <2>2. CASE l[m].client = c
    <3>1. Len(k) \in (m + 1)..Len(k)
      BY <1>4, <2>1
    <3>2. QED
      BY <1>3, <1>4, <2>1, <2>2, <3>1 DEF Honest
  <2>3. CASE l[m].client # c
    <3>1. a[l[m].client] = b[l[m].client]
      BY <1>7, <2>1, <2>3
    <3>2. Honest(l, m, b)
      BY <2>1 DEF Holds
    <3>3. \A p \in (m + 1)..Len(l) : p \in DOMAIN l /\ p \in (m + 1)..Len(k)
      BY <1>1, <1>4, <2>1
    <3>4. QED
      BY <1>4, <2>1, <3>1, <3>2, <3>3 DEF Honest
  <2>4. QED
    BY <2>2, <2>3
<1>11. Holds(k, a, t)
  BY <1>1, <1>4, <1>7, <1>8, <1>9, <1>10 DEF Holds
<1>12. QED
  BY <1>2, <1>11

LEMMA HoldsRefused ==
  ASSUME NEW l, NEW b, NEW t, Holds(l, b, t), NEW c \in Clients, ~Admits(b[c], t),
         NEW e, e = [client |-> c, at |-> t, ok |-> FALSE, retryAfter |-> RetryAfter(b[c], t)]
  PROVE  Holds(Append(l, e), b, t)
<1>1. t \in Nat /\ b \in [Clients -> Bucket] /\ l \in Seq(Arrival) /\ Past(l, t)
  BY DEF Holds
<1>2. PICK k : k = Append(l, e)
  OBVIOUS
<1>3. /\ b[c] \in Bucket /\ b[c].count \in 0..MaxRequests /\ b[c].count \in Nat
      /\ b[c].start \in Nat /\ Window \in Nat \ {0} /\ MaxRequests \in Nat \ {0}
      /\ MsPerSecond \in Nat
  BY <1>1, BucketFields, RateLimitAssumption
<1>4. PICK q : q = RetryAfter(b[c], t)
  OBVIOUS
<1>5. q \in Nat /\ b[c].start + Window <= t + q * MsPerSecond
  BY <1>1, <1>3, <1>4, RetryOutlasts
<1>6. e \in Arrival /\ e.client = c /\ e.at = t /\ e.ok = FALSE /\ e.retryAfter = q
  BY <1>1, <1>4, <1>5 DEF Arrival
<1>7. /\ k \in Seq(Arrival) /\ Past(k, t) /\ Len(k) = Len(l) + 1 /\ Len(l) \in Nat
      /\ k[Len(k)] = e /\ DOMAIN k = DOMAIN l \cup {Len(k)} /\ Len(k) \notin DOMAIN l
      /\ \A n \in DOMAIN l : k[n] = l[n] /\ (RefusedFull(l, n) => RefusedFull(k, n))
      /\ \A m, n \in DOMAIN l : Suffices(l, m, n) => Suffices(k, m, n)
  <2>1. Keeps(l, k, e, t)
    BY <1>1, <1>2, <1>6, HistoryIsKept
  <2>2. QED
    BY <2>1 DEF Keeps
<1>8. /\ RateLimitEnabled /\ 0 < b[c].count /\ b[c].count >= MaxRequests
      /\ t - b[c].start < Window
  BY <1>1, <1>3 DEF Admits, OpensWindow
<1>9. /\ \A d \in Clients, x \in 0..MaxTime : Fits(k, d, x)
      /\ \A d \in Clients : Exact(k, d, b[d].count, b[d].start, t)
  BY <1>1, <1>2, <1>6, <1>8, ExactForOthers DEF Holds
<1>10. \A n \in DOMAIN k : RefusedFull(k, n)
  <2>1. RefusedFull(k, Len(k))
    <3>1. PICK S : S = (t - Window + 1)..t
      OBVIOUS
    <3>2. Cardinality(Admitted(l, c, S)) >= MaxRequests
      BY <1>1, <1>3, <1>8, <3>1, FullWhenRefused DEF Holds
    <3>3. Admitted(k, c, S) = Admitted(l, c, S)
      BY <1>1, <1>2, <1>6, AdmittedGrows DEF Counts
    <3>4. Admitted(l, c, S) \subseteq 1..Len(l)
      BY <1>1, AdmittedIsFinite
    <3>5. {m \in Admitted(k, c, S) : m < Len(k)} = Admitted(l, c, S)
      BY <1>7, <3>3, <3>4
    <3>6. QED
      BY <1>6, <1>7, <3>1, <3>2, <3>5 DEF RefusedFull
  <2>2. QED
    BY <1>7, <1>8, <2>1 DEF Holds
<1>11. \A m \in DOMAIN k : Honest(k, m, b)
  <2>1. Honest(k, Len(k), b)
    BY <1>5, <1>6, <1>7 DEF Honest
  <2>2. ASSUME NEW m \in DOMAIN l
        PROVE  Honest(k, m, b)
    <3>1. Honest(l, m, b) /\ k[m] = l[m] /\ m \in 1..Len(l)
      BY <1>1, <1>7 DEF Holds
    <3>2. \A p \in (m + 1)..Len(l) : p \in DOMAIN l /\ p \in (m + 1)..Len(k)
      BY <1>1, <1>7, <3>1
    <3>3. QED
      BY <1>7, <3>1, <3>2 DEF Honest
  <2>3. QED
    BY <1>7, <2>1, <2>2
<1>12. \A m, n \in DOMAIN k : Suffices(k, m, n)
  <2> SUFFICES ASSUME NEW m \in DOMAIN k, NEW n \in DOMAIN k
               PROVE  Suffices(k, m, n)
    OBVIOUS
  <2>1. CASE m \in DOMAIN l /\ n \in DOMAIN l
    BY <1>7, <2>1 DEF Holds
  <2>2. CASE m = Len(k)
    BY <1>7, <2>2 DEF Suffices
  <2>3. CASE m \in DOMAIN l /\ n = Len(k)
    <3> SUFFICES ASSUME k[m].client = c, ~k[m].ok,
                        t >= k[m].at + k[m].retryAfter * MsPerSecond
                 PROVE  \E p \in (m + 1)..(n - 1) : k[p].client = c /\ k[p].ok
      BY <1>6, <1>7, <2>3 DEF Suffices
    <3>1. Honest(l, m, b) /\ k[m] = l[m] /\ m \in 1..Len(l)
      BY <1>1, <1>7, <2>3 DEF Holds
    <3>2. PICK y : y = l[m].at + l[m].retryAfter * MsPerSecond
      OBVIOUS
    <3>3. l[m].at \in Nat /\ l[m].retryAfter \in Nat
      <4>1. l[m] \in Arrival
        BY <1>1, <2>3
      <4>2. QED
        BY <4>1 DEF Arrival
    <3>4. y \in Int /\ t >= y
      BY <1>3, <3>1, <3>2, <3>3
    <3>5. ~(b[c].start + Window <= y)
      BY <1>1, <1>3, <1>8, <3>4
    <3>6. PICK p \in (m + 1)..Len(l) : l[p].client = c /\ l[p].ok
      BY <1>8, <3>1, <3>2, <3>5 DEF Honest
    <3>7. p \in DOMAIN l /\ p \in (m + 1)..(n - 1)
      BY <1>1, <1>7, <2>3, <3>1, <3>6
    <3>8. QED
      BY <1>7, <3>6, <3>7
  <2>4. QED
    BY <1>7, <2>1, <2>2, <2>3
<1>13. Holds(k, b, t)
  BY <1>1, <1>7, <1>9, <1>10, <1>11, <1>12 DEF Holds
<1>14. QED
  BY <1>2, <1>13

LEMMA LimiterStep == LimiterInv /\ [Next]_vars => LimiterInv'
<1> SUFFICES ASSUME LimiterInv, [Next]_vars
             PROVE  Holds(log', buckets', now')
  BY InvHolds
<1>1. Holds(log, buckets, now)
  BY InvHolds
<1>2. CASE Tick
  <2>1. log' = log /\ buckets' = buckets /\ now' = now + 1
    BY <1>2 DEF Tick
  <2>2. QED
    BY <1>1, <2>1, HoldsLater
<1>3. ASSUME NEW c \in Clients, Request(c)
      PROVE  Holds(log', buckets', now')
  <2>1. PICK l, p, t : l = log /\ t = now /\ p = Pruned(buckets, now)
    OBVIOUS
  <2>2. Holds(l, p, t) /\ now' = t /\ p \in [Clients -> Bucket]
    <3>1. Holds(l, p, t) /\ now' = t
      BY <1>1, <1>3, <2>1, HoldsPruned DEF Request
    <3>2. QED
      BY <3>1 DEF Holds
  <2>3. CASE Admits(p[c], t)
    <3>1. PICK e : e = [client |-> c, at |-> t, ok |-> TRUE, retryAfter |-> 0]
      OBVIOUS
    <3>2. log' = Append(l, e) /\ buckets' = [p EXCEPT ![c] = Charged(@, t)]
      BY <1>3, <2>1, <2>3, <3>1 DEF Request
    <3>3. QED
      BY <2>2, <2>3, <3>1, <3>2, HoldsAdmitted
  <2>4. CASE ~Admits(p[c], t)
    <3>1. PICK e : e = [client |-> c, at |-> t, ok |-> FALSE,
                        retryAfter |-> RetryAfter(p[c], t)]
      OBVIOUS
    <3>2. log' = Append(l, e) /\ buckets' = p
      BY <1>3, <2>1, <2>4, <3>1 DEF Request
    <3>3. QED
      BY <2>2, <2>4, <3>1, <3>2, HoldsRefused
  <2>5. QED
    BY <2>3, <2>4
<1>4. CASE UNCHANGED vars
  BY <1>1, <1>4 DEF vars
<1>5. QED
  BY <1>2, <1>3, <1>4 DEF Next

LEMMA LimiterInvHolds == Spec => []LimiterInv
<1>1. Init => LimiterInv
  BY HoldsAtFirst, InvHolds DEF Init
<1>2. QED
  BY <1>1, LimiterStep, PTL DEF Spec

(***************************************************************************)
(* ensureRateLimitAllowance with any window, allowance and threshold for   *)
(* pruning: where the limit is on, no stretch of a window's length holds   *)
(* more than twice a client's allowance, and nobody is refused who has not *)
(* had it in full.                                                         *)
(***************************************************************************)
THEOREM LimiterIsExact ==
  ASSUME RateLimitEnabled
  PROVE  Spec => []LimitIsExact
<1>1. LimiterInv => LimitIsExact
  BY DEF LimiterInv
<1>2. QED
  BY <1>1, LimiterInvHolds, PTL

(***************************************************************************)
(* A client that waits as its refusal tells is refused again only if       *)
(* another of its requests took the new window's allowance meanwhile.      *)
(***************************************************************************)
THEOREM LimiterRetryAfterSuffices == Spec => []RetryAfterSuffices
<1>1. LimiterInv => RetryAfterSuffices
  BY DEF LimiterInv
<1>2. QED
  BY <1>1, LimiterInvHolds, PTL
-----------------------------------------------------------------------------
(* CliPublisher: an execution's record is SoundDeploy, and each step of it *)
(* keeps it so.                                                            *)

\* A deadline that has passed has reached the command, and an exit code is
\* that of a command that has ended.
SoundDeploy(r) ==
  /\ r.pc = "idle" => r = NewDeploy
  /\ r.code # "none" <=> r.child = "ended"
  /\ r.code = "zero" => r.up
  /\ r.seen => r.child = "ended"
  /\ r.timer = "fired" => r.killed \/ r.child # "runs"
  /\ (r.pc = "answered" /\ ~r.unready) => ~r.dir
  /\ (r.child = "runs" /\ ~r.killed) => r.pc = "running" /\ r.dir
  /\ r.answer = "published" => r.code = "zero"
  /\ r.pc = "running" => r.answer = "none"

CliInv == CliTypeOK /\ \A d \in Execs : SoundDeploy(deploy[d])

\* A step of one execution keeps CliInv if its new record is sound.
LEMMA OneDeployChanges ==
  ASSUME CliInv, NEW d \in Execs, NEW r \in Deploys, SoundDeploy(r), Becomes(d, r)
  PROVE  CliInv'
<1>1. CliTypeOK'
  BY DEF CliInv, CliTypeOK, Becomes
<1>2. \A e \in Execs : SoundDeploy(deploy'[e])
  <2>1. TAKE e \in Execs
  <2>2. deploy'[e] = IF e = d THEN r ELSE deploy[e]
    BY DEF CliInv, CliTypeOK, Becomes
  <2> QED
    BY <2>2 DEF CliInv
<1> QED
  BY <1>1, <1>2 DEF CliInv, SoundDeploy, NewDeploy

\* What settles the race leaves a sound record behind.
LEMMA WhatHappensKeepsCliInv ==
  ASSUME CliInv, NEW d \in Execs, NEW r \in Deploys, SoundDeploy(r), r.pc = "running",
         Happens(d, r)
  PROVE  CliInv'
<1>1. CASE Completed(r) \/ TimedOut(r)
  <2> DEFINE s == [r EXCEPT !.pc = "answered", !.answer = Outcome(r),
                            !.dir = FALSE]
  <2>1. Outcome(r) \in {"published", "timeout", "failed"}
    BY DEF Outcome
  <2>2. s \in Deploys
    BY <2>1 DEF Deploys
  <2>3. r.child = "runs" => r.killed
    BY <1>1 DEF Completed, TimedOut, SoundDeploy
  <2>4. Outcome(r) = "published" => r.code = "zero"
    BY DEF Outcome
  <2>5. SoundDeploy(s)
    BY <2>3, <2>4 DEF SoundDeploy, Deploys
  <2>6. Becomes(d, s)
    BY <1>1 DEF Happens
  <2> QED
    BY <2>2, <2>5, <2>6, OneDeployChanges
<1>2. CASE ~(Completed(r) \/ TimedOut(r))
  BY <1>2, OneDeployChanges DEF Happens
<1> QED
  BY <1>1, <1>2

LEMMA CliInitIsSound == CliInit => CliInv
BY DEF CliInit, CliInv, CliTypeOK, Deploys, ExitCodes, SoundDeploy, NewDeploy

\* The relay's own steps.
LEMMA RelayStepsKeepCliInv ==
  ASSUME CliInv, NEW d \in Execs,
         \/ Misconfigured(d) \/ PreparationFails(d) \/ CliMissing(d)
         \/ Spawn(d) \/ ExitSeen(d) \/ TimerFires(d)
         \/ \E p \in Pipes : PipeEnds(d, p)
  PROVE  CliInv'
<1>0. deploy[d] \in Deploys /\ SoundDeploy(deploy[d])
  BY DEF CliInv, CliTypeOK
<1>1. CASE Misconfigured(d) \/ CliMissing(d)
  <2> DEFINE r == [deploy[d] EXCEPT !.pc = "answered", !.answer = "failed"]
  <2>1. r \in Deploys
    BY <1>0 DEF Deploys
  <2>2. SoundDeploy(r)
    BY <1>0, <1>1 DEF Misconfigured, CliMissing, SoundDeploy, NewDeploy
  <2> QED
    BY <1>1, <2>1, <2>2, OneDeployChanges DEF Misconfigured, CliMissing
<1>2. CASE PreparationFails(d)
  <2> DEFINE r == [deploy[d] EXCEPT !.pc = "answered", !.answer = "failed",
                                    !.dir = TRUE, !.unready = TRUE]
  <2>1. r \in Deploys
    BY <1>0 DEF Deploys
  <2>2. SoundDeploy(r)
    BY <1>0, <1>2 DEF PreparationFails, SoundDeploy, NewDeploy
  <2> QED
    BY <1>2, <2>1, <2>2, OneDeployChanges DEF PreparationFails
<1>3. CASE Spawn(d)
  <2> DEFINE r == [deploy[d] EXCEPT !.pc = "running", !.dir = TRUE,
                                    !.child = "runs", !.open = Pipes,
                                    !.timer = "set"]
  <2>1. r \in Deploys
    BY <1>0 DEF Deploys
  <2>2. SoundDeploy(r)
    BY <1>0, <1>3 DEF Spawn, SoundDeploy, NewDeploy
  <2> QED
    BY <1>3, <2>1, <2>2, OneDeployChanges DEF Spawn
<1>4. CASE ExitSeen(d)
  <2> DEFINE r == [deploy[d] EXCEPT !.seen = TRUE]
  <2>1. r \in Deploys /\ r.pc = "running"
    BY <1>0, <1>4 DEF Deploys, ExitSeen
  <2>2. SoundDeploy(r)
    BY <1>0, <1>4 DEF ExitSeen, SoundDeploy, Deploys
  <2> QED
    BY <1>4, <2>1, <2>2, WhatHappensKeepsCliInv DEF ExitSeen
<1>5. CASE TimerFires(d)
  <2> DEFINE r == [deploy[d] EXCEPT !.timer = "fired",
                                    !.killed = deploy[d].child = "runs"]
  <2>1. r \in Deploys /\ r.pc = "running"
    BY <1>0, <1>5 DEF Deploys, TimerFires
  <2>2. SoundDeploy(r)
    BY <1>0, <1>5 DEF TimerFires, SoundDeploy, Deploys
  <2> QED
    BY <1>5, <2>1, <2>2, WhatHappensKeepsCliInv DEF TimerFires
<1>6. ASSUME NEW p \in Pipes, PipeEnds(d, p)
      PROVE  CliInv'
  <2> DEFINE r == [deploy[d] EXCEPT !.open = @ \ {p}]
  <2>1. r \in Deploys /\ r.pc = "running"
    BY <1>0, <1>6 DEF Deploys, PipeEnds
  <2>2. SoundDeploy(r)
    BY <1>0, <1>6 DEF PipeEnds, SoundDeploy, Deploys
  <2> QED
    BY <1>6, <2>1, <2>2, WhatHappensKeepsCliInv DEF PipeEnds
<1> QED
  BY <1>1, <1>2, <1>3, <1>4, <1>5, <1>6

\* The command's steps.
LEMMA CommandKeepsCliInv ==
  ASSUME CliInv, NEW d \in Execs, GoesLive(d) \/ Prints(d) \/ Exits(d)
  PROVE  CliInv'
<1>0. deploy[d] \in Deploys /\ SoundDeploy(deploy[d])
  BY DEF CliInv, CliTypeOK
<1>1. CASE GoesLive(d)
  <2> DEFINE r == [deploy[d] EXCEPT !.up = TRUE]
  <2>1. r \in Deploys
    BY <1>0 DEF Deploys
  <2>2. SoundDeploy(r)
    BY <1>0, <1>1 DEF GoesLive, SoundDeploy, Deploys, NewDeploy
  <2> QED
    BY <1>1, <2>1, <2>2, OneDeployChanges DEF GoesLive
<1>2. ASSUME Prints(d)
      PROVE  CliInv'
  <2>1. PICK l \in {"other", "deployment"} :
          Becomes(d, [deploy[d] EXCEPT !.link = l])
    BY <1>2 DEF Prints
  <2> DEFINE r == [deploy[d] EXCEPT !.link = l]
  <2>2. r \in Deploys
    BY <1>0 DEF Deploys
  <2>3. SoundDeploy(r)
    BY <1>0, <1>2 DEF Prints, SoundDeploy, Deploys, NewDeploy
  <2> QED
    BY <2>1, <2>2, <2>3, OneDeployChanges
<1>3. ASSUME Exits(d)
      PROVE  CliInv'
  <2>1. PICK c \in {"zero", "error", "signal"} :
          /\ c = "zero" => deploy[d].up
          /\ Becomes(d, [deploy[d] EXCEPT !.child = "ended", !.code = c])
    BY <1>3 DEF Exits
  <2> DEFINE r == [deploy[d] EXCEPT !.child = "ended", !.code = c]
  <2>2. r \in Deploys
    BY <1>0 DEF Deploys, ExitCodes
  <2>3. SoundDeploy(r)
    BY <1>0, <1>3, <2>1 DEF Exits, SoundDeploy, Deploys, NewDeploy
  <2> QED
    BY <2>1, <2>2, <2>3, OneDeployChanges
<1> QED
  BY <1>1, <1>2, <1>3

LEMMA CliNextKeepsInv == CliInv /\ [CliNext]_deploy => CliInv'
<1> SUFFICES ASSUME CliInv, [CliNext]_deploy
             PROVE  CliInv'
  OBVIOUS
<1>1. CASE CliNext
  BY <1>1, RelayStepsKeepCliInv, CommandKeepsCliInv DEF CliNext
<1>2. CASE UNCHANGED deploy
  BY <1>2 DEF CliInv, CliTypeOK, SoundDeploy
<1> QED
  BY <1>1, <1>2

LEMMA CliInvHolds == CliSpec => []CliInv
BY CliInitIsSound, CliNextKeepsInv, PTL DEF CliSpec

\* For any number of executions, and however their commands end: the directory
\* of an answered publish is gone, no command runs on that nobody has told to
\* stop, and an address is answered only for a deployment that is up.
THEOREM CliAnsweredIsDone == CliSpec => []AnsweredIsDone
<1>1. CliInv => AnsweredIsDone
  BY DEF CliInv, SoundDeploy, AnsweredIsDone
<1> QED
  BY <1>1, CliInvHolds, PTL
-----------------------------------------------------------------------------
(* ActionPage, however the report and the wallet change between a click    *)
(* and its signature: a click's record is SoundJob.                        *)

\* What a click holds is what was clicked, for the action that report allowed.
HoldsWhatWasClicked(r) ==
  r.pc # "unused" =>
    /\ r.clicked \in Reports
    /\ r.data = r.clicked
    /\ r.kind = Action(r.clicked)
    /\ r.kind \in {"propose", "execute"}

SignedFor(r) == r.tx # None => r.tx = Signed(r.clicked, Action(r.clicked))

SoundJob(r) ==
  /\ HoldsWhatWasClicked(r)
  /\ SignedFor(r)
  /\ r.pc \in {"unused", "switching", "signing"} => r.tx = None

PageInv == PageTypeOK /\ \A j \in Jobs : SoundJob(job[j])

\* A step of one job keeps PageInv if its new record is sound.
LEMMA OneJobChanges ==
  ASSUME PageInv, NEW j \in Jobs, NEW r \in JobRecords, SoundJob(r), JobBecomes(j, r),
         shown' \in Reports \cup {None}, wallet' \in Chains \cup {None},
         visit' = visit
  PROVE  PageInv'
<1>1. PageTypeOK'
  BY DEF PageInv, PageTypeOK, JobBecomes
<1>2. \A i \in Jobs : job'[i] = IF i = j THEN r ELSE job[i]
  BY DEF PageInv, PageTypeOK, JobBecomes
<1>3. \A i \in Jobs : SoundJob(job'[i])
  BY <1>2 DEF PageInv
<1> QED
  BY <1>1, <1>3 DEF PageInv, SoundJob, HoldsWhatWasClicked, SignedFor

LEMMA PageInitIsSound == PageInit => PageInv
<1> SUFFICES ASSUME PageInit
             PROVE  PageInv
  OBVIOUS
<1>1. NewJob \in JobRecords
  BY DEF NewJob, JobRecords
<1>2. PageTypeOK
  BY <1>1 DEF PageInit, PageTypeOK
<1>3. \A j \in Jobs : SoundJob(job[j])
  BY DEF PageInit, NewJob, SoundJob, HoldsWhatWasClicked, SignedFor
<1> QED
  BY <1>2, <1>3 DEF PageInv

LEMMA ClickKeepsPageInv ==
  ASSUME PageInv, NEW j \in Jobs, Click(j)
  PROVE  PageInv'
<1> DEFINE kind == Action(shown)
           blind == kind = "execute" /\ shown.id = None
           r == [job[j] EXCEPT
                   !.visit = visit, !.kind = kind, !.data = shown,
                   !.clicked = shown,
                   !.pc = IF blind THEN "ended"
                          ELSE IF wallet # Home THEN "switching" ELSE "signing",
                   !.said = IF blind THEN "failed" ELSE @]
<1>1. /\ job[j] \in JobRecords /\ SoundJob(job[j]) /\ job[j].pc = "unused"
      /\ shown \in Reports /\ kind \in {"propose", "execute"} 
      /\ visit \in Nat /\ JobBecomes(j, r)
  BY DEF Click, PageInv, PageTypeOK
<1>2. UNCHANGED <<shown, wallet, visit>>
  BY DEF Click
<1> HIDE DEF blind
<1>3. r \in JobRecords
  <2> HIDE DEF kind
  <2> QED
    BY <1>1 DEF JobRecords
<1>4. SoundJob(r)
  <2>1. /\ r.clicked = shown /\ r.data = shown /\ r.kind = kind
        /\ r.tx = job[j].tx
    <3> HIDE DEF kind
    <3> QED
      BY <1>1 DEF JobRecords
  <2>2. job[j].tx = None
    BY <1>1 DEF SoundJob
  <2> HIDE DEF r
  <2> QED
    BY <1>1, <2>1, <2>2 DEF SoundJob, HoldsWhatWasClicked, SignedFor
<1> HIDE DEF r, kind
<1>5. shown' \in Reports \cup {None} /\ wallet' \in Chains \cup {None}
  BY <1>2 DEF PageInv, PageTypeOK
<1> QED
  BY <1>1, <1>2, <1>3, <1>4, <1>5, OneJobChanges

\* The later steps of a mutation.
LEMMA MutationKeepsPageInv ==
  ASSUME PageInv, NEW j \in Jobs,
         \/ Switched(j) \/ WalletRefuses(j) \/ Signs(j)
         \/ Mined(j) \/ Receipt(j) \/ ReceiptLost(j)
  PROVE  PageInv'
<1>0. /\ job[j] \in JobRecords /\ SoundJob(job[j])
      /\ shown \in Reports \cup {None} /\ wallet \in Chains \cup {None}
  BY DEF PageInv, PageTypeOK
<1>1. CASE Switched(j)
  <2> DEFINE r == [job[j] EXCEPT !.pc = "signing"]
  <2>1. r \in JobRecords
    BY <1>0 DEF JobRecords
  <2>2. SoundJob(r)
    BY <1>0, <1>1 DEF Switched, SoundJob, HoldsWhatWasClicked, SignedFor, JobRecords
  <2> QED
    BY <1>0, <1>1, <2>1, <2>2, PageAssumption, OneJobChanges DEF Switched
<1>2. CASE WalletRefuses(j) \/ ReceiptLost(j)
  <2> DEFINE r == [job[j] EXCEPT !.pc = "ended", !.said = "failed"]
  <2>1. r \in JobRecords
    BY <1>0 DEF JobRecords
  <2>2. SoundJob(r)
    BY <1>0, <1>2 DEF WalletRefuses, ReceiptLost, SoundJob, HoldsWhatWasClicked,
       SignedFor, JobRecords
  <2> QED
    BY <1>0, <1>2, <2>1, <2>2, OneJobChanges
    DEF WalletRefuses, ReceiptLost, JobFails
<1>3. CASE Signs(j)
  <2> DEFINE t == [kind |-> job[j].kind, args |-> Args(job[j].data, job[j].kind),
                   chain |-> wallet]
             r == [job[j] EXCEPT !.pc = "mining", !.fate = "pending", !.tx = t]
  <2>1. /\ job[j].clicked \in Reports /\ job[j].data = job[j].clicked
        /\ job[j].kind = Action(job[j].clicked)
        /\ job[j].kind \in {"propose", "execute"} /\ wallet = Home
        /\ JobBecomes(j, r) /\ UNCHANGED <<shown, wallet, visit>>
        /\ job[j].pc = "signing"
    BY <1>0, <1>3 DEF Signs, SoundJob, HoldsWhatWasClicked
  <2>2. /\ t = Signed(job[j].clicked, job[j].kind)
        /\ t = Signed(job[j].clicked, Action(job[j].clicked))
    BY <2>1 DEF Signed
  <2> HIDE DEF t
  <2>3. t \in Transactions
    BY <2>1, <2>2 DEF Transactions
  <2>4. r \in JobRecords
    BY <1>0, <2>3 DEF JobRecords
  <2>5. /\ r.clicked = job[j].clicked /\ r.data = job[j].data
        /\ r.kind = job[j].kind /\ r.visit = job[j].visit
        /\ r.tx = t /\ r.pc = "mining"
    BY <1>0 DEF JobRecords
  <2> HIDE DEF r
  <2>6. SoundJob(r)
    BY <2>1, <2>2, <2>5 DEF SoundJob, HoldsWhatWasClicked, SignedFor
  <2> QED
    BY <1>0, <2>1, <2>4, <2>5, <2>6, OneJobChanges
<1>4. ASSUME Mined(j)
      PROVE  PageInv'
  <2>1. PICK f \in {"taken", "reverted"} : JobBecomes(j, [job[j] EXCEPT !.fate = f])
    BY <1>4 DEF Mined
  <2> DEFINE r == [job[j] EXCEPT !.fate = f]
  <2>2. r \in JobRecords
    BY <1>0 DEF JobRecords
  <2>3. SoundJob(r)
    BY <1>0 DEF SoundJob, HoldsWhatWasClicked, SignedFor, JobRecords
  <2> QED
    BY <1>0, <1>4, <2>1, <2>2, <2>3, OneJobChanges DEF Mined
<1>5. CASE Receipt(j)
  <2> DEFINE said == IF job[j].fate = "taken" THEN "success" ELSE "failed"
             r == [job[j] EXCEPT !.pc = "ended", !.said = said]
  <2>1. r \in JobRecords
    BY <1>0 DEF JobRecords
  <2>2. SoundJob(r)
    BY <1>0, <1>5 DEF Receipt, SoundJob, HoldsWhatWasClicked, SignedFor, JobRecords
  <2> QED
    BY <1>0, <1>5, <2>1, <2>2, OneJobChanges DEF Receipt
<1> QED
  BY <1>1, <1>2, <1>3, <1>4, <1>5

LEMMA PageNextKeepsInv == PageInv /\ [PageNext]_pageVars => PageInv'
<1> SUFFICES ASSUME PageInv, [PageNext]_pageVars
             PROVE  PageInv'
  OBVIOUS
<1>1. CASE Refetched \/ WalletMoves \/ Reopened \/ UNCHANGED pageVars
  BY <1>1 DEF PageInv, PageTypeOK, SoundJob, HoldsWhatWasClicked, SignedFor,
     Refetched, WalletMoves, Reopened, pageVars
<1>2. ASSUME NEW j \in Jobs,
             \/ Click(j) \/ Switched(j) \/ WalletRefuses(j) \/ Signs(j)
             \/ Mined(j) \/ Receipt(j) \/ ReceiptLost(j)
      PROVE  PageInv'
  BY <1>2, ClickKeepsPageInv, MutationKeepsPageInv
<1> QED
  BY <1>1, <1>2 DEF PageNext

LEMMA PageInvHolds == PageSpec => []PageInv
BY PageInitIsSound, PageNextKeepsInv, PTL DEF PageSpec

\* For any reports, chains and clicks: what the wallet signs is what the page
\* showed at the click, on the governor's chain.
THEOREM PageSignedIsReviewed == PageSpec => []SignedIsReviewed
<1>1. PageInv => SignedIsReviewed
  BY DEF PageInv, SoundJob, SignedFor, SignedIsReviewed
<1> QED
  BY <1>1, PageInvHolds, PTL
-----------------------------------------------------------------------------
(* Filters that keep the end of a sequence, as recursive functions.        *)

\* WFMin, for numbers.
LEMMA MinimalNumber ==
  ASSUME NEW R, IsWellFoundedOn(R, Nat), NEW T, T \subseteq Nat, T # {}
  PROVE  \E p \in T : \A q \in T : ~(<<q, p>> \in R)
BY WFMin, Zenon

\* A set of numbers has a least one.
LEMMA LeastNumber ==
  ASSUME NEW T, T \subseteq Nat, T # {}
  PROVE  \E p \in T : \A q \in T : p <= q
<1>1. PICK R : R = {ss \in Nat \X Nat : ss[1] < ss[2]}
  OBVIOUS
<1>2. IsWellFoundedOn({ss \in Nat \X Nat : ss[1] < ss[2]}, Nat)
  BY NatLessThanWellFounded, Zenon DEF OpToRel
<1>3. PICK p \in T : \A q \in T : ~(<<q, p>> \in R)
  BY <1>1, <1>2, MinimalNumber, Zenon
<1>4. ASSUME NEW q \in T PROVE p <= q
  <2>1. p \in Nat /\ q \in Nat
    OBVIOUS
  <2>2. <<q, p>> \notin R
    BY <1>3
  <2>3. <<q, p>> \in {ss \in Nat \X Nat : ss[1] < ss[2]} <=> q < p
    BY <2>1
  <2> QED
    BY <1>1, <2>1, <2>2, <2>3
<1> QED
  BY <1>4

\* The entries of s from P, one after the other, as a function of how far one
\* has come; and what it is when P is all that comes after q.
Kept(f, s, L, P) ==
  f = [n \in 0..L |-> IF n = 0 THEN <<>>
                      ELSE IF n \in P THEN Append(f[n - 1], s[n]) ELSE f[n - 1]]
Rest(s, q, n) == [j \in 1..(IF n > q THEN n - q ELSE 0) |-> s[q + j]]

LEMMA AfterGrows ==
  ASSUME NEW s, NEW q \in Nat, NEW n \in Nat, n >= q
  PROVE  Rest(s, q, n + 1) = Append(Rest(s, q, n), s[n + 1])
<1>1. PICK E : E = {s[m] : m \in 1..(n + 1)}
  OBVIOUS
<1>2. PICK l : l = n - q
  OBVIOUS
<1>3. l \in Nat /\ (n + 1) - q = l + 1 /\ q + (l + 1) = n + 1
  BY <1>2
<1>4. PICK a : a = [j \in 1..l |-> s[q + j]]
  OBVIOUS
<1>5. a = Rest(s, q, n)
  <2>1. (IF n > q THEN n - q ELSE 0) = l
    BY <1>2
  <2> QED
    BY <1>4, <2>1 DEF Rest
<1>6. Rest(s, q, n + 1) = [j \in 1..(l + 1) |-> s[q + j]]
  <2>1. (IF n + 1 > q THEN (n + 1) - q ELSE 0) = l + 1
    BY <1>3
  <2> QED
    BY <2>1 DEF Rest
<1>7. a \in Seq(E) /\ Len(a) = l
  <2>1. \A j \in 1..l : s[q + j] \in E
    <3>1. \A j \in 1..l : q + j \in 1..(n + 1)
      BY <1>2
    <3> QED
      BY <1>1, <3>1
  <2> QED
    BY <1>3, <1>4, <2>1
<1>8. Append(a, s[n + 1]) = [j \in 1..(l + 1) |-> IF j = l + 1 THEN s[n + 1] ELSE a[j]]
  BY <1>3, <1>7
<1>9. \A j \in 1..(l + 1) : s[q + j] = IF j = l + 1 THEN s[n + 1] ELSE a[j]
  BY <1>3, <1>4
<1> QED
  BY <1>5, <1>6, <1>8, <1>9

LEMMA KeptExists ==
  ASSUME NEW s, NEW L \in Nat, NEW q \in 0..L, NEW P, \A n \in 1..L : n \in P <=> n > q
  PROVE  \E f : Kept(f, s, L, P)
<1>1. PICK f : f = [n \in 0..L |-> Rest(s, q, n)]
  OBVIOUS
<1>2. ASSUME NEW n \in 0..L
      PROVE  f[n] = IF n = 0 THEN <<>>
                    ELSE IF n \in P THEN Append(f[n - 1], s[n]) ELSE f[n - 1]
  <2>1. CASE n = 0
    BY <1>1, <2>1 DEF Rest
  <2>2. CASE n # 0 /\ n > q
    <3>1. n - 1 \in Nat /\ n - 1 >= q /\ (n - 1) + 1 = n /\ n - 1 \in 0..L
      BY <2>2
    <3>2. Rest(s, q, (n - 1) + 1) = Append(Rest(s, q, n - 1), s[(n - 1) + 1])
      BY <3>1, AfterGrows
    <3> QED
      BY <1>1, <2>2, <3>1, <3>2
  <2>3. CASE n # 0 /\ ~(n > q)
    <3>1. n - 1 \in 0..L /\ ~(n - 1 > q)
      BY <2>3
    <3>2. Rest(s, q, n) = Rest(s, q, n - 1)
      BY <2>3, <3>1 DEF Rest
    <3> QED
      BY <1>1, <2>3, <3>1, <3>2
  <2> QED
    BY <2>1, <2>2, <2>3
<1>3. f = [n \in 0..L |-> f[n]]
  BY <1>1
<1> QED
  BY <1>2, <1>3 DEF Kept

LEMMA KeptIs ==
  ASSUME NEW s, NEW L \in Nat, NEW q \in 0..L, NEW P, \A n \in 1..L : n \in P <=> n > q,
         NEW f, Kept(f, s, L, P)
  PROVE  f[L] = Rest(s, q, L)
<1>1. PICK T : T = {n \in 0..L : f[n] # Rest(s, q, n)}
  OBVIOUS
<1>2. ASSUME T # {} PROVE FALSE
  <2>1. T \subseteq Nat
    BY <1>1
  <2>2. PICK n \in T : \A m \in T : n <= m
    BY <1>2, <2>1, LeastNumber
  <2>3. n \in 0..L /\ f[n] # Rest(s, q, n)
    BY <1>1
  <2>4. f[n] = IF n = 0 THEN <<>>
               ELSE IF n \in P THEN Append(f[n - 1], s[n]) ELSE f[n - 1]
    BY <2>3 DEF Kept
  <2>5. n # 0
    BY <2>3, <2>4 DEF Rest
  <2>6. n - 1 \in 0..L /\ (n - 1) + 1 = n /\ ~(n <= n - 1)
    BY <2>3, <2>5
  <2>7. f[n - 1] = Rest(s, q, n - 1)
    BY <1>1, <2>2, <2>6
  <2>8. CASE n > q
    <3>1. Rest(s, q, (n - 1) + 1) = Append(Rest(s, q, n - 1), s[(n - 1) + 1])
      BY <2>3, <2>6, <2>8, AfterGrows
    <3> QED
      BY <2>3, <2>4, <2>5, <2>6, <2>7, <2>8, <3>1
  <2>9. CASE ~(n > q)
    <3>1. Rest(s, q, n) = Rest(s, q, n - 1)
      BY <2>3, <2>6, <2>9 DEF Rest
    <3> QED
      BY <2>3, <2>4, <2>5, <2>7, <2>9, <3>1
  <2> QED
    BY <2>8, <2>9
<1> QED
  BY <1>1, <1>2

\* Where a sequence that P leaves never again begins to be in P.
LEMMA SuffixBegins ==
  ASSUME NEW L \in Nat, NEW P, \A n \in 1..L : n \in P => \A m \in n..L : m \in P
  PROVE  \E q \in 0..L : \A n \in 1..L : n \in P <=> n > q
<1>1. PICK T : T = {q \in 0..L : \A n \in 1..L : n > q => n \in P}
  OBVIOUS
<1>2. T \subseteq Nat /\ L \in T
  BY <1>1
<1>3. PICK q \in T : \A p \in T : q <= p
  BY <1>2, LeastNumber
<1>4. q \in 0..L /\ \A n \in 1..L : n > q => n \in P
  BY <1>1
<1>5. ASSUME NEW n \in 1..L, n \in P PROVE n > q
  <2>1. SUFFICES ASSUME ~(n > q) PROVE FALSE
    OBVIOUS
  <2>2. n - 1 \in 0..L /\ ~(q <= n - 1)
    BY <1>4, <2>1
  <2>3. \A m \in 1..L : m > n - 1 => m \in n..L
    OBVIOUS
  <2>4. n - 1 \in T
    BY <1>1, <1>5, <2>2, <2>3
  <2> QED
    BY <1>3, <2>2, <2>4
<1> QED
  BY <1>4, <1>5

LEMMA RestIs ==
  ASSUME NEW s, s \in Seq(Nat), NEW q \in 0..Len(s), NEW r, r = Rest(s, q, Len(s))
  PROVE  /\ Len(s) \in Nat /\ r \in Seq(Nat) /\ Len(r) = Len(s) - q
         /\ DOMAIN r = 1..(Len(s) - q)
         /\ \A j \in 1..(Len(s) - q) : q + j \in 1..Len(s) /\ r[j] = s[q + j]
<1>1. PICK l : l = Len(s) - q
  OBVIOUS
<1>2. l \in Nat /\ Len(s) \in Nat /\ (IF Len(s) > q THEN Len(s) - q ELSE 0) = l
  BY <1>1
<1>3. r = [j \in 1..l |-> s[q + j]]
  BY <1>2 DEF Rest
<1>4. \A j \in 1..l : q + j \in 1..Len(s)
  BY <1>1
<1>5. \A j \in 1..l : s[q + j] \in Nat
  BY <1>4
<1> QED
  BY <1>1, <1>2, <1>3, <1>4, <1>5

Falling(s) == \A m, n \in 1..Len(s) : m <= n => s[n] <= s[m]
Rising(s) == \A m, n \in 1..Len(s) : m <= n => s[m] <= s[n]

\* Of falling ages the last ones are below a limit, of rising times the last
\* ones are later than a time.
LEMMA BelowIs ==
  ASSUME NEW s, s \in Seq(Nat), Falling(s), NEW limit \in Nat
  PROVE  \E q \in 0..Len(s) : /\ Below(s, limit) = Rest(s, q, Len(s))
                              /\ \A n \in 1..Len(s) : s[n] < limit <=> n > q
<1>1. PICK L, P : L = Len(s) /\ P = {n \in 1..Len(s) : s[n] < limit}
  OBVIOUS
<1>2. L \in Nat /\ \A n \in 1..L : s[n] \in Nat
  BY <1>1
<1>3. \A n \in 1..L : n \in P => \A m \in n..L : m \in P
  BY <1>1, <1>2 DEF Falling
<1>4. PICK q \in 0..L : \A n \in 1..L : n \in P <=> n > q
  BY <1>2, <1>3, SuffixBegins
<1>5. ASSUME NEW f
      PROVE  Kept(f, s, L, P) <=>
               f = [n \in 0..Len(s) |->
                      IF n = 0 THEN <<>>
                      ELSE IF s[n] < limit THEN Append(f[n - 1], s[n]) ELSE f[n - 1]]
  <2>1. \A n \in 0..L : n # 0 => (n \in P <=> s[n] < limit)
    BY <1>1
  <2>2. [n \in 0..L |-> IF n = 0 THEN <<>>
                        ELSE IF n \in P THEN Append(f[n - 1], s[n]) ELSE f[n - 1]]
        = [n \in 0..L |-> IF n = 0 THEN <<>>
                          ELSE IF s[n] < limit THEN Append(f[n - 1], s[n]) ELSE f[n - 1]]
    BY <2>1
  <2> QED
    BY <1>1, <2>2 DEF Kept
<1> DEFINE e == CHOOSE e : e = [n \in 0..Len(s) |->
                                  IF n = 0 THEN <<>>
                                  ELSE IF s[n] < limit THEN Append(e[n - 1], s[n]) ELSE e[n - 1]]
<1>6. Below(s, limit) = e[Len(s)]
  BY DEF Below
<1>7. \E f : Kept(f, s, L, P)
  BY <1>2, <1>4, KeptExists
<1>8. \E f : f = [n \in 0..Len(s) |->
                    IF n = 0 THEN <<>>
                    ELSE IF s[n] < limit THEN Append(f[n - 1], s[n]) ELSE f[n - 1]]
  BY <1>5, <1>7, Zenon
<1>9. e = [n \in 0..Len(s) |->
             IF n = 0 THEN <<>>
             ELSE IF s[n] < limit THEN Append(e[n - 1], s[n]) ELSE e[n - 1]]
  BY <1>8, Zenon
<1> HIDE DEF e
<1>10. Kept(e, s, L, P)
  BY <1>5, <1>9
<1>11. e[L] = Rest(s, q, L)
  BY <1>2, <1>4, <1>10, KeptIs
<1> QED
  BY <1>1, <1>4, <1>6, <1>11

LEMMA LaterIs ==
  ASSUME NEW s, s \in Seq(Nat), Rising(s), NEW t \in Int
  PROVE  \E q \in 0..Len(s) : /\ Later(s, t) = Rest(s, q, Len(s))
                              /\ \A n \in 1..Len(s) : s[n] > t <=> n > q
<1>1. PICK L, P : L = Len(s) /\ P = {n \in 1..Len(s) : s[n] > t}
  OBVIOUS
<1>2. L \in Nat /\ \A n \in 1..L : s[n] \in Nat
  BY <1>1
<1>3. \A n \in 1..L : n \in P => \A m \in n..L : m \in P
  BY <1>1, <1>2 DEF Rising
<1>4. PICK q \in 0..L : \A n \in 1..L : n \in P <=> n > q
  BY <1>2, <1>3, SuffixBegins
<1>5. ASSUME NEW f
      PROVE  Kept(f, s, L, P) <=>
               f = [n \in 0..Len(s) |->
                      IF n = 0 THEN <<>>
                      ELSE IF s[n] > t THEN Append(f[n - 1], s[n]) ELSE f[n - 1]]
  <2>1. \A n \in 0..L : n # 0 => (n \in P <=> s[n] > t)
    BY <1>1
  <2>2. [n \in 0..L |-> IF n = 0 THEN <<>>
                        ELSE IF n \in P THEN Append(f[n - 1], s[n]) ELSE f[n - 1]]
        = [n \in 0..L |-> IF n = 0 THEN <<>>
                          ELSE IF s[n] > t THEN Append(f[n - 1], s[n]) ELSE f[n - 1]]
    BY <2>1
  <2> QED
    BY <1>1, <2>2 DEF Kept
<1> DEFINE e == CHOOSE e : e = [n \in 0..Len(s) |->
                                  IF n = 0 THEN <<>>
                                  ELSE IF s[n] > t THEN Append(e[n - 1], s[n]) ELSE e[n - 1]]
<1>6. Later(s, t) = e[Len(s)]
  BY DEF Later
<1>7. \E f : Kept(f, s, L, P)
  BY <1>2, <1>4, KeptExists
<1>8. \E f : f = [n \in 0..Len(s) |->
                    IF n = 0 THEN <<>>
                    ELSE IF s[n] > t THEN Append(f[n - 1], s[n]) ELSE f[n - 1]]
  BY <1>5, <1>7, Zenon
<1>9. e = [n \in 0..Len(s) |->
             IF n = 0 THEN <<>>
             ELSE IF s[n] > t THEN Append(e[n - 1], s[n]) ELSE e[n - 1]]
  BY <1>8, Zenon
<1> HIDE DEF e
<1>10. Kept(e, s, L, P)
  BY <1>5, <1>9
<1>11. e[L] = Rest(s, q, L)
  BY <1>2, <1>4, <1>10, KeptIs
<1> QED
  BY <1>1, <1>4, <1>6, <1>11
-----------------------------------------------------------------------------
(* ShareLinkLimiter: a client's stamps count what the last window let in.  *)

ShareEntry == [client: ShareClients, at: Nat, ok: BOOLEAN, retry: Nat]

\* Where the stamps from time x on begin, and what stamps say of the history.
Begins(s, x, q) == \A n \in 1..Len(s) : s[n] >= x <=> n > q
Counted(l, c, s, t) ==
  \A x \in Int, q \in 0..Len(s) :
    x > t - ShareWindow /\ Begins(s, x, q)
      => Cardinality(Admitted(l, c, x..t)) = Len(s) - q
Stamped(l, c, s, t) ==
  /\ s \in Seq(Nat) /\ Rising(s) /\ Len(s) <= ShareMax
  /\ \A n \in 1..Len(s) : s[n] <= t
  /\ Counted(l, c, s, t)

LEMMA EntryFields ==
  ASSUME NEW l \in Seq(ShareEntry)
  PROVE  /\ Len(l) \in Nat /\ DOMAIN l = 1..Len(l)
         /\ \A n \in DOMAIN l : l[n] \in ShareEntry /\ l[n].at \in Nat /\ l[n].retry \in Nat
<1>1. \A n \in DOMAIN l : l[n] \in ShareEntry
  OBVIOUS
<1>2. \A e \in ShareEntry : e.at \in Nat /\ e.retry \in Nat
  BY DEF ShareEntry
<1> QED
  BY <1>1, <1>2

\* AdmittedGrows, for the share button's requests.
LEMMA LetInGrows ==
  ASSUME NEW l \in Seq(ShareEntry), NEW e \in ShareEntry, NEW c, NEW S
  PROVE  /\ e.client = c /\ e.ok /\ e.at \in S =>
              Cardinality(Admitted(Append(l, e), c, S)) = Cardinality(Admitted(l, c, S)) + 1
         /\ ~(e.client = c /\ e.ok /\ e.at \in S) =>
              Admitted(Append(l, e), c, S) = Admitted(l, c, S)
<1>1. Counts(e, c, S) <=> e.client = c /\ e.ok /\ e.at \in S
  BY DEF Counts
<1> QED
  BY <1>1, AdmittedGrows

LEMMA StampsBegin ==
  ASSUME NEW s, s \in Seq(Nat), Rising(s), NEW x \in Int
  PROVE  \E q \in 0..Len(s) : Begins(s, x, q)
<1>1. PICK L, P : L = Len(s) /\ P = {n \in 1..Len(s) : s[n] >= x}
  OBVIOUS
<1>2. L \in Nat /\ \A n \in 1..L : s[n] \in Nat
  BY <1>1
<1>3. \A n \in 1..L : n \in P => \A m \in n..L : m \in P
  BY <1>1, <1>2 DEF Rising
<1>4. PICK q \in 0..L : \A n \in 1..L : n \in P <=> n > q
  BY <1>2, <1>3, SuffixBegins
<1> QED
  BY <1>1, <1>4 DEF Begins

\* Time passes.
LEMMA StampedLater ==
  ASSUME NEW l \in Seq(ShareEntry), NEW c, NEW s, NEW t \in Nat, Past(l, t), Stamped(l, c, s, t)
  PROVE  Stamped(l, c, s, t + 1)
<1>1. ShareWindow \in Nat \ {0}
  BY ShareAssumption
<1>2. /\ s \in Seq(Nat) /\ Rising(s) /\ Len(s) <= ShareMax
      /\ \A n \in 1..Len(s) : s[n] <= t
  BY DEF Stamped
<1>3. \A n \in DOMAIN l : l[n].at \in Nat /\ l[n].at <= t
  BY EntryFields DEF Past
<1>4. ASSUME NEW x \in Int, NEW q \in 0..Len(s), x > (t + 1) - ShareWindow, Begins(s, x, q)
      PROVE  Cardinality(Admitted(l, c, x..(t + 1))) = Len(s) - q
  <2>1. Admitted(l, c, x..(t + 1)) = Admitted(l, c, x..t)
    BY <1>3 DEF Admitted
  <2>2. x > t - ShareWindow
    BY <1>1, <1>4
  <2> QED
    BY <1>4, <2>1, <2>2 DEF Stamped, Counted
<1>5. \A n \in 1..Len(s) : s[n] <= t + 1
  <2>1. ASSUME NEW n \in 1..Len(s) PROVE s[n] <= t + 1
    <3>1. PICK y : y = s[n]
      OBVIOUS
    <3>2. y \in Nat /\ y <= t
      BY <1>2, <3>1
    <3> QED
      BY <3>1, <3>2
  <2> QED
    BY <2>1
<1> QED
  BY <1>2, <1>4, <1>5 DEF Stamped, Counted

\* Stamps that are as old as the window say nothing.
LEMMA StampedRecent ==
  ASSUME NEW l, NEW c, NEW s, NEW t \in Nat, Stamped(l, c, s, t),
         NEW r, r = Later(s, t - ShareWindow)
  PROVE  /\ Stamped(l, c, r, t)
         /\ \A n \in 1..Len(r) : r[n] > t - ShareWindow
<1>1. ShareWindow \in Nat \ {0} /\ ShareMax \in Nat /\ t - ShareWindow \in Int
  BY ShareAssumption
<1>2. /\ s \in Seq(Nat) /\ Rising(s) /\ Len(s) <= ShareMax
      /\ \A n \in 1..Len(s) : s[n] <= t
  BY DEF Stamped
<1>3. PICK p \in 0..Len(s) : /\ r = Rest(s, p, Len(s))
                             /\ \A n \in 1..Len(s) : s[n] > t - ShareWindow <=> n > p
  BY <1>1, <1>2, LaterIs
<1>4. PICK L, M : L = Len(s) /\ M = L - p
  OBVIOUS
<1>5. /\ r \in Seq(Nat) /\ Len(r) = Len(s) - p /\ Len(s) \in Nat
      /\ \A j \in 1..(Len(s) - p) : p + j \in 1..Len(s) /\ r[j] = s[p + j]
  <2>1. s \in Seq(Nat)
    BY <1>2
  <2>2. PICK w : w = Rest(s, p, Len(s))
    OBVIOUS
  <2>3. /\ Len(s) \in Nat /\ w \in Seq(Nat) /\ Len(w) = Len(s) - p
        /\ DOMAIN w = 1..(Len(s) - p)
        /\ \A j \in 1..(Len(s) - p) : p + j \in 1..Len(s) /\ w[j] = s[p + j]
    BY <2>1, <2>2, RestIs, Zenon
  <2>4. w = r
    BY <1>3, <2>2
  <2> QED
    BY <2>3, <2>4
<1>6. /\ r \in Seq(Nat) /\ Len(r) = M /\ L \in Nat /\ p \in 0..L /\ M \in Nat
      /\ \A j \in 1..M : p + j \in 1..L /\ r[j] = s[p + j]
  BY <1>4, <1>5
<1>7. Rising(r)
  <2>1. ASSUME NEW m \in 1..M, NEW k \in 1..M, m <= k PROVE r[m] <= r[k]
    <3>1. p + m \in 1..L /\ p + k \in 1..L /\ r[m] = s[p + m] /\ r[k] = s[p + k]
      BY <1>6
    <3>2. p + m <= p + k
      BY <1>6, <2>1
    <3> QED
      BY <1>2, <1>4, <3>1, <3>2 DEF Rising
  <2> QED
    BY <1>6, <2>1 DEF Rising
<1>8. \A n \in 1..M : r[n] <= t /\ r[n] > t - ShareWindow
  <2>1. ASSUME NEW n \in 1..M PROVE r[n] <= t /\ r[n] > t - ShareWindow
    <3>1. p + n \in 1..L /\ r[n] = s[p + n] /\ p + n > p
      BY <1>6
    <3> QED
      BY <1>2, <1>3, <1>4, <3>1
  <2> QED
    BY <2>1
<1>9. ASSUME NEW x \in Int, NEW q \in 0..M, x > t - ShareWindow, Begins(r, x, q)
      PROVE  Cardinality(Admitted(l, c, x..t)) = M - q
  <2>1. p + q \in 0..L /\ L - (p + q) = M - q
    BY <1>4, <1>6
  <2>2. ASSUME NEW n \in 1..L PROVE s[n] >= x <=> n > p + q
    <3>1. PICK y : y = s[n]
      OBVIOUS
    <3>2. y \in Nat /\ (y > t - ShareWindow <=> n > p)
      BY <1>2, <1>3, <1>4, <3>1
    <3>3. CASE n > p
      <4>1. PICK j : j = n - p
        OBVIOUS
      <4>2. j \in 1..M /\ p + j = n
        BY <1>4, <1>6, <3>3, <4>1
      <4>3. r[j] = y
        BY <1>6, <3>1, <4>2
      <4>4. r[j] >= x <=> j > q
        BY <1>6, <1>9, <4>2 DEF Begins
      <4> QED
        BY <1>6, <3>1, <4>2, <4>3, <4>4
    <3>4. CASE ~(n > p)
      <4>1. ~(y >= x)
        BY <1>1, <1>9, <3>2, <3>4
      <4>2. ~(n > p + q)
        BY <1>6, <3>4
      <4> QED
        BY <3>1, <4>1, <4>2
    <3> QED
      BY <3>3, <3>4
  <2>3. Begins(s, x, p + q)
    BY <1>4, <2>2 DEF Begins
  <2>4. Cardinality(Admitted(l, c, x..t)) = L - (p + q)
    BY <1>4, <1>9, <2>1, <2>3 DEF Stamped, Counted
  <2> QED
    BY <2>1, <2>4
<1>10. Counted(l, c, r, t)
  BY <1>6, <1>9 DEF Counted
<1>11. Len(r) <= ShareMax
  BY <1>1, <1>2, <1>4, <1>6
<1> QED
  BY <1>6, <1>7, <1>8, <1>10, <1>11 DEF Stamped

\* A request that is let in leaves a stamp; ...
LEMMA StampedLetIn ==
  ASSUME NEW l \in Seq(ShareEntry), NEW c, NEW s, NEW t \in Nat, Stamped(l, c, s, t),
         ~(Len(s) >= ShareMax),
         NEW e \in ShareEntry, e.client = c, e.ok, e.at = t
  PROVE  Stamped(Append(l, e), c, Append(s, t), t)
<1>1. ShareWindow \in Nat \ {0} /\ ShareMax \in Nat
  BY ShareAssumption
<1>2. s \in Seq(Nat)
  BY DEF Stamped
<1>3. PICK r, L, k : r = Append(s, t) /\ L = Len(s) /\ k = Append(l, e)
  OBVIOUS
<1>4. /\ r \in Seq(Nat) /\ Len(r) = L + 1 /\ L \in Nat /\ r[L + 1] = t
      /\ \A n \in 1..L : r[n] = s[n] /\ s[n] \in Nat
  BY <1>2, <1>3
<1>5. Rising(s) /\ \A n \in 1..L : s[n] <= t
  BY <1>3 DEF Stamped
<1>6. Rising(r)
  <2>1. ASSUME NEW m \in 1..(L + 1), NEW n \in 1..(L + 1), m <= n PROVE r[m] <= r[n]
    <3>1. CASE n = L + 1 /\ m = L + 1
      BY <1>4, <3>1
    <3>2. CASE n = L + 1 /\ m # L + 1
      <4>1. m \in 1..L
        BY <1>4, <3>2
      <4> QED
        BY <1>4, <1>5, <3>2, <4>1
    <3>3. CASE n # L + 1
      <4>1. m \in 1..L /\ n \in 1..L
        BY <1>4, <2>1, <3>3
      <4>2. s[m] <= s[n]
        BY <1>3, <1>5, <2>1, <4>1 DEF Rising
      <4> QED
        BY <1>4, <4>1, <4>2
    <3> QED
      BY <3>1, <3>2, <3>3
  <2> QED
    BY <1>4, <2>1 DEF Rising
<1>7. \A n \in 1..Len(r) : r[n] <= t
  <2>1. ASSUME NEW n \in 1..(L + 1) PROVE r[n] <= t
    <3>1. CASE n = L + 1
      BY <1>4, <3>1
    <3>2. CASE n # L + 1
      <4>1. n \in 1..L
        BY <1>4, <3>2
      <4> QED
        BY <1>4, <1>5, <4>1
    <3> QED
      BY <3>1, <3>2
  <2> QED
    BY <1>4, <2>1
<1>8. ASSUME NEW x \in Int, NEW q \in 0..(L + 1), x > t - ShareWindow, Begins(r, x, q)
      PROVE  Cardinality(Admitted(k, c, x..t)) = (L + 1) - q
  <2>1. t >= x <=> L + 1 > q
    BY <1>4, <1>8 DEF Begins
  <2>2. CASE t >= x
    <3>1. q \in 0..L
      BY <1>4, <2>1, <2>2
    <3>2. Begins(s, x, q)
      BY <1>3, <1>4, <1>8 DEF Begins
    <3>3. Cardinality(Admitted(l, c, x..t)) = L - q
      BY <1>3, <1>8, <3>1, <3>2 DEF Stamped, Counted
    <3>4. e.client = c /\ e.ok /\ e.at \in x..t
      BY <2>2
    <3>5. Cardinality(Admitted(k, c, x..t)) = Cardinality(Admitted(l, c, x..t)) + 1
      BY <1>3, <3>4, LetInGrows
    <3> QED
      BY <1>4, <3>1, <3>3, <3>5
  <2>3. CASE ~(t >= x)
    <3>1. x..t = {}
      BY <2>3
    <3>2. Admitted(k, c, x..t) = {}
      BY <3>1 DEF Admitted
    <3>3. q = L + 1
      BY <1>4, <2>1, <2>3
    <3>4. Cardinality(Admitted(k, c, x..t)) = 0
      BY <3>2, FS_EmptySet
    <3> QED
      BY <1>4, <3>3, <3>4
  <2> QED
    BY <2>2, <2>3
<1>9. Counted(k, c, r, t)
  BY <1>4, <1>8 DEF Counted
<1>10. Len(r) <= ShareMax
  BY <1>1, <1>3, <1>4
<1>11. Stamped(k, c, r, t)
  BY <1>4, <1>6, <1>7, <1>9, <1>10 DEF Stamped
<1> QED
  BY <1>3, <1>11

\* ... no other request changes what a client's stamps say.
LEMMA StampedStill ==
  ASSUME NEW l \in Seq(ShareEntry), NEW c, NEW s, NEW t \in Nat, Stamped(l, c, s, t),
         NEW e \in ShareEntry, ~(e.client = c /\ e.ok)
  PROVE  Stamped(Append(l, e), c, s, t)
<1>1. \A x \in Int : Admitted(Append(l, e), c, x..t) = Admitted(l, c, x..t)
  BY LetInGrows
<1> QED
  BY <1>1 DEF Stamped, Counted
-----------------------------------------------------------------------------
\* What had been let in before a request, and what its refusal says of it: the
\* window is full, and when the wait it was told is over it is full no more.
Before(l, c, S, n) == {m \in Admitted(l, c, S) : m < n}
Due(l, n) ==
  ~l[n].ok =>
    /\ Cardinality(Before(l, l[n].client, (l[n].at - ShareWindow + 1)..l[n].at, n)) = ShareMax
    /\ Cardinality(Before(l, l[n].client,
                          (l[n].at + l[n].retry * ShareSecond - ShareWindow + 1)..l[n].at, n))
         < ShareMax

Room(l, c, x) == Cardinality(Admitted(l, c, x..(x + ShareWindow - 1))) <= ShareMax
History(l) ==
  /\ \A c \in ShareClients, x \in Int : Room(l, c, x)
  /\ \A n \in DOMAIN l : Due(l, n)
  /\ \A m, n \in DOMAIN l : m <= n => l[m].at <= l[n].at

ShareInv ==
  /\ clock \in Nat /\ DOMAIN stamps = ShareClients
  /\ shareLog \in Seq(ShareEntry) /\ Past(shareLog, clock) /\ History(shareLog)
  /\ \A c \in ShareClients : Stamped(shareLog, c, stamps[c], clock)

LEMMA BeforeKept ==
  ASSUME NEW l \in Seq(ShareEntry), NEW e \in ShareEntry, NEW c, NEW S
  PROVE  /\ \A n \in 1..Len(l) : Before(Append(l, e), c, S, n) = Before(l, c, S, n)
         /\ Before(Append(l, e), c, S, Len(l) + 1) = Admitted(l, c, S)
<1>1. PICK k, L : k = Append(l, e) /\ L = Len(l)
  OBVIOUS
<1>2. /\ L \in Nat /\ DOMAIN l = 1..L /\ DOMAIN k = 1..(L + 1)
      /\ \A n \in 1..L : k[n] = l[n]
  BY <1>1
<1>3. ASSUME NEW n \in 1..(L + 1)
      PROVE  Before(k, c, S, n) = Before(l, c, S, n)
  <2>1. ASSUME NEW m PROVE m \in DOMAIN k /\ m < n <=> m \in DOMAIN l /\ m < n
    BY <1>2
  <2> QED
    BY <1>2, <2>1 DEF Before, Admitted
<1>4. Before(l, c, S, L + 1) = Admitted(l, c, S)
  BY <1>2 DEF Before, Admitted
<1>5. \A n \in 1..L : n \in 1..(L + 1)
  BY <1>2
<1>6. L + 1 \in 1..(L + 1)
  BY <1>2
<1> QED
  BY <1>1, <1>3, <1>4, <1>5, <1>6

\* Whoever is let in had room in every window that ends now or later.
LEMMA RoomLetIn ==
  ASSUME NEW l \in Seq(ShareEntry), NEW c, NEW r, NEW t \in Nat, Past(l, t), Stamped(l, c, r, t),
         ~(Len(r) >= ShareMax), NEW e \in ShareEntry, e.at = t,
         NEW x \in Int, Room(l, c, x)
  PROVE  Room(Append(l, e), c, x)
<1>1. ShareWindow \in Nat \ {0} /\ ShareMax \in Nat
  BY ShareAssumption
<1> DEFINE S == x..(x + ShareWindow - 1)
<1>2. CASE ~(e.client = c /\ e.ok /\ e.at \in S)
  <2>1. Admitted(Append(l, e), c, S) = Admitted(l, c, S)
    <3> HIDE DEF S
    <3> QED
      BY <1>2, LetInGrows
  <2> QED
    BY <2>1 DEF Room
<1>3. CASE e.client = c /\ e.ok /\ e.at \in S
  <2>1. x <= t /\ t <= x + ShareWindow - 1
    BY <1>3
  <2>2. x > t - ShareWindow
    BY <1>1, <2>1
  <2>3. r \in Seq(Nat) /\ Rising(r)
    BY DEF Stamped
  <2>4. PICK q \in 0..Len(r) : Begins(r, x, q)
    BY <2>3, StampsBegin
  <2>5. Cardinality(Admitted(l, c, x..t)) = Len(r) - q
    BY <2>2, <2>4 DEF Stamped, Counted
  <2>6. \A n \in DOMAIN l : l[n].at \in Nat /\ l[n].at <= t
    BY EntryFields DEF Past
  <2>7. Admitted(l, c, S) = Admitted(l, c, x..t)
    BY <1>1, <2>1, <2>6 DEF Admitted
  <2>8. Cardinality(Admitted(Append(l, e), c, S)) = Cardinality(Admitted(l, c, S)) + 1
    BY <1>3, LetInGrows, ZenonT(40)
  <2>9. Len(r) \in Nat
    BY <2>3
  <2>10. Cardinality(Admitted(Append(l, e), c, S)) <= ShareMax
    <3> HIDE DEF S
    <3> QED
      BY <1>1, <2>4, <2>5, <2>7, <2>8, <2>9
  <2> QED
    BY <2>10 DEF Room
<1> HIDE DEF S
<1> QED
  BY <1>2, <1>3

LEMMA RoomStill ==
  ASSUME NEW l \in Seq(ShareEntry), NEW c, NEW e \in ShareEntry, ~(e.client = c /\ e.ok),
         NEW x \in Int, Room(l, c, x)
  PROVE  Room(Append(l, e), c, x)
<1>1. \A S : Admitted(Append(l, e), c, S) = Admitted(l, c, S)
  BY LetInGrows
<1> QED
  BY <1>1 DEF Room

\* A refusal is due, and the wait it tells is long enough.
LEMMA RefusalIsDue ==
  ASSUME NEW l \in Seq(ShareEntry), NEW c \in ShareClients, NEW r, NEW t \in Nat,
         Stamped(l, c, r, t), \A n \in 1..Len(r) : r[n] > t - ShareWindow,
         Len(r) >= ShareMax, NEW e,
         e = [client |-> c, at |-> t, ok |-> FALSE,
              retry |-> ((r[1] + ShareWindow - t) + ShareSecond - 1) \div ShareSecond]
  PROVE  e \in ShareEntry /\ Due(Append(l, e), Len(l) + 1)
<1>1. ShareWindow \in Nat \ {0} /\ ShareMax \in Nat \ {0} /\ ShareSecond \in Nat \ {0}
  BY ShareAssumption
<1>2. r \in Seq(Nat) /\ Rising(r) /\ Len(r) <= ShareMax /\ \A n \in 1..Len(r) : r[n] <= t
  BY DEF Stamped
<1>3. PICK L : L = Len(r)
  OBVIOUS
<1>4. L = ShareMax /\ L \in Nat \ {0} /\ 1 \in 1..L
  <2>1. L \in Nat
    BY <1>2, <1>3
  <2> QED
    BY <1>1, <1>2, <1>3, <2>1
<1>5. PICK y : y = r[1]
  OBVIOUS
<1>6. y \in Nat /\ y > t - ShareWindow
  <2>1. r[1] \in Nat
    <3>1. r \in Seq(Nat) /\ 1 \in 1..Len(r)
      BY <1>2, <1>3, <1>4
    <3> QED
      BY <3>1
  <2>2. r[1] > t - ShareWindow
    BY <1>3, <1>4
  <2> QED
    BY <1>5, <2>1, <2>2
<1>7. PICK w \in Int : w = y + ShareWindow - t
  BY <1>1, <1>6
<1>8. PICK z : z = (w + ShareSecond - 1) \div ShareSecond
  OBVIOUS
<1>9. z \in Int /\ z * ShareSecond >= w
  BY <1>1, <1>8, RoundedUp
<1>10. PICK v : v = z * ShareSecond
  OBVIOUS
<1>11. v \in Int /\ v >= w /\ w >= 1
  BY <1>1, <1>6, <1>7, <1>9, <1>10
<1>12. z \in Nat
  <2>1. SUFFICES ASSUME ~(z >= 0) PROVE FALSE
    BY <1>9
  <2>2. z * ShareSecond <= 0
    BY <1>1, <1>9, <2>1, SMTT(30)
  <2> QED
    BY <1>10, <1>11, <2>2
<1>13. e = [client |-> c, at |-> t, ok |-> FALSE, retry |-> z]
  BY <1>5, <1>7, <1>8
<1>14. e \in ShareEntry
  BY <1>12, <1>13 DEF ShareEntry
<1>15. Cardinality(Admitted(l, c, (t - ShareWindow + 1)..t)) = ShareMax
  <2>1. PICK x \in Int : x = t - ShareWindow + 1
    BY <1>1
  <2>2. x > t - ShareWindow
    BY <1>1, <2>1
  <2>3. ASSUME NEW n \in 1..L PROVE r[n] >= x <=> n > 0
    <3>1. PICK u : u = r[n]
      OBVIOUS
    <3>2. u \in Nat /\ u > t - ShareWindow
      BY <1>2, <1>3, <3>1
    <3> QED
      BY <1>1, <2>1, <3>1, <3>2
  <2>4. Begins(r, x, 0) /\ 0 \in 0..Len(r)
    BY <1>3, <1>4, <2>3 DEF Begins
  <2>5. Cardinality(Admitted(l, c, x..t)) = Len(r) - 0
    BY <2>2, <2>4 DEF Stamped, Counted
  <2> QED
    BY <1>3, <1>4, <2>1, <2>5
<1>16. Cardinality(Admitted(l, c, (t + v - ShareWindow + 1)..t)) < ShareMax
  <2>1. PICK x \in Int : x = t + v - ShareWindow + 1
    BY <1>1, <1>11
  <2>2. x > t - ShareWindow /\ ~(y >= x)
    BY <1>1, <1>6, <1>7, <1>11, <2>1
  <2>3. PICK q \in 0..Len(r) : Begins(r, x, q)
    BY <1>2, StampsBegin
  <2>4. q # 0
    BY <1>3, <1>4, <1>5, <2>2, <2>3 DEF Begins
  <2>5. Cardinality(Admitted(l, c, x..t)) = Len(r) - q
    BY <2>2, <2>3 DEF Stamped, Counted
  <2> QED
    BY <1>3, <1>4, <2>1, <2>3, <2>4, <2>5
<1>17. PICK k, n : k = Append(l, e) /\ n = Len(l) + 1
  OBVIOUS
<1>18. k[n] = e
  BY <1>14, <1>17
<1>19. \A S : Before(k, c, S, n) = Admitted(l, c, S)
  BY <1>14, <1>17, BeforeKept
<1>20. k[n].client = c /\ k[n].at = t /\ k[n].retry * ShareSecond = v
  BY <1>10, <1>13, <1>18
<1>21. Due(k, n)
  BY <1>15, <1>16, <1>19, <1>20 DEF Due
<1> QED
  BY <1>14, <1>17, <1>21

\* One more request, for which there was room or whose refusal was due.
LEMMA HistoryGrows ==
  ASSUME NEW l \in Seq(ShareEntry), NEW e \in ShareEntry, NEW t \in Nat, Past(l, t), e.at = t,
         History(l), Due(Append(l, e), Len(l) + 1),
         \A c \in ShareClients, x \in Int : Room(Append(l, e), c, x)
  PROVE  /\ Append(l, e) \in Seq(ShareEntry) /\ Past(Append(l, e), t)
         /\ History(Append(l, e))
<1>1. PICK k, L : k = Append(l, e) /\ L = Len(l)
  OBVIOUS
<1>2. /\ L \in Nat /\ DOMAIN l = 1..L /\ DOMAIN k = 1..(L + 1) /\ k \in Seq(ShareEntry)
      /\ k[L + 1] = e /\ \A n \in 1..L : k[n] = l[n]
  BY <1>1
<1>3. \A n \in 1..L : l[n].at \in Nat /\ l[n].at <= t
  BY <1>2, EntryFields DEF Past
<1>4. \A n \in 1..(L + 1) : n # L + 1 => n \in 1..L
  BY <1>2
<1>5. Past(k, t)
  BY <1>2, <1>3, <1>4 DEF Past
<1>6. ASSUME NEW n \in 1..(L + 1) PROVE Due(k, n)
  <2>1. CASE n = L + 1
    BY <1>1, <2>1
  <2>2. CASE n # L + 1
    <3>1. n \in 1..L /\ n \in DOMAIN l /\ k[n] = l[n]
      BY <1>2, <1>4, <2>2
    <3>2. \A c, S : Before(k, c, S, n) = Before(l, c, S, n)
      BY <1>1, <3>1, BeforeKept
    <3>3. Due(l, n)
      BY <3>1 DEF History
    <3> QED
      BY <3>1, <3>2, <3>3 DEF Due
  <2> QED
    BY <2>1, <2>2
<1>7. ASSUME NEW m \in 1..(L + 1), NEW n \in 1..(L + 1), m <= n PROVE k[m].at <= k[n].at
  <2>1. CASE n = L + 1
    <3>1. CASE m = L + 1
      BY <1>2, <2>1, <3>1
    <3>2. CASE m # L + 1
      BY <1>2, <1>3, <1>4, <2>1, <3>2
    <3> QED
      BY <3>1, <3>2
  <2>2. CASE n # L + 1
    <3>1. m # L + 1
      BY <1>2, <1>7, <2>2
    <3>2. m \in DOMAIN l /\ n \in DOMAIN l /\ k[m] = l[m] /\ k[n] = l[n]
      BY <1>2, <1>4, <2>2, <3>1
    <3> QED
      BY <1>7, <3>2 DEF History
  <2> QED
    BY <2>1, <2>2
<1>8. \A c \in ShareClients, x \in Int : Room(k, c, x)
  BY <1>1
<1>9. History(k)
  BY <1>2, <1>6, <1>7, <1>8 DEF History
<1> QED
  BY <1>1, <1>2, <1>5, <1>9

LEMMA ShareRequestKeepsInv ==
  ASSUME ShareInv, NEW c \in ShareClients, ShareRequest(c)
  PROVE  ShareInv'
<1> DEFINE r == Later(stamps[c], clock - ShareWindow)
           full == Len(r) >= ShareMax
           e == [client |-> c, at |-> clock, ok |-> ~full,
                 retry |-> IF ~full THEN 0
                           ELSE ((r[1] + ShareWindow - clock) + ShareSecond - 1) \div ShareSecond]
<1>1. /\ stamps' = [stamps EXCEPT ![c] = IF full THEN r ELSE Append(r, clock)]
      /\ shareLog' = Append(shareLog, e) /\ clock' = clock
  BY DEF ShareRequest, Recent
<1>2. /\ clock \in Nat /\ DOMAIN stamps = ShareClients
      /\ shareLog \in Seq(ShareEntry) /\ Past(shareLog, clock) /\ History(shareLog)
      /\ \A d \in ShareClients : Stamped(shareLog, d, stamps[d], clock)
  BY DEF ShareInv
<1>3. /\ Stamped(shareLog, c, r, clock)
      /\ \A n \in 1..Len(r) : r[n] > clock - ShareWindow
  BY <1>2, StampedRecent
<1>4. /\ stamps'[c] = IF full THEN r ELSE Append(r, clock)
      /\ DOMAIN stamps' = ShareClients
      /\ \A d \in ShareClients : d # c => stamps'[d] = stamps[d]
  BY <1>1, <1>2
<1>5. e.client = c /\ e.at = clock /\ (e.ok <=> ~full)
  OBVIOUS
<1>6. \A d \in ShareClients, x \in Int : Room(shareLog, d, x)
  BY <1>2 DEF History
<1>7. CASE full
  <2>1. e = [client |-> c, at |-> clock, ok |-> FALSE,
             retry |-> ((r[1] + ShareWindow - clock) + ShareSecond - 1) \div ShareSecond]
    BY <1>7
  <2> HIDE DEF r, e
  <2>2. e \in ShareEntry /\ Due(Append(shareLog, e), Len(shareLog) + 1)
    BY <1>2, <1>3, <1>7, <2>1, RefusalIsDue
  <2>3. \A d \in ShareClients, x \in Int : Room(Append(shareLog, e), d, x)
    BY <1>2, <1>5, <1>6, <1>7, <2>2, RoomStill
  <2>4. /\ shareLog' \in Seq(ShareEntry) /\ Past(shareLog', clock) /\ History(shareLog')
    BY <1>1, <1>2, <1>5, <2>2, <2>3, HistoryGrows
  <2>5. Stamped(shareLog', c, stamps'[c], clock)
    BY <1>1, <1>2, <1>3, <1>4, <1>5, <1>7, <2>2, StampedStill
  <2>6. ASSUME NEW d \in ShareClients, d # c PROVE Stamped(shareLog', d, stamps'[d], clock)
    BY <1>1, <1>2, <1>4, <1>5, <2>2, <2>6, StampedStill
  <2> QED
    BY <1>1, <1>2, <1>4, <2>4, <2>5, <2>6 DEF ShareInv
<1>8. CASE ~full
  <2>1. e.retry = 0 /\ e = [client |-> c, at |-> clock, ok |-> TRUE, retry |-> 0]
    BY <1>8
  <2> HIDE DEF r, e
  <2>2. e \in ShareEntry
    BY <1>2, <2>1 DEF ShareEntry
  <2>3. Due(Append(shareLog, e), Len(shareLog) + 1)
    <3>1. PICK k, n : k = Append(shareLog, e) /\ n = Len(shareLog) + 1
      OBVIOUS
    <3>2. k[n] = e
      BY <1>2, <2>2, <3>1
    <3>3. Due(k, n)
      BY <1>5, <1>8, <3>2 DEF Due
    <3> QED
      BY <3>1, <3>3
  <2>4. ASSUME NEW d \in ShareClients, NEW x \in Int PROVE Room(Append(shareLog, e), d, x)
    <3>1. Room(shareLog, d, x)
      BY <1>6
    <3>2. CASE d = c
      BY <1>2, <1>3, <1>5, <1>8, <2>2, <3>1, <3>2, RoomLetIn
    <3>3. CASE d # c
      BY <1>2, <1>5, <2>2, <3>1, <3>3, RoomStill
    <3> QED
      BY <3>2, <3>3
  <2>5. /\ shareLog' \in Seq(ShareEntry) /\ Past(shareLog', clock) /\ History(shareLog')
    BY <1>1, <1>2, <1>5, <2>2, <2>3, <2>4, HistoryGrows
  <2>6. Stamped(shareLog', c, stamps'[c], clock)
    BY <1>1, <1>2, <1>3, <1>4, <1>5, <1>8, <2>2, StampedLetIn
  <2>7. ASSUME NEW d \in ShareClients, d # c PROVE Stamped(shareLog', d, stamps'[d], clock)
    BY <1>1, <1>2, <1>4, <1>5, <2>2, <2>7, StampedStill
  <2> QED
    BY <1>1, <1>2, <1>4, <2>5, <2>6, <2>7 DEF ShareInv
<1> HIDE DEF r, e
<1> QED
  BY <1>7, <1>8

LEMMA ShareInvHolds == ShareSpec => []ShareInv
<1>1. ASSUME ShareInit PROVE ShareInv
  <2>1. clock = 0 /\ DOMAIN stamps = ShareClients /\ shareLog = <<>>
        /\ \A c \in ShareClients : stamps[c] = <<>>
    BY <1>1 DEF ShareInit
  <2>2. PICK l : l = <<>>
    OBVIOUS
  <2>3. l \in Seq(ShareEntry) /\ l \in Seq(Nat) /\ Len(l) = 0 /\ DOMAIN l = {}
    BY <2>2
  <2>4. ShareWindow \in Nat \ {0} /\ ShareMax \in Nat
    BY ShareAssumption
  <2>5. \A c, S : Admitted(l, c, S) = {} /\ Cardinality(Admitted(l, c, S)) = 0
    BY <2>3, FS_EmptySet DEF Admitted
  <2>6. Past(l, 0) /\ History(l)
    BY <2>3, <2>4, <2>5 DEF Past, History, Room
  <2>7. ASSUME NEW c PROVE Stamped(l, c, l, 0)
    <3>1. Rising(l) /\ Len(l) <= ShareMax /\ \A n \in 1..Len(l) : l[n] <= 0
      BY <2>3, <2>4 DEF Rising
    <3>2. ASSUME NEW x \in Int, NEW q \in 0..Len(l)
          PROVE  Cardinality(Admitted(l, c, x..0)) = Len(l) - q
      BY <2>3, <2>5
    <3> QED
      BY <2>3, <3>1, <3>2 DEF Stamped, Counted
  <2> QED
    BY <2>1, <2>2, <2>3, <2>6, <2>7 DEF ShareInv
<1>2. ASSUME ShareInv, [ShareNext]_shareVars PROVE ShareInv'
  <2>1. CASE ShareTick
    <3>1. clock' = clock + 1 /\ stamps' = stamps /\ shareLog' = shareLog
      BY <2>1 DEF ShareTick
    <3>2. clock \in Nat /\ shareLog \in Seq(ShareEntry) /\ Past(shareLog, clock)
      BY <1>2 DEF ShareInv
    <3>3. Past(shareLog, clock + 1)
      BY <3>2, EntryFields DEF Past
    <3>4. \A c \in ShareClients : Stamped(shareLog, c, stamps[c], clock + 1)
      BY <1>2, <3>2, StampedLater DEF ShareInv
    <3>5. DOMAIN stamps = ShareClients /\ History(shareLog)
      BY <1>2 DEF ShareInv
    <3> QED
      BY <3>1, <3>2, <3>3, <3>4, <3>5 DEF ShareInv
  <2>2. ASSUME NEW c \in ShareClients, ShareRequest(c) PROVE ShareInv'
    BY <1>2, <2>2, ShareRequestKeepsInv
  <2>3. CASE UNCHANGED shareVars
    BY <1>2, <2>3 DEF ShareInv, shareVars
  <2> QED
    BY <1>2, <2>1, <2>2, <2>3 DEF ShareNext
<1> QED
  BY <1>1, <1>2, PTL DEF ShareSpec

\* A client that waited as it was told finds room again, unless it was let in.
LEMMA WaitSuffices ==
  ASSUME NEW l \in Seq(ShareEntry), History(l), NEW m \in DOMAIN l, NEW n \in DOMAIN l,
         m < n, l[m].client = l[n].client, ~l[m].ok, ~l[n].ok,
         l[n].at >= l[m].at + l[m].retry * ShareSecond
  PROVE  \E p \in Admitted(l, l[m].client, l[m].at..l[n].at) : m < p /\ p < n
<1>1. SUFFICES ASSUME \A p \in Admitted(l, l[m].client, l[m].at..l[n].at) : ~(m < p /\ p < n)
               PROVE  FALSE
  OBVIOUS
<1>2. ShareWindow \in Nat \ {0} /\ ShareMax \in Nat /\ ShareSecond \in Nat \ {0}
  BY ShareAssumption
<1>3. /\ Len(l) \in Nat /\ DOMAIN l = 1..Len(l)
      /\ \A k \in DOMAIN l : l[k].at \in Nat /\ l[k].retry \in Nat
  BY EntryFields
<1>4. PICK c, a, b : c = l[n].client /\ a = l[m].at /\ b = l[n].at
  OBVIOUS
<1>5. PICK v : v = l[m].retry * ShareSecond
  OBVIOUS
<1>6. a \in Nat /\ b \in Nat /\ v \in Nat /\ b >= a + v /\ m \in Nat /\ n \in Nat
  BY <1>2, <1>3, <1>4, <1>5
<1>7. PICK A, B : /\ A = Before(l, c, (a + v - ShareWindow + 1)..a, m)
                  /\ B = Before(l, c, (b - ShareWindow + 1)..b, n)
  OBVIOUS
<1>8. Cardinality(B) = ShareMax /\ Cardinality(A) < ShareMax
  BY <1>4, <1>5, <1>7 DEF History, Due
<1>9. ASSUME NEW p \in B PROVE p \in A
  <2>1. /\ p \in DOMAIN l /\ l[p].client = c /\ l[p].ok /\ p < n /\ p \in Nat
        /\ l[p].at \in Nat /\ l[p].at >= b - ShareWindow + 1 /\ l[p].at <= b
    BY <1>2, <1>3, <1>6, <1>7 DEF Before, Admitted
  <2>2. p # m
    BY <2>1
  <2>3. ~(m < p)
    <3>1. SUFFICES ASSUME m < p PROVE FALSE
      OBVIOUS
    <3>2. a <= l[p].at
      BY <1>4, <1>6, <2>1, <3>1 DEF History
    <3>3. l[p].at \in a..b
      BY <1>6, <2>1, <3>2
    <3>4. p \in Admitted(l, c, a..b)
      BY <2>1, <3>3 DEF Admitted
    <3> QED
      BY <1>1, <1>4, <2>1, <3>1, <3>4
  <2>4. p < m
    BY <1>6, <2>1, <2>2, <2>3
  <2>5. l[p].at <= a
    BY <1>4, <1>6, <2>1, <2>4 DEF History
  <2>6. l[p].at \in (a + v - ShareWindow + 1)..a
    BY <1>2, <1>6, <2>1, <2>5, SMTT(30)
  <2> QED
    BY <1>7, <2>1, <2>4, <2>6 DEF Before, Admitted
<1>10. IsFiniteSet(A)
  <2>1. PICK T : T = Admitted(l, c, (a + v - ShareWindow + 1)..a)
    OBVIOUS
  <2>2. IsFiniteSet(T) /\ A \subseteq T
    BY <1>7, <2>1, AdmittedIsFinite DEF Before
  <2> QED
    BY <2>2, FS_Subset
<1>11. B \subseteq A
  BY <1>9
<1>12. Cardinality(B) <= Cardinality(A) /\ Cardinality(A) \in Nat
  BY <1>10, <1>11, FS_Subset, FS_CardinalityType
<1> QED
  BY <1>2, <1>8, <1>12

(***************************************************************************)
(* The share button's limit is exact over every window of a client, and the*)
(* wait that a refusal tells is enough (enforceShareLinkRateLimit).        *)
(***************************************************************************)
THEOREM ShareLinkLimitIsExact == ShareSpec => []ShareLimitIsExact
<1>1. ASSUME ShareInv PROVE ShareLimitIsExact
  <2>1. shareLog \in Seq(ShareEntry) /\ History(shareLog)
    BY <1>1 DEF ShareInv
  <2>2. \A c, S : LetIn(c, S) = Admitted(shareLog, c, S)
    BY DEF LetIn, Admitted
  <2>3. ASSUME NEW c \in ShareClients, NEW t \in 0..ShareEnd
        PROVE  Cardinality(LetIn(c, t..(t + ShareWindow - 1))) <= ShareMax
    <3>1. t \in Int
      BY ShareAssumption
    <3> QED
      BY <2>1, <2>2, <3>1 DEF History, Room
  <2>4. ASSUME NEW n \in DOMAIN shareLog, ~shareLog[n].ok
        PROVE  Cardinality({m \in LetIn(shareLog[n].client,
                                        (shareLog[n].at - ShareWindow + 1)..shareLog[n].at) :
                              m < n}) = ShareMax
    BY <2>1, <2>2, <2>4 DEF History, Due, Before
  <2>5. ASSUME NEW m \in DOMAIN shareLog, NEW n \in DOMAIN shareLog, m < n,
               shareLog[m].client = shareLog[n].client, ~shareLog[m].ok, ~shareLog[n].ok,
               shareLog[n].at >= shareLog[m].at + shareLog[m].retry * ShareSecond
        PROVE  \E p \in LetIn(shareLog[m].client, shareLog[m].at..shareLog[n].at) :
                 m < p /\ p < n
    <3>1. \E p \in Admitted(shareLog, shareLog[m].client, shareLog[m].at..shareLog[n].at) :
            m < p /\ p < n
      BY <2>1, <2>5, WaitSuffices
    <3> QED
      BY <2>2, <3>1
  <2> QED
    BY <2>3, <2>4, <2>5 DEF ShareLimitIsExact
<1> QED
  BY <1>1, ShareInvHolds, PTL
-----------------------------------------------------------------------------
\* How a quota's n calls of the counter's window and p calls before it lie
\* among the ages a of the L calls that spent it, with t seconds left to live.
Parted(n, t, p, L, a, seconds) ==
  /\ L = p + n
  /\ \A i \in 1..p : a[i] > 0 /\ (n # 0 => a[i] > seconds - t)
  /\ \A i \in (p + 1)..L : a[i] <= seconds - t

\* A quota's counter and the ages of what has spent it: those of the counter's
\* own window come last, and those before it are no more than the limit.
QuotaFits(c, ages, limit, seconds) ==
  \E n \in 0..limit, t \in 0..seconds, p \in 0..limit :
    /\ c = [count |-> n, ttl |-> t] /\ (n = 0 <=> t = 0)
    /\ ages \in Seq(Nat) /\ Falling(ages)
    /\ Parted(n, t, p, Len(ages), ages, seconds)

GatewayInv ==
  /\ DOMAIN counter = Quotas /\ DOMAIN spent = Quotas
  /\ \A k \in Quotas : QuotaFits(counter[k], spent[k], Limit[k], Seconds[k])

\* How a counter's numbers, and the ages of before and after, are related.
Living(n, t, p, seconds) ==
  n \in Nat /\ t \in 0..seconds /\ p \in Nat /\ (n = 0 <=> t = 0)
Added(a, r, L) == (\A i \in 1..L : a[i] \in Nat /\ r[i] = a[i]) /\ r[L + 1] = 0
Aged(a, r, L, q, seconds) ==
  /\ \A i \in 1..L : a[i] \in Nat /\ (a[i] + 1 < seconds <=> i > q)
  /\ \A j \in 1..(L - q) : r[j] = a[q + j] + 1

LEMMA PartedSpends ==
  ASSUME NEW n, NEW t, NEW p, NEW L \in Nat, NEW a, NEW r, NEW seconds \in Nat \ {0},
         Living(n, t, p, seconds), Parted(n, t, p, L, a, seconds), Added(a, r, L)
  PROVE  Parted(n + 1, IF n = 0 THEN seconds ELSE t, p, L + 1, r, seconds)
<1>0. /\ n \in Nat /\ t \in 0..seconds /\ p \in Nat /\ (n = 0 <=> t = 0)
      /\ (\A i \in 1..L : a[i] \in Nat /\ r[i] = a[i]) /\ r[L + 1] = 0
  BY DEF Living, Added
<1> DEFINE u == IF n = 0 THEN seconds ELSE t
<1>1. /\ L = p + n
      /\ \A i \in 1..p : a[i] > 0 /\ (n # 0 => a[i] > seconds - t)
      /\ \A i \in (p + 1)..L : a[i] <= seconds - t
  BY DEF Parted
<1>2. u \in 1..seconds /\ (n # 0 => u = t) /\ (n = 0 => u = seconds)
  BY <1>0
<1> HIDE DEF u
<1>3. ASSUME NEW i \in 1..p PROVE r[i] > 0 /\ r[i] > seconds - u
  <2>1. i \in 1..L /\ r[i] = a[i] /\ a[i] > 0 /\ a[i] \in Nat
    BY <1>0, <1>1
  <2>2. CASE n = 0
    BY <1>2, <2>1, <2>2
  <2>3. CASE n # 0
    BY <1>1, <1>2, <2>1, <2>3
  <2> QED
    BY <2>2, <2>3
<1>4. ASSUME NEW i \in (p + 1)..(L + 1) PROVE r[i] <= seconds - u
  <2>1. CASE i = L + 1
    BY <1>0, <1>2, <2>1
  <2>2. CASE i # L + 1
    <3>1. i \in (p + 1)..L /\ i \in 1..L /\ n # 0
      BY <1>0, <1>1, <2>2
    <3> QED
      BY <1>0, <1>1, <1>2, <3>1
  <2> QED
    BY <2>1, <2>2
<1>5. L + 1 = p + (n + 1)
  BY <1>0, <1>1
<1>6. Parted(n + 1, u, p, L + 1, r, seconds)
  BY <1>3, <1>4, <1>5 DEF Parted
<1> QED
  BY <1>6 DEF u

LEMMA QuotaSpends ==
  ASSUME NEW c, NEW ages, NEW limit \in Nat \ {0}, NEW seconds \in Nat \ {0},
         QuotaFits(c, ages, limit, seconds), ~(c.count >= limit), NEW d,
         d = IF c.count = 0 THEN [count |-> 1, ttl |-> seconds] ELSE [c EXCEPT !.count = @ + 1]
  PROVE  QuotaFits(d, Append(ages, 0), limit, seconds)
<1>1. PICK n \in 0..limit, t \in 0..seconds, p \in 0..limit :
        /\ c = [count |-> n, ttl |-> t] /\ (n = 0 <=> t = 0)
        /\ ages \in Seq(Nat) /\ Falling(ages)
        /\ Parted(n, t, p, Len(ages), ages, seconds)
  BY DEF QuotaFits
<1>2. PICK u : u = IF n = 0 THEN seconds ELSE t
  OBVIOUS
<1>3. c.count = n /\ c.ttl = t
  BY <1>1
<1>4. d = [count |-> n + 1, ttl |-> u]
  BY <1>1, <1>2, <1>3
<1>5. n + 1 \in 0..limit /\ u \in 0..seconds /\ n + 1 # 0 /\ u # 0
  BY <1>1, <1>2, <1>3
<1>6. PICK r, L : r = Append(ages, 0) /\ L = Len(ages)
  OBVIOUS
<1>7. /\ r \in Seq(Nat) /\ Len(r) = L + 1 /\ L \in Nat
      /\ \A i \in 1..L : ages[i] \in Nat /\ r[i] = ages[i]
      /\ r[L + 1] = 0
  BY <1>1, <1>6
<1>8. Falling(r)
  BY <1>1, <1>6, <1>7, SMTT(30) DEF Falling
<1>9. Parted(n, t, p, L, ages, seconds)
  BY <1>1, <1>6
<1>10. Living(n, t, p, seconds)
  BY <1>1 DEF Living
<1>11. Added(ages, r, L)
  BY <1>7 DEF Added
<1>13. Parted(n + 1, u, p, L + 1, r, seconds)
  BY <1>2, <1>7, <1>9, <1>10, <1>11, PartedSpends
<1>12. QuotaFits(d, r, limit, seconds)
  <2>1. Parted(n + 1, u, p, Len(r), r, seconds)
    BY <1>7, <1>13
  <2>2. d = [count |-> n + 1, ttl |-> u] /\ (n + 1 = 0 <=> u = 0)
    BY <1>4, <1>5
  <2>3. r \in Seq(Nat)
    BY <1>7
  <2> QED
    BY <1>5, <1>8, <2>1, <2>2, <2>3 DEF QuotaFits
<1> QED
  BY <1>6, <1>12

\* A second later, with the counter still alive, only calls from before its
\* window have grown too old.
LEMMA PartedLives ==
  ASSUME NEW n, NEW t, NEW p, NEW L \in Nat, NEW a, NEW r, NEW seconds \in Nat \ {0},
         Living(n, t, p, seconds), t > 1, Parted(n, t, p, L, a, seconds),
         NEW q \in 0..L, Aged(a, r, L, q, seconds)
  PROVE  q <= p /\ Parted(n, t - 1, p - q, L - q, r, seconds)
<1>0. /\ n \in Nat \ {0} /\ t \in 2..seconds /\ p \in Nat
      /\ \A i \in 1..L : a[i] \in Nat /\ (a[i] + 1 < seconds <=> i > q)
      /\ \A j \in 1..(L - q) : r[j] = a[q + j] + 1
  BY DEF Living, Aged
<1>1. /\ L = p + n
      /\ \A i \in 1..p : a[i] > 0 /\ a[i] > seconds - t
      /\ \A i \in (p + 1)..L : a[i] <= seconds - t
  BY <1>0 DEF Parted
<1>2. q <= p
  <2>1. SUFFICES ASSUME ~(q <= p) PROVE FALSE
    OBVIOUS
  <2>2. q \in (p + 1)..L /\ q \in 1..L /\ ~(q > q)
    BY <1>0, <2>1
  <2>3. a[q] <= seconds - t /\ a[q] \in Nat /\ ~(a[q] + 1 < seconds)
    BY <1>0, <1>1, <2>2
  <2> QED
    BY <1>0, <2>3
<1>3. ASSUME NEW j \in 1..(p - q) PROVE r[j] > 0 /\ r[j] > seconds - (t - 1)
  <2>1. j \in 1..(L - q) /\ q + j \in 1..p /\ q + j \in 1..L
    BY <1>0, <1>1, <1>2
  <2>2. PICK x : x = a[q + j]
    OBVIOUS
  <2>3. r[j] = x + 1 /\ x \in Nat /\ x > seconds - t
    BY <1>0, <1>1, <2>1, <2>2
  <2> QED
    BY <1>0, <2>3
<1>4. ASSUME NEW j \in ((p - q) + 1)..(L - q) PROVE r[j] <= seconds - (t - 1)
  <2>1. j \in 1..(L - q) /\ q + j \in (p + 1)..L /\ q + j \in 1..L
    BY <1>0, <1>1, <1>2
  <2>2. PICK x : x = a[q + j]
    OBVIOUS
  <2>3. r[j] = x + 1 /\ x \in Nat /\ x <= seconds - t
    BY <1>0, <1>1, <2>1, <2>2
  <2> QED
    BY <1>0, <2>3
<1>5. L - q = (p - q) + n
  BY <1>0, <1>1
<1> QED
  BY <1>0, <1>2, <1>3, <1>4, <1>5 DEF Parted

\* And when it expires, all of them have.
LEMMA PartedExpires ==
  ASSUME NEW n, NEW t, NEW p, NEW L \in Nat, NEW a, NEW r, NEW seconds \in Nat \ {0},
         Living(n, t, p, seconds), ~(t > 1), Parted(n, t, p, L, a, seconds),
         NEW limit \in Nat, n <= limit, p <= limit,
         NEW q \in 0..L, Aged(a, r, L, q, seconds)
  PROVE  L - q <= limit /\ Parted(0, 0, L - q, L - q, r, seconds)
<1>0. /\ n \in Nat /\ t \in 0..1 /\ p \in Nat /\ (n = 0 <=> t = 0)
      /\ \A i \in 1..L : a[i] \in Nat /\ (a[i] + 1 < seconds <=> i > q)
      /\ \A j \in 1..(L - q) : r[j] = a[q + j] + 1
  BY DEF Living, Aged
<1>1. /\ L = p + n
      /\ \A i \in 1..p : a[i] > 0 /\ (n # 0 => a[i] > seconds - t)
      /\ \A i \in (p + 1)..L : a[i] <= seconds - t
  BY <1>0 DEF Parted
<1>2. L - q <= limit
  <2>1. CASE t = 0
    BY <1>0, <1>1, <2>1
  <2>2. CASE t = 1
    <3>1. q >= p
      <4>1. SUFFICES ASSUME ~(q >= p) PROVE FALSE
        OBVIOUS
      <4>2. p \in 1..p /\ p \in 1..L /\ p > q
        BY <1>0, <1>1, <4>1
      <4>3. a[p] > seconds - 1 /\ a[p] \in Nat /\ a[p] + 1 < seconds
        BY <1>0, <1>1, <2>2, <4>2
      <4> QED
        BY <1>0, <4>3
    <3> QED
      BY <1>0, <1>1, <3>1
  <2> QED
    BY <1>0, <2>1, <2>2
<1>3. ASSUME NEW j \in 1..(L - q) PROVE r[j] > 0
  <2>1. q + j \in 1..L
    BY <1>0, <1>2
  <2>2. PICK x : x = a[q + j]
    OBVIOUS
  <2>3. r[j] = x + 1 /\ x \in Nat
    BY <1>0, <2>1, <2>2
  <2> QED
    BY <1>0, <2>3
<1>4. \A j \in ((L - q) + 1)..(L - q) : r[j] <= seconds - 0
  OBVIOUS
<1>5. L - q = (L - q) + 0
  OBVIOUS
<1> QED
  BY <1>0, <1>2, <1>3, <1>4, <1>5 DEF Parted

LEMMA QuotaAges ==
  ASSUME NEW c, NEW ages, NEW limit \in Nat \ {0}, NEW seconds \in Nat \ {0},
         QuotaFits(c, ages, limit, seconds), NEW d,
         d = IF c.ttl > 1 THEN [c EXCEPT !.ttl = @ - 1] ELSE NoCounter
  PROVE  QuotaFits(d, Below([i \in DOMAIN ages |-> ages[i] + 1], seconds), limit, seconds)
<1>1. PICK n \in 0..limit, t \in 0..seconds, p \in 0..limit :
        /\ c = [count |-> n, ttl |-> t] /\ (n = 0 <=> t = 0)
        /\ ages \in Seq(Nat) /\ Falling(ages)
        /\ Parted(n, t, p, Len(ages), ages, seconds)
  BY DEF QuotaFits
<1>2. c.count = n /\ c.ttl = t
  BY <1>1
<1>3. PICK L, s : L = Len(ages) /\ s = [i \in DOMAIN ages |-> ages[i] + 1]
  OBVIOUS
<1>4. /\ L \in Nat /\ s \in Seq(Nat) /\ Len(s) = L
      /\ \A i \in 1..L : s[i] = ages[i] + 1 /\ ages[i] \in Nat
  <2>1. PICK l \in Nat : l = Len(ages)
    <3>1. ages \in Seq(Nat)
      BY <1>1
    <3> QED
      BY <3>1
  <2>2. DOMAIN ages = 1..l /\ \A i \in 1..l : ages[i] \in Nat
    BY <1>1, <2>1
  <2>3. s = [i \in 1..l |-> ages[i] + 1]
    BY <1>3, <2>2
  <2> QED
    BY <1>3, <2>1, <2>2, <2>3
<1>5. Falling(s)
  <2>1. ASSUME NEW m \in 1..L, NEW k \in 1..L, m <= k PROVE s[k] <= s[m]
    <3>1. ages[k] <= ages[m]
      BY <1>1, <1>3, <2>1 DEF Falling
    <3> QED
      BY <1>4, <3>1, SMTT(30)
  <2> QED
    BY <1>4, <2>1 DEF Falling
<1>6. PICK q \in 0..Len(s) : /\ Below(s, seconds) = Rest(s, q, Len(s))
                             /\ \A m \in 1..Len(s) : s[m] < seconds <=> m > q
  BY <1>4, <1>5, BelowIs
<1>7. PICK r : r = Rest(s, q, Len(s))
  OBVIOUS
<1>8. /\ q \in 0..L /\ r \in Seq(Nat) /\ Len(r) = L - q
      /\ \A j \in 1..(L - q) : q + j \in 1..L /\ r[j] = s[q + j]
  <2>1. /\ r \in Seq(Nat) /\ Len(r) = Len(s) - q
        /\ \A j \in 1..(Len(s) - q) : q + j \in 1..Len(s) /\ r[j] = s[q + j]
    <3>1. s \in Seq(Nat)
      BY <1>4
    <3> QED
      BY <1>7, <3>1, RestIs, Zenon
  <2> QED
    BY <1>4, <2>1
<1>9. Falling(r)
  <2>1. ASSUME NEW m \in 1..(L - q), NEW k \in 1..(L - q), m <= k PROVE r[k] <= r[m]
    <3>1. q + m \in 1..L /\ q + k \in 1..L /\ r[m] = s[q + m] /\ r[k] = s[q + k]
      BY <1>8
    <3>2. q + m <= q + k
      BY <1>4, <1>8, <2>1
    <3> QED
      BY <1>4, <1>5, <3>1, <3>2 DEF Falling
  <2> QED
    BY <1>8, <2>1 DEF Falling
<1>10. Aged(ages, r, L, q, seconds)
  BY <1>4, <1>6, <1>8 DEF Aged
<1>11. Living(n, t, p, seconds)
  BY <1>1 DEF Living
<1>12. Parted(n, t, p, L, ages, seconds)
  BY <1>1, <1>3
<1>13. n <= limit /\ p <= limit /\ limit \in Nat /\ q \in 0..L /\ L \in Nat
  BY <1>4, <1>8
<1>15. QuotaFits(d, r, limit, seconds)
  <2>1. CASE t > 1
    <3>1. n # 0
      BY <1>1, <2>1
    <3>2. q <= p /\ Parted(n, t - 1, p - q, L - q, r, seconds)
      BY <1>10, <1>11, <1>12, <1>13, <2>1, PartedLives
    <3>3. d = [count |-> n, ttl |-> t - 1]
      BY <1>1, <1>2, <2>1
    <3>4. t - 1 \in 0..seconds /\ t - 1 # 0 /\ p - q \in 0..limit
      BY <1>8, <1>13, <2>1, <3>2
    <3> QED
      BY <1>8, <1>9, <3>1, <3>2, <3>3, <3>4 DEF QuotaFits
  <2>2. CASE ~(t > 1)
    <3>1. L - q <= limit /\ Parted(0, 0, L - q, L - q, r, seconds)
      BY <1>10, <1>11, <1>12, <1>13, <2>2, PartedExpires
    <3>2. d = [count |-> 0, ttl |-> 0]
      BY <1>2, <2>2 DEF NoCounter
    <3>3. L - q \in 0..limit /\ 0 \in 0..limit /\ 0 \in 0..seconds
      BY <1>4, <1>8, <1>13, <3>1
    <3> QED
      BY <1>8, <1>9, <3>1, <3>2, <3>3 DEF QuotaFits
  <2> QED
    BY <2>1, <2>2
<1> QED
  BY <1>3, <1>6, <1>7, <1>15

LEMMA GatewayStep ==
  ASSUME GatewayInv, \/ \E kind \in {"rpc", "trace", "explorer"} : Spend(kind) \/ Refuse(kind)
                     \/ Expire \/ UNCHANGED gatewayVars
  PROVE  GatewayInv'
<1>0. \A k \in Quotas : Limit[k] \in Nat \ {0} /\ Seconds[k] \in Nat \ {0}
  BY GatewayAssumption
<1>1. ASSUME NEW kind \in {"rpc", "trace", "explorer"}, Spend(kind) PROVE GatewayInv'
  <2>1. DOMAIN counter' = Quotas /\ DOMAIN spent' = Quotas
    BY <1>1 DEF Spend, SpentBy
  <2>2. ASSUME NEW k \in Quotas PROVE QuotaFits(counter'[k], spent'[k], Limit[k], Seconds[k])
    <3>1. CASE k \in Keys(kind)
      <4>1. /\ counter'[k] = IF counter[k].count = 0 THEN [count |-> 1, ttl |-> Seconds[k]]
                             ELSE [counter[k] EXCEPT !.count = @ + 1]
            /\ spent'[k] = Append(spent[k], 0)
        BY <1>1, <3>1 DEF Spend, SpentBy, Incremented
      <4>2. ~(counter[k].count >= Limit[k])
        BY <1>1, <3>1 DEF Spend, Refuses, Full
      <4> QED
        BY <1>0, <4>1, <4>2, QuotaSpends DEF GatewayInv
    <3>2. CASE k \notin Keys(kind)
      BY <1>1, <3>2 DEF Spend, SpentBy, GatewayInv
    <3> QED
      BY <3>1, <3>2
  <2> QED
    BY <2>1, <2>2 DEF GatewayInv
<1>2. ASSUME Expire PROVE GatewayInv'
  <2>1. DOMAIN counter' = Quotas /\ DOMAIN spent' = Quotas
    BY <1>2 DEF Expire
  <2>2. ASSUME NEW k \in Quotas PROVE QuotaFits(counter'[k], spent'[k], Limit[k], Seconds[k])
    <3>1. /\ counter'[k] = IF counter[k].ttl > 1 THEN [counter[k] EXCEPT !.ttl = @ - 1]
                           ELSE NoCounter
          /\ spent'[k] = Below([i \in DOMAIN spent[k] |-> spent[k][i] + 1], Seconds[k])
      BY <1>2 DEF Expire
    <3> QED
      BY <1>0, <3>1, QuotaAges DEF GatewayInv
  <2> QED
    BY <2>1, <2>2 DEF GatewayInv
<1>3. ASSUME UNCHANGED gatewayVars PROVE GatewayInv'
  BY <1>3 DEF GatewayInv, gatewayVars
<1>4. ASSUME NEW kind \in {"rpc", "trace", "explorer"}, Refuse(kind) PROVE GatewayInv'
  BY <1>4 DEF GatewayInv, Refuse, AfterRefusal
<1> QED
  BY <1>1, <1>2, <1>3, <1>4

LEMMA GatewayInvHolds == TracedSpec => []GatewayInv
<1>1. ASSUME PacingInit PROVE GatewayInv
  <2>1. ASSUME NEW k \in Quotas PROVE QuotaFits(counter[k], spent[k], Limit[k], Seconds[k])
    <3>1. counter[k] = NoCounter /\ spent[k] = <<>> /\ Limit[k] \in Nat \ {0} /\ Seconds[k] \in Nat \ {0}
      BY <1>1, GatewayAssumption DEF PacingInit, GatewayInit
    <3>2. PICK s : s = <<>>
      OBVIOUS
    <3>3. s \in Seq(Nat) /\ Len(s) = 0
      BY <3>2
    <3>4. Falling(s)
      BY <3>3 DEF Falling
    <3>5. Parted(0, 0, 0, 0, s, Seconds[k])
      BY DEF Parted
    <3>6. 0 \in 0..Limit[k] /\ 0 \in 0..Seconds[k]
      BY <3>1
    <3>7. counter[k] = [count |-> 0, ttl |-> 0]
      BY <3>1 DEF NoCounter
    <3> QED
      BY <3>1, <3>2, <3>3, <3>4, <3>5, <3>6, <3>7 DEF QuotaFits
  <2> QED
    BY <1>1, <2>1 DEF GatewayInv, PacingInit, GatewayInit
<1>2. ASSUME GatewayInv, [TracedNext]_tracedVars PROVE GatewayInv'
  <2>1. \/ \E kind \in {"rpc", "trace", "explorer"} : Spend(kind) \/ Refuse(kind)
        \/ Expire \/ UNCHANGED gatewayVars
    BY <1>2 DEF TracedNext, tracedVars, TracedTick, SlotComes, CallSteps, TakeSlot, RefusedByQuota,
                LetThrough, QuotaUnavailable, ProviderAnswers, OtherProcess
  <2> QED
    BY <1>2, <2>1, GatewayStep
<1> QED
  BY <1>1, <1>2, PTL DEF TracedSpec

(***************************************************************************)
(* No call is refused but for a quota spent in full within its window, and *)
(* no window holds more than twice a quota's limit (quotaScript).          *)
(***************************************************************************)
THEOREM GatewayAllowanceIsHonest == TracedSpec => []AllowanceIsHonest
<1>1. GatewayInv => AllowanceIsHonest
  <2> SUFFICES ASSUME GatewayInv PROVE AllowanceIsHonest
    OBVIOUS
  <2>1. ASSUME NEW k \in Quotas
        PROVE  /\ Len(spent[k]) <= 2 * Limit[k]
               /\ Full(k) => Len(spent[k]) >= Limit[k]
    <3>1. Limit[k] \in Nat \ {0}
      BY GatewayAssumption
    <3>2. PICK n \in 0..Limit[k], t \in 0..Seconds[k], p \in 0..Limit[k] :
            counter[k] = [count |-> n, ttl |-> t] /\ Parted(n, t, p, Len(spent[k]), spent[k], Seconds[k])
      BY DEF GatewayInv, QuotaFits
    <3>3. counter[k].count = n /\ Len(spent[k]) = p + n
      BY <3>2 DEF Parted
    <3> QED
      BY <3>1, <3>3 DEF Full
  <2>2. \A kind \in {"rpc", "trace", "explorer"} : Keys(kind) \subseteq Quotas
    <3>1. ASSUME NEW kind \in {"rpc", "trace", "explorer"} PROVE Keys(kind) \subseteq Quotas
      <4>1. CASE kind = "rpc"
        <5>1. limits(kind) = <<"day", "minute">>
          BY <4>1 DEF limits
        <5> QED
          BY <5>1 DEF Keys, Quotas
      <4>2. CASE kind # "rpc"
        <5>1. limits(kind) = <<"day", "minute">> \o <<kind>>
          BY <4>2 DEF limits
        <5>2. PICK a, b : a = <<"day", "minute">> /\ b = <<kind>>
          OBVIOUS
        <5>5. PICK E : E = {"day", "minute", kind}
          OBVIOUS
        <5>6. a \in Seq(E) /\ b \in Seq(E)
          BY <5>2, <5>5
        <5>3. a \o b \in Seq(E)
          BY <5>6
        <5>7. \A i \in DOMAIN (a \o b) : (a \o b)[i] \in E
          BY <5>3
        <5>4. kind \in {"trace", "explorer"}
          BY <4>2
        <5> QED
          BY <5>1, <5>2, <5>4, <5>5, <5>7 DEF Keys, Quotas
      <4> QED
        BY <4>1, <4>2
    <3> QED
      BY <3>1
  <2>3. \A kind \in {"rpc", "trace", "explorer"} :
          Refuses(kind) => \E k \in Keys(kind) : Len(spent[k]) >= Limit[k]
    BY <2>1, <2>2 DEF Refuses
  <2> QED
    BY <2>1, <2>3 DEF AllowanceIsHonest
<1> QED
  BY <1>1, GatewayInvHolds, PTL
=============================================================================
