----------------------------- MODULE ChecksProofs -----------------------------
(***************************************************************************)
(* Proofs about what the checks of a report run in and look up by.         *)
(* CheckRunner: any number of checks and calls, any deadlines, and checks  *)
(* that hold the event loop for any bounded time.  VerificationCache and   *)
(* AbiLookup: any lookups, any ages of entries, and any contract.          *)
(***************************************************************************)
EXTENDS CheckRunner, VerificationCache, AbiLookup, TLAPS
-----------------------------------------------------------------------------
(* CheckRunner.                                                            *)

\* A timer is set within the call, and no later than the check's own time.
LEMMA TimeoutFitsBoth ==
  ASSUME TypeOK, i \in Checks, remainingGlobalMs > 0
  PROVE  /\ now + effectiveTimeoutMs \in 0..Global
         /\ now + effectiveTimeoutMs # Global =>
              now + effectiveTimeoutMs = now + PerCheck[i]
<1>1. PerCheck[i] \in Nat \ {0} /\ Global \in Nat /\ now \in Nat
  BY RunnerAssumption DEF TypeOK
<1>2. QED
  BY <1>1 DEF effectiveTimeoutMs, remainingGlobalMs

\* Giving a verdict to some checks leaves the others what they had.
LEMMA GivenVerdicts ==
  ASSUME TypeOK, NEW S, NEW v \in Verdicts
  PROVE  /\ Give(S, v) \in [Checks -> [verdict: Verdicts, at: Nat]]
         /\ \A c \in Checks :
              /\ c \in S => Give(S, v)[c] = [verdict |-> v, at |-> now]
              /\ c \notin S => Give(S, v)[c] = results[c]
BY DEF TypeOK, Give

LEMMA LatestBounds ==
  /\ Latest \in Nat
  /\ Latest >= Global
  /\ Latest >= MaxHold
<1>1. Global \in Nat /\ Global >= 1 /\ MaxHold \in Nat
  BY RunnerAssumption
<1>2. QED
  BY <1>1 DEF Latest

\* Held before the deadline, the event loop is let go in time.
LEMMA HeldBeforeDeadline ==
  ASSUME NEW t \in Nat, t < Global, NEW h \in 0..MaxHold
  PROVE  t + h <= Latest
<1>1. Global \in Nat /\ MaxHold \in Nat
  BY RunnerAssumption
<1>2. h \in Nat /\ h <= MaxHold
  BY <1>1
<1>3. QED
  BY <1>1, <1>2 DEF Latest

LEMMA InitIInv == Init => IInv
<1> SUFFICES ASSUME Init PROVE IInv
  OBVIOUS
<1> USE RunnerAssumption DEF Init
<1>1. Unknown \in [Checks -> [verdict: Verdicts, at: Nat]]
  BY DEF Unknown, Verdicts
<1>2. TypeOK
  BY <1>1 DEF TypeOK, Checks
<1>3. SkipsAreEarned /\ VerdictsInTurn
  BY DEF SkipsAreEarned, VerdictsInTurn, Unknown
<1>4. TimerIsSet /\ HeldInTime
  BY LatestBounds DEF TimerIsSet, HeldInTime
<1>5. QED
  BY <1>2, <1>3, <1>4 DEF IInv

LEMMA NextIInv == IInv /\ [Next]_vars => IInv'
<1> SUFFICES ASSUME IInv, [Next]_vars PROVE IInv'
  OBVIOUS
<1> USE DEF IInv
<1>0. /\ Count \in Nat \ {0} /\ Calls \in Nat \ {0} /\ Global \in Nat \ {0}
      /\ PerCheck \in [Checks -> Nat \ {0}]
      /\ MaxHold \in Nat
  BY RunnerAssumption
<1>1. CASE OutOfTime
  <2>1. results' = Give({c \in Checks : c >= i}, "global") /\ now >= Global
    BY <1>0, <1>1 DEF OutOfTime, remainingGlobalMs, TypeOK
  <2>2. TypeOK'
    BY <1>1, <2>1, GivenVerdicts DEF OutOfTime, TypeOK, Verdicts
  <2>3. SkipsAreEarned'
    BY <1>1, <2>1, GivenVerdicts DEF OutOfTime, SkipsAreEarned, Verdicts
  <2>4. (VerdictsInTurn /\ TimerIsSet /\ HeldInTime)'
    BY <1>1 DEF OutOfTime, VerdictsInTurn, TimerIsSet, HeldInTime
  <2>5. QED
    BY <2>2, <2>3, <2>4
<1>2. CASE StartCheck
  <2>1. i \in Checks /\ now \in Nat /\ now < Global
    BY <1>0, <1>2 DEF StartCheck, TypeOK, Checks, remainingGlobalMs
  <2>2. timer' \in 0..Global /\ (timer' # Global => timer' = now + PerCheck[i])
    BY <1>2, <2>1, TimeoutFitsBoth DEF StartCheck
  <2>3. began' \in [Checks -> Nat] /\ began'[i] = now
        /\ \A c \in Checks : c # i => began'[c] = began[c]
    BY <1>2, <2>1 DEF StartCheck, TypeOK
  <2>4. TypeOK'
    BY <1>2, <2>1, <2>2, <2>3 DEF StartCheck, TypeOK
  <2>5. results[i].verdict = "none"
    BY <1>2, <2>1 DEF StartCheck, VerdictsInTurn, TypeOK, Checks
  <2>6. SkipsAreEarned'
    BY <1>2, <2>3, <2>5 DEF StartCheck, SkipsAreEarned
  <2>7. VerdictsInTurn'
    BY <1>2 DEF StartCheck, VerdictsInTurn
  <2>8. TimerIsSet'
    BY <1>0, <1>2, <2>2, <2>3 DEF StartCheck, TimerIsSet
  <2>9. HeldInTime'
    <3>1. now' = now /\ held' \in 0..MaxHold
      BY <1>2 DEF StartCheck
    <3>2. QED
      BY <2>1, <3>1, HeldBeforeDeadline DEF HeldInTime
  <2>10. QED
    BY <2>4, <2>6, <2>7, <2>8, <2>9
<1>3. CASE Finished
  <2>1. TypeOK'
    BY <1>3 DEF Finished, TypeOK
  <2>2. (SkipsAreEarned /\ VerdictsInTurn /\ TimerIsSet /\ HeldInTime)'
    BY <1>3 DEF Finished, SkipsAreEarned, VerdictsInTurn, TimerIsSet, HeldInTime
  <2>3. QED
    BY <2>1, <2>2
<1>4. CASE NextCall
  <2>1. results' = Unknown
    BY <1>4 DEF NextCall
  <2>2. Unknown \in [Checks -> [verdict: Verdicts, at: Nat]]
    BY DEF Unknown, Verdicts
  <2>3. TypeOK'
    BY <1>0, <1>4, <2>1, <2>2 DEF NextCall, TypeOK, Checks
  <2>4. (SkipsAreEarned /\ VerdictsInTurn /\ TimerIsSet)'
    BY <1>4, <2>1 DEF NextCall, SkipsAreEarned, VerdictsInTurn, TimerIsSet, Unknown
  <2>5. HeldInTime'
    BY <1>0, <1>4, LatestBounds DEF NextCall, HeldInTime, TypeOK
  <2>6. QED
    BY <2>3, <2>4, <2>5
<1>5. CASE Settle
  <2>1. i \in 1..Count /\ i' = i + 1 /\ Count \in Nat
    BY <1>0, <1>5 DEF Settle, TypeOK, Checks
  <2>2. PICK v \in {"answer", "error"} : results' = Give({i}, v)
    BY <1>5 DEF Settle
  <2>3. v \in Verdicts /\ v # "per-check" /\ v # "global"
    BY DEF Verdicts
  <2>4. /\ results' \in [Checks -> [verdict: Verdicts, at: Nat]]
        /\ \A c \in Checks :
             IF c = i THEN results'[c] = [verdict |-> v, at |-> now]
                      ELSE results'[c] = results[c]
    BY <2>2, <2>3, GivenVerdicts
  <2>5. TypeOK'
    <3>1. i' \in 1..(Count + 1)
      BY <2>1
    <3>2. QED
      BY <1>5, <2>4, <3>1 DEF Settle, TypeOK
  <2>6. SkipsAreEarned'
    <3>1. began' = began
      BY <1>5 DEF Settle
    <3>2. \A c \in Checks : c = i \/ results'[c] = results[c]
      BY <2>4
    <3>3. results'[i].verdict = v
      BY <2>1, <2>4 DEF Checks
    <3>4. QED
      BY <2>3, <3>1, <3>2, <3>3 DEF SkipsAreEarned
  <2>7. VerdictsInTurn'
    <3>1. \A c \in Checks : c >= i + 1 => c >= i /\ c # i
      BY <2>1 DEF Checks
    <3>2. \A c \in Checks : c >= i => results[c].verdict = "none"
      BY <1>5 DEF Settle, VerdictsInTurn
    <3>3. QED
      BY <2>1, <2>4, <3>1, <3>2 DEF VerdictsInTurn
  <2>8. (TimerIsSet /\ HeldInTime)'
    BY <1>5 DEF Settle, TimerIsSet, HeldInTime
  <2>9. QED
    BY <2>5, <2>6, <2>7, <2>8
<1>6. CASE TimeOut
  <2>1. /\ i \in 1..Count /\ Count \in Nat /\ i \in Checks
        /\ pc = "await" /\ now >= timer
        /\ now \in Nat /\ timer \in Nat /\ Global \in Nat
    BY <1>0, <1>6 DEF TimeOut, Due, TypeOK, Checks
  <2>2. CASE timeoutKind = "per-check"
    <3>1. results' = Give({i}, "per-check") /\ i' = i + 1 /\ pc' = "loop"
      BY <1>6, <2>2 DEF TimeOut
    <3>2. timer = began[i] + PerCheck[i]
      BY <2>1, <2>2 DEF TimerIsSet, timeoutKind
    <3>3. "per-check" \in Verdicts
      BY DEF Verdicts
    <3>4. /\ results' \in [Checks -> [verdict: Verdicts, at: Nat]]
          /\ \A c \in Checks :
               IF c = i THEN results'[c] = [verdict |-> "per-check", at |-> now]
                        ELSE results'[c] = results[c]
      BY <3>1, <3>3, GivenVerdicts
    <3>5. TypeOK'
      <4>1. i' \in 1..(Count + 1)
        BY <2>1, <3>1
      <4>2. QED
        BY <1>6, <3>1, <3>4, <4>1 DEF TimeOut, TypeOK
    <3>6. began[i] \in Nat /\ PerCheck[i] \in Nat
      BY <1>0, <2>1 DEF TypeOK
    <3>7. now - began[i] >= PerCheck[i]
      BY <2>1, <3>2, <3>6
    <3>8. SkipsAreEarned'
      BY <1>6, <3>4, <3>7 DEF TimeOut, SkipsAreEarned
    <3>9. VerdictsInTurn'
      <4>1. \A c \in Checks : c >= i + 1 => c >= i /\ c # i
        BY <2>1 DEF Checks
      <4>2. \A c \in Checks : c >= i => results[c].verdict = "none"
        BY <2>1 DEF VerdictsInTurn
      <4>3. QED
        BY <3>1, <3>4, <4>1, <4>2 DEF VerdictsInTurn
    <3>10. (TimerIsSet /\ HeldInTime)'
      BY <1>6, <3>1 DEF TimeOut, TimerIsSet, HeldInTime
    <3>11. QED
      BY <3>5, <3>8, <3>9, <3>10
  <2>3. CASE timeoutKind # "per-check"
    <3>1. /\ results' = Give({c \in Checks : c >= i}, "global")
          /\ pc' = "done" /\ i' = i
      BY <1>6, <2>3 DEF TimeOut
    <3>2. now >= Global
      BY <2>1, <2>3 DEF timeoutKind
    <3>3. "global" \in Verdicts
      BY DEF Verdicts
    <3>4. /\ results' \in [Checks -> [verdict: Verdicts, at: Nat]]
          /\ \A c \in Checks :
               \/ results'[c] = [verdict |-> "global", at |-> now]
               \/ results'[c] = results[c]
      BY <3>1, <3>3, GivenVerdicts
    <3>5. TypeOK'
      BY <1>6, <3>1, <3>4 DEF TimeOut, TypeOK
    <3>6. SkipsAreEarned'
      BY <1>6, <3>2, <3>4 DEF TimeOut, SkipsAreEarned
    <3>7. (VerdictsInTurn /\ TimerIsSet /\ HeldInTime)'
      BY <1>6, <3>1 DEF TimeOut, VerdictsInTurn, TimerIsSet, HeldInTime
    <3>8. QED
      BY <3>5, <3>6, <3>7
  <2>4. QED
    BY <2>2, <2>3
<1>7. CASE Hold
  <2>1. held' \in 1..MaxHold /\ pc = "await" /\ now < timer
    BY <1>0, <1>7 DEF Hold, Due, TypeOK
  <2>2. TypeOK'
    BY <1>0, <1>7 DEF Hold, TypeOK
  <2>3. (SkipsAreEarned /\ VerdictsInTurn /\ TimerIsSet)'
    BY <1>7 DEF Hold, SkipsAreEarned, VerdictsInTurn, TimerIsSet
  <2>4. now \in Nat /\ now <= Global - 1
    BY <1>0, <2>1 DEF TypeOK
  <2>5. HeldInTime'
    <3>1. now' = now
      BY <1>7 DEF Hold
    <3>2. now < Global /\ held' \in 0..MaxHold
      BY <1>0, <2>1, <2>4
    <3>3. QED
      BY <2>4, <3>1, <3>2, HeldBeforeDeadline DEF HeldInTime
  <2>6. QED
    BY <2>2, <2>3, <2>5
<1>8. CASE Tick
  <2>1. now \in Nat /\ held \in 0..MaxHold
    BY DEF TypeOK
  <2>2. TypeOK'
    BY <1>0, <1>8, <2>1 DEF Tick, TypeOK
  <2>3. (SkipsAreEarned /\ VerdictsInTurn /\ TimerIsSet)'
    BY <1>8 DEF Tick, SkipsAreEarned, VerdictsInTurn, TimerIsSet
  <2>4. HeldInTime'
    BY <1>0, <1>8, <2>1, LatestBounds
    DEF Tick, Due, HeldInTime, TypeOK, TimerIsSet
  <2>5. QED
    BY <2>2, <2>3, <2>4
<1>9. CASE \E r \in running : SettleUnheard(r)
  <2>1. TypeOK'
    BY <1>9 DEF SettleUnheard, TypeOK
  <2>2. (SkipsAreEarned /\ VerdictsInTurn /\ TimerIsSet /\ HeldInTime)'
    BY <1>9
    DEF SettleUnheard, SkipsAreEarned, VerdictsInTurn, TimerIsSet, HeldInTime
  <2>3. QED
    BY <2>1, <2>2
<1>10. CASE UNCHANGED vars
  <2>1. TypeOK'
    BY <1>10 DEF vars, TypeOK
  <2>2. (SkipsAreEarned /\ VerdictsInTurn /\ TimerIsSet /\ HeldInTime)'
    BY <1>10 DEF vars, SkipsAreEarned, VerdictsInTurn, TimerIsSet, HeldInTime
  <2>3. QED
    BY <2>1, <2>2
<1>11. QED
  BY <1>1, <1>2, <1>3, <1>4, <1>5, <1>6, <1>7, <1>8, <1>9, <1>10 DEF Next, Loop

LEMMA RunnerIInv == Spec => []IInv
BY InitIInv, NextIInv, PTL DEF Spec

\* The runner's state keeps its types, whatever checks do and for how long.
THEOREM RunnerTypeCorrect == Spec => []TypeOK
<1>1. IInv => TypeOK
  BY DEF IInv
<1>2. QED
  BY <1>1, RunnerIInv, PTL

\* No check is skipped before its own time, or the call's, is over: the choice
\* between the two, made from the timer that was set, is right.
THEOREM RunnerSkipsAreEarned == Spec => []SkipsAreEarned
<1>1. IInv => SkipsAreEarned
  BY DEF IInv
<1>2. QED
  BY <1>1, RunnerIInv, PTL

\* A call ends at its deadline, or when the event loop is let go if it was
\* held then; checks of this call and of earlier ones cannot delay it more.
THEOREM RunnerEndsInTime == Spec => []EndsInTime
<1>1. IInv => EndsInTime
  BY LatestBounds, RunnerAssumption DEF IInv, TypeOK, HeldInTime, EndsInTime
<1>2. QED
  BY <1>1, RunnerIInv, PTL
-----------------------------------------------------------------------------
(* VerificationCache.                                                      *)

Backends == {"explorer", "none", "other", "absent", "torn"}
Entries == [verified: BOOLEAN, backend: Backends, age: Nat]
LookupRecords ==
  [pc: {"idle", "sourcify", "explorer", "answered"}, attempt: Nat,
   status: {"none", "verified", "unverified", "unknown"}]

CacheTypes ==
  /\ onSourcify \in BOOLEAN /\ onExplorer \in {Unpublished} \cup 0..OldAge
  /\ backend \in {"explorer", "none"}
  /\ memory \in [Procs -> Entries] /\ file \in Entries
  /\ look \in [Lookups -> LookupRecords]

Nowhere == ~onSourcify /\ onExplorer = Unpublished

\* An entry does not call verified what is published nowhere, and one that says
\* "unverified" is at least as old as the publication at the explorer.
Warranted(e) ==
  /\ Nowhere => ~e.verified
  /\ (~e.verified /\ e.backend \notin {"absent", "torn"}) =>
       onExplorer <= e.age

WarrantedLook(r) ==
  /\ r.status = "none" <=> r.pc # "answered"
  /\ Nowhere => r.status # "verified"
  /\ r.status = "unverified" => onExplorer <= UnverifiedTTL

CacheInv ==
  /\ CacheTypes
  /\ Nowhere => matched = {}
  /\ Warranted(file)
  /\ \A p \in Procs : Warranted(memory[p])
  /\ \A l \in Lookups : WarrantedLook(look[l])

\* What an age may be compared with.
LEMMA Ages ==
  /\ UnverifiedTTL \in Nat \ {0} /\ VerifiedTTL \in Nat \ {0}
  /\ OldAge = UnverifiedTTL + 1 /\ Unpublished = -1
  /\ \A l \in Lookups : Home[l] \in Procs
BY CacheAssumption DEF OldAge, Unpublished

LEMMA FreshEntries ==
  /\ NoEntry \in Entries /\ Warranted(NoEntry)
  /\ Torn \in Entries /\ Warranted(Torn)
BY DEF NoEntry, Torn, Entries, Backends, Warranted

\* An entry that cannot be used is dropped; one that says "unverified" and can
\* be used is not older than it may be.
LEMMA KeptIsWarranted ==
  ASSUME NEW e \in Entries, Warranted(e)
  PROVE  /\ Kept(e) \in Entries /\ Warranted(Kept(e))
         /\ (Kept(e).backend = backend /\ backend \in {"explorer", "none"}) =>
              /\ Nowhere => ~Kept(e).verified
              /\ ~Kept(e).verified /\ onExplorer \in Int => onExplorer <= UnverifiedTTL
<1>1. Kept(e) \in Entries /\ Warranted(Kept(e))
  BY FreshEntries DEF Kept
<1>2. ASSUME Kept(e).backend = backend, backend \in {"explorer", "none"}
      PROVE  /\ Nowhere => ~Kept(e).verified
             /\ ~Kept(e).verified /\ onExplorer \in Int => onExplorer <= UnverifiedTTL
  <2>1. Kept(e) = e /\ Usable(e)
    BY <1>2 DEF Kept, NoEntry
  <2>2. ~e.verified => e.age <= UnverifiedTTL
    BY <2>1, Ages DEF Usable, Expired, Entries
  <2>3. ~e.verified => onExplorer <= e.age
    BY <1>2, <2>1 DEF Warranted
  <2>4. e.age \in Nat
    BY DEF Entries
  <2>5. Nowhere => ~e.verified
    BY DEF Warranted
  <2> QED
    BY <2>1, <2>2, <2>3, <2>4, <2>5, Ages
<1> QED
  BY <1>1, <1>2

LEMMA CacheInitially == CacheInit => CacheInv
<1> SUFFICES ASSUME CacheInit
             PROVE  CacheInv
  OBVIOUS
<1>1. PICK other : other = [verified |-> FALSE, backend |-> "other", age |-> 0]
  OBVIOUS
<1>2. other \in Entries /\ (onExplorer \in {Unpublished, 0} => Warranted(other))
  BY <1>1, Ages DEF Entries, Backends, Warranted
<1>3. file \in Entries /\ Warranted(file)
  BY <1>1, <1>2, FreshEntries DEF CacheInit
<1>4. NewLookup \in LookupRecords /\ WarrantedLook(NewLookup)
  BY DEF NewLookup, LookupRecords, WarrantedLook
<1>5. memory \in [Procs -> Entries] /\ \A p \in Procs : Warranted(memory[p])
  BY FreshEntries DEF CacheInit
<1>6. look \in [Lookups -> LookupRecords] /\ \A l \in Lookups : WarrantedLook(look[l])
  BY <1>4 DEF CacheInit
<1>7. onExplorer \in {Unpublished} \cup 0..OldAge
  BY Ages DEF CacheInit
<1>8. onSourcify \in BOOLEAN /\ backend \in {"explorer", "none"} /\ matched = {}
  BY DEF CacheInit
<1> QED
  BY <1>3, <1>5, <1>6, <1>7, <1>8 DEF CacheInv, CacheTypes

\* A lookup that comes to a warranted state, in a step that publishes nothing
\* and lets no time pass, with what the caches then hold.
LEMMA OneLookMoves ==
  ASSUME CacheInv, NEW l \in Lookups, NEW r \in LookupRecords, WarrantedLook(r),
         look' = [look EXCEPT ![l] = r],
         memory' \in [Procs -> Entries], \A p \in Procs : Warranted(memory'[p]),
         file' \in Entries, Warranted(file'),
         Nowhere => matched' = {},
         UNCHANGED <<onSourcify, onExplorer, backend>>
  PROVE  CacheInv'
<1>1. CacheTypes'
  BY DEF CacheInv, CacheTypes
<1>2. \A k \in Lookups : WarrantedLook(look'[k])
  BY DEF CacheInv, CacheTypes
<1>3. Nowhere' <=> Nowhere
  BY DEF Nowhere
<1>4. Warranted(file)' /\ \A p \in Procs : Warranted(memory[p])'
  BY <1>3 DEF Warranted
<1>5. \A k \in Lookups : WarrantedLook(look[k])'
  BY <1>2, <1>3 DEF WarrantedLook
<1> QED
  BY <1>1, <1>3, <1>4, <1>5 DEF CacheInv

LEMMA ReadKeepsCacheInv ==
  ASSUME CacheInv, NEW l \in Lookups, ReadCaches(l)
  PROVE  CacheInv'
<1> DEFINE p == Home[l]
           m == Kept(memory[p])
           f == Kept(file)
<1>1. /\ p \in Procs /\ memory[p] \in Entries /\ Warranted(memory[p])
      /\ file \in Entries /\ Warranted(file)
      /\ backend \in {"explorer", "none"} /\ onExplorer \in Int
  BY Ages DEF CacheInv, CacheTypes
<1>2. /\ m \in Entries /\ Warranted(m)
      /\ m.backend = backend =>
           /\ Nowhere => ~m.verified
           /\ ~m.verified => onExplorer <= UnverifiedTTL
  BY <1>1, KeptIsWarranted
<1>3. /\ f \in Entries /\ Warranted(f)
      /\ f.backend = backend =>
           /\ Nowhere => ~f.verified
           /\ ~f.verified => onExplorer <= UnverifiedTTL
  BY <1>1, KeptIsWarranted
<1>4. UNCHANGED <<onSourcify, onExplorer, backend, matched>>
  BY DEF ReadCaches
<1>5. ASSUME NEW v \in BOOLEAN, Nowhere => ~v, ~v => onExplorer <= UnverifiedTTL
      PROVE  LET r == [pc |-> "answered", attempt |-> 0, status |-> StatusOf(v)]
             IN  r \in LookupRecords /\ WarrantedLook(r)
  BY <1>5 DEF StatusOf, LookupRecords, WarrantedLook
<1>6. CASE m.backend = backend
  <2>1. Answer(l, StatusOf(m.verified)) /\ UNCHANGED <<memory, file>>
    BY <1>6 DEF ReadCaches
  <2>2. m.verified \in BOOLEAN
    BY <1>2 DEF Entries
  <2> QED
    BY <1>1, <1>2, <1>4, <1>5, <1>6, <2>1, <2>2, OneLookMoves
    DEF Answer, Look, CacheInv, CacheTypes
<1>7. CASE m.backend # backend /\ f.backend = backend
  <2>1. /\ Answer(l, StatusOf(f.verified)) /\ file' = f
        /\ memory' = [memory EXCEPT ![p] = f]
    BY <1>7 DEF ReadCaches, Loaded
  <2>2. f.verified \in BOOLEAN
    BY <1>3 DEF Entries
  <2>3. memory' \in [Procs -> Entries] /\ \A q \in Procs : Warranted(memory'[q])
    BY <1>1, <1>3, <2>1 DEF CacheInv, CacheTypes
  <2> QED
    BY <1>1, <1>3, <1>4, <1>5, <1>7, <2>1, <2>2, <2>3, OneLookMoves
    DEF Answer, Look, CacheInv
<1>8. CASE m.backend # backend /\ f.backend # backend
  <2>1. /\ Look(l, "sourcify", 0, "none") /\ file' = f
        /\ memory' = [memory EXCEPT ![p] = m]
    BY <1>8 DEF ReadCaches
  <2>2. PICK r : r = [pc |-> "sourcify", attempt |-> 0, status |-> "none"]
    OBVIOUS
  <2>3. r \in LookupRecords /\ WarrantedLook(r)
    BY <2>2 DEF LookupRecords, WarrantedLook
  <2>4. memory' \in [Procs -> Entries] /\ \A q \in Procs : Warranted(memory'[q])
    BY <1>1, <1>2, <2>1 DEF CacheInv, CacheTypes
  <2> QED
    BY <1>1, <1>3, <1>4, <2>1, <2>2, <2>3, <2>4, OneLookMoves DEF Look, CacheInv
<1> QED
  BY <1>6, <1>7, <1>8

\* An answer that is warranted is stored as it is given.
LEMMA StoreKeepsCacheInv ==
  ASSUME CacheInv, NEW l \in Lookups, NEW v \in BOOLEAN, Store(l, v),
         v => ~Nowhere, ~v => onExplorer = Unpublished,
         Nowhere => matched' = {},
         UNCHANGED <<onSourcify, onExplorer, backend>>
  PROVE  CacheInv'
<1>1. PICK e : e = Entry(v, 0)
  OBVIOUS
<1>2. e \in Entries /\ Warranted(e)
  BY <1>1, Ages DEF Entry, Entries, Backends, Warranted, CacheInv, CacheTypes
<1>3. memory' = [memory EXCEPT ![Home[l]] = e] /\ file' \in {e, file}
  BY <1>1 DEF Store
<1>4. memory' \in [Procs -> Entries] /\ \A q \in Procs : Warranted(memory'[q])
  BY <1>2, <1>3, Ages DEF CacheInv, CacheTypes
<1>5. file' \in Entries /\ Warranted(file')
  BY <1>2, <1>3 DEF CacheInv, CacheTypes
<1>6. PICK r : r = [pc |-> "answered", attempt |-> 0, status |-> StatusOf(v)]
  OBVIOUS
<1>7. r \in LookupRecords /\ WarrantedLook(r)
  BY <1>6, Ages DEF StatusOf, LookupRecords, WarrantedLook
<1>8. look' = [look EXCEPT ![l] = r]
  BY <1>6 DEF Store, Answer, Look
<1> QED
  BY <1>4, <1>5, <1>7, <1>8, OneLookMoves

\* A lookup that gives no verdict.
LEMMA WaitingKeepsCacheInv ==
  ASSUME CacheInv, NEW l \in Lookups, NEW r \in LookupRecords, WarrantedLook(r),
         look' = [look EXCEPT ![l] = r],
         UNCHANGED <<onSourcify, onExplorer, backend, memory, file, matched>>
  PROVE  CacheInv'
BY OneLookMoves DEF CacheInv, CacheTypes

LEMMA LookupKeepsCacheInv ==
  ASSUME CacheInv, NEW l \in Lookups,
         \/ SourcifyMatches(l) \/ SourcifyDoesNot(l)
         \/ ExplorerAnswers(l) \/ ExplorerFails(l) \/ AskAgain(l)
  PROVE  CacheInv'
<1>0. /\ look[l] \in LookupRecords /\ onSourcify \in BOOLEAN
      /\ Nowhere => matched = {}
  BY DEF CacheInv, CacheTypes
<1>1. CASE SourcifyMatches(l)
  <2>1. PICK v \in BOOLEAN : v = TRUE
    OBVIOUS
  <2>2. /\ Store(l, v) /\ (onSourcify \/ Home[l] \in matched)
        /\ UNCHANGED <<onSourcify, onExplorer, backend>>
    BY <1>1, <2>1, Zenon DEF SourcifyMatches
  <2>3. ~Nowhere
    BY <1>0, <2>2 DEF Nowhere
  <2> QED
    BY <2>1, <2>2, <2>3, StoreKeepsCacheInv
<1>2. CASE ExplorerAnswers(l)
  <2>1. PICK v \in BOOLEAN : v <=> onExplorer # Unpublished
    OBVIOUS
  <2>2. Store(l, v) /\ UNCHANGED <<onSourcify, onExplorer, backend, matched>>
    BY <1>2, <2>1 DEF ExplorerAnswers
  <2>3. v => ~Nowhere
    BY <2>1 DEF Nowhere
  <2> QED
    BY <1>0, <2>1, <2>2, <2>3, StoreKeepsCacheInv
<1>3. CASE SourcifyDoesNot(l) \/ ExplorerFails(l) \/ AskAgain(l)
  <2>1. PICK c \in {"answered", "explorer", "idle"}, a \in Nat, s \in {"none", "unknown"} :
          /\ Look(l, c, a, s)
          /\ c = "answered" => s = "unknown"
          /\ c # "answered" => s = "none"
          /\ UNCHANGED <<onSourcify, onExplorer, backend, memory, file, matched>>
    BY <1>0, <1>3
    DEF SourcifyDoesNot, ExplorerFails, AskAgain, GiveUp, Answer, LookupRecords
  <2>2. PICK r : r = [pc |-> c, attempt |-> a, status |-> s]
    OBVIOUS
  <2>3. r \in LookupRecords /\ WarrantedLook(r)
    BY <2>1, <2>2 DEF LookupRecords, WarrantedLook
  <2>4. look' = [look EXCEPT ![l] = r]
    BY <2>1, <2>2 DEF Look
  <2> QED
    BY <2>1, <2>3, <2>4, WaitingKeepsCacheInv
<1> QED
  BY <1>1, <1>2, <1>3

LEMMA EndKeepsCacheInv ==
  ASSUME CacheInv, NEW p \in Procs, ProcessEnds(p)
  PROVE  CacheInv'
<1>1. /\ memory' = [memory EXCEPT ![p] = NoEntry] /\ matched' \subseteq matched
      /\ file' \in {file, Torn}
      /\ look' = [l \in Lookups |-> IF Home[l] = p THEN NewLookup ELSE look[l]]
      /\ UNCHANGED <<onSourcify, onExplorer, backend>>
  BY DEF ProcessEnds
<1>2. memory' \in [Procs -> Entries] /\ \A q \in Procs : Warranted(memory'[q])
  BY <1>1, FreshEntries DEF CacheInv, CacheTypes
<1>3. file' \in Entries /\ Warranted(file')
  BY <1>1, FreshEntries DEF CacheInv, CacheTypes
<1>4. NewLookup \in LookupRecords /\ WarrantedLook(NewLookup)
  BY DEF NewLookup, LookupRecords, WarrantedLook
<1>5. look' \in [Lookups -> LookupRecords] /\ \A l \in Lookups : WarrantedLook(look'[l])
  BY <1>1, <1>4 DEF CacheInv, CacheTypes
<1>6. Nowhere' <=> Nowhere
  BY <1>1 DEF Nowhere
<1>7. CacheTypes'
  BY <1>1, <1>2, <1>3, <1>5 DEF CacheInv, CacheTypes
<1>8. Warranted(file)' /\ (\A q \in Procs : Warranted(memory[q]))'
  BY <1>1, <1>2, <1>3, <1>6 DEF Warranted
<1>9. (\A l \in Lookups : WarrantedLook(look[l]))'
  BY <1>1, <1>5, <1>6 DEF WarrantedLook
<1>10. Nowhere' => matched' = {}
  BY <1>1, <1>6 DEF CacheInv
<1> QED
  BY <1>7, <1>8, <1>9, <1>10 DEF CacheInv

\* A publication makes every verdict but "unverified" easier to warrant, and
\* starts at age 0.
LEMMA PublishKeepsCacheInv ==
  ASSUME CacheInv, Publish
  PROVE  CacheInv'
<1>1. /\ UNCHANGED <<backend, memory, file, matched, look>>
      /\ onExplorer' = onExplorer \/ onExplorer' = 0
      /\ ~Nowhere' /\ onSourcify' \in BOOLEAN
  <2>1. UNCHANGED <<backend, memory, file, matched, look>>
    BY DEF Publish
  <2>2. onSourcify \in BOOLEAN
    BY DEF CacheInv, CacheTypes
  <2>3. CASE ~onSourcify /\ onSourcify' = TRUE /\ UNCHANGED onExplorer
    BY <2>1, <2>3 DEF Nowhere
  <2>4. CASE onExplorer = Unpublished /\ onExplorer' = 0 /\ UNCHANGED onSourcify
    BY <2>1, <2>2, <2>4, Ages DEF Nowhere
  <2> QED
    BY <2>3, <2>4 DEF Publish
<1>2. CacheTypes'
  BY <1>1, Ages DEF CacheInv, CacheTypes
<1>3. ASSUME NEW e \in Entries, Warranted(e)
      PROVE  /\ Nowhere' => ~e.verified
             /\ (~e.verified /\ e.backend \notin {"absent", "torn"}) =>
                  onExplorer' <= e.age
  BY <1>1, <1>3 DEF Warranted, Entries
<1>4. Warranted(file)' /\ (\A q \in Procs : Warranted(memory[q]))'
  BY <1>1, <1>3 DEF Warranted, CacheInv, CacheTypes
<1>5. (\A l \in Lookups : WarrantedLook(look[l]))'
  BY <1>1, Ages DEF WarrantedLook, CacheInv
<1> QED
  BY <1>1, <1>2, <1>4, <1>5 DEF CacheInv

\* Entries age with the publication, until both are old.
LEMMA OlderIsWarranted ==
  ASSUME NEW e \in Entries, NEW x \in {Unpublished} \cup 0..OldAge, NEW y,
         y = IF x \in {Unpublished, OldAge} THEN x ELSE x + 1,
         (~e.verified /\ e.backend \notin {"absent", "torn"}) => x <= e.age
  PROVE  /\ Older(e) \in Entries /\ Older(e).verified = e.verified
         /\ (~e.verified /\ Older(e).backend \notin {"absent", "torn"}) =>
              y <= Older(e).age
<1>1. CASE e.backend \in {"absent", "torn"}
  BY <1>1 DEF Older
<1>2. CASE e.backend \notin {"absent", "torn"} /\ Expired(e)
  <2>1. Older(e) = e
    BY <1>2 DEF Older
  <2>2. ~e.verified => e.age >= OldAge
    BY <1>2, Ages DEF Expired, Entries
  <2>3. y <= OldAge /\ e.age \in Nat /\ y \in Int
    BY Ages DEF Entries
  <2> QED
    BY <2>1, <2>2, <2>3, Ages
<1>3. CASE e.backend \notin {"absent", "torn"} /\ ~Expired(e)
  <2>1. Older(e) = [e EXCEPT !.age = @ + 1]
    BY <1>3 DEF Older
  <2>2. /\ Older(e) \in Entries /\ Older(e).verified = e.verified
        /\ Older(e).age = e.age + 1 /\ e.age \in Nat
    BY <2>1 DEF Entries
  <2>3. ~e.verified => x <= e.age
    BY <1>3
  <2>4. y <= x + 1 /\ x \in Int /\ y \in Int
    BY Ages
  <2> QED
    BY <2>2, <2>3, <2>4
<1> QED
  BY <1>1, <1>2, <1>3

LEMMA TickKeepsCacheInv ==
  ASSUME CacheInv, CacheTick
  PROVE  CacheInv'
<1>1. /\ \A l \in Lookups : look[l].pc # "answered"
      /\ onExplorer' = IF onExplorer \in {Unpublished, OldAge} THEN onExplorer
                       ELSE onExplorer + 1
      /\ memory' = [p \in Procs |-> Older(memory[p])] /\ file' = Older(file)
      /\ UNCHANGED <<onSourcify, backend, matched, look>>
  BY DEF CacheTick
<1>2. onExplorer \in {Unpublished} \cup 0..OldAge /\ OldAge \in Nat
  BY Ages DEF CacheInv, CacheTypes
<1>3. onExplorer' \in {Unpublished} \cup 0..OldAge
  BY <1>1, <1>2, Ages
<1>4. Nowhere' => Nowhere
  BY <1>1, <1>2, Ages DEF Nowhere
<1>5. ASSUME NEW e \in Entries, Warranted(e)
      PROVE  /\ Older(e) \in Entries
             /\ Nowhere' => ~Older(e).verified
             /\ (~Older(e).verified /\ Older(e).backend \notin {"absent", "torn"}) =>
                  onExplorer' <= Older(e).age
  <2>1. (~e.verified /\ e.backend \notin {"absent", "torn"}) => onExplorer <= e.age
    BY <1>5 DEF Warranted
  <2>2. /\ Older(e) \in Entries /\ Older(e).verified = e.verified
        /\ (~e.verified /\ Older(e).backend \notin {"absent", "torn"}) =>
             onExplorer' <= Older(e).age
    BY <1>1, <1>2, <2>1, OlderIsWarranted
  <2> QED
    BY <1>4, <1>5, <2>2 DEF Warranted
<1>6. file' \in Entries /\ Warranted(file)'
  BY <1>1, <1>5 DEF Warranted, CacheInv, CacheTypes
<1>7. ASSUME NEW p \in Procs
      PROVE  memory'[p] \in Entries /\ Warranted(memory[p])'
  <2>1. memory[p] \in Entries /\ Warranted(memory[p]) /\ memory'[p] = Older(memory[p])
    BY <1>1 DEF CacheInv, CacheTypes
  <2> QED
    BY <1>5, <2>1 DEF Warranted
<1>8. CacheTypes'
  BY <1>1, <1>3, <1>6, <1>7 DEF CacheInv, CacheTypes
<1>9. ASSUME NEW l \in Lookups
      PROVE  WarrantedLook(look[l])'
  BY <1>1, <1>4 DEF WarrantedLook, CacheInv
<1>10. Nowhere' => matched' = {}
  BY <1>1, <1>4 DEF CacheInv
<1> QED
  BY <1>6, <1>7, <1>8, <1>9, <1>10 DEF CacheInv

LEMMA CacheNextKeepsInv == CacheInv /\ [CacheNext]_cacheVars => CacheInv'
<1> SUFFICES ASSUME CacheInv, [CacheNext]_cacheVars
             PROVE  CacheInv'
  OBVIOUS
<1>1. CASE UNCHANGED cacheVars
  BY <1>1 DEF cacheVars, CacheInv, CacheTypes, Nowhere, Warranted, WarrantedLook
<1>2. CASE CacheNext
  BY <1>2, PublishKeepsCacheInv, TickKeepsCacheInv, EndKeepsCacheInv,
     ReadKeepsCacheInv, LookupKeepsCacheInv DEF CacheNext
<1> QED
  BY <1>1, <1>2

LEMMA CacheInvHolds == CacheSpec => []CacheInv
BY CacheInitially, CacheNextKeepsInv, PTL DEF CacheSpec

(***************************************************************************)
(* getContractVerification with any caches, processes, lookups, failures   *)
(* and crashes, and any lifetimes of entries: a contract published nowhere *)
(* is warned about, and one that the explorer has had for longer than an   *)
(* "unverified" is kept is never called so.                                *)
(***************************************************************************)
THEOREM CacheVerdictIsWarranted == CacheSpec => []VerdictIsWarranted
<1>1. ASSUME CacheInv
      PROVE  VerdictIsWarranted
  <2> SUFFICES ASSUME NEW l \in Lookups, look[l].pc = "answered"
               PROVE  /\ Nowhere => Warns(l)
                      /\ look[l].status = "unverified" =>
                           onExplorer \in {Unpublished} \cup 0..UnverifiedTTL
    BY DEF VerdictIsWarranted, Nowhere
  <2>1. look[l] \in LookupRecords /\ WarrantedLook(look[l])
    BY <1>1 DEF CacheInv, CacheTypes
  <2>2. onExplorer \in {Unpublished} \cup 0..OldAge
    BY <1>1 DEF CacheInv, CacheTypes
  <2>3. Nowhere => Warns(l)
    BY <2>1 DEF WarrantedLook, LookupRecords, Warns
  <2>4. look[l].status = "unverified" =>
          onExplorer \in {Unpublished} \cup 0..UnverifiedTTL
    BY <2>1, <2>2, Ages DEF WarrantedLook
  <2> QED
    BY <2>3, <2>4
<1> QED
  BY <1>1, CacheInvHolds, PTL
-----------------------------------------------------------------------------
(* AbiLookup.                                                              *)

\* What a source or a cache's entry may be.
Sources == {Providers[n] : n \in DOMAIN Providers} \cup {"none", "unknown", "torn"}
Places == {"idle", "ask", "wait", "decode", "select", "registry", "share", "answered"}
InquiryRecords ==
  [at: Places, provider: Nat, try: Nat,
   told: {"nothing", "abi", "4byte", "name", "failed"}, source: Sources]

WorldTypes ==
  /\ purpose \in [Inquiries -> {"check", "report", "name"}]
  /\ inquiry \in [Inquiries -> InquiryRecords]

\* What the caches hold was given by someone who has it.
CachesAreGiven ==
  /\ abiMemory \in Sources
  /\ abiMemory \notin {"none", "unknown"} => abiMemory \in verifiedAt
  /\ abiFile \in Sources
  /\ abiFile \notin {"none", "unknown", "torn"} => abiFile \in verifiedAt
  /\ abiCache \in {"absent", "null", "abi"}
  /\ abiCache = "abi" => abiMemory # "none"
  /\ signatures \in {"absent", "null", "signature"}
  /\ signatures = "signature" => listed
  /\ names \in [memory: {"none", "name"}, file: {"none", "torn", "old", "name"}]
  /\ "name" \in {names.memory, names.file} => Providers[1] \in verifiedAt

\* A promise is kept by the inquiry that asks.
PromisesAreKept ==
  /\ abiPromise # NoOne =>
       /\ abiPromise \in Inquiries /\ purpose[abiPromise] = "report"
       /\ inquiry[abiPromise].at = "ask"
  /\ sigPromise # NoOne =>
       sigPromise \in Inquiries /\ inquiry[sigPromise].at = "registry"

\* Where the inquiry q may be, with r, the memory m and the promises a and s, ...
InPlace(q, r, m, a, s) ==
  /\ r.at = "ask" => r.provider \in DOMAIN Providers
  /\ r.at = "ask" /\ purpose[q] = "name" => r.provider = 1
  /\ r.at = "ask" /\ purpose[q] = "report" => a = q
  /\ r.at = "wait" => purpose[q] = "report" /\ a # NoOne
  /\ r.at = "registry" => s = q
  /\ r.at = "share" => s # NoOne
  /\ r.at = "decode" => m # "none"

\* ... and what it may have been told.
ToldTruth(r, m) ==
  /\ r.source \notin {"none", "unknown"} => r.source \in verifiedAt
  /\ r.told = "abi" => m # "none"
  /\ r.told = "4byte" => listed
  /\ r.told = "name" => Providers[1] \in verifiedAt

LookupInv ==
  /\ WorldTypes /\ CachesAreGiven /\ PromisesAreKept
  /\ \A q \in Inquiries : /\ InPlace(q, inquiry[q], abiMemory, abiPromise, sigPromise)
                          /\ ToldTruth(inquiry[q], abiMemory)
-----------------------------------------------------------------------------
LEMMA ProviderFacts ==
  /\ Len(Providers) \in Nat /\ DOMAIN Providers = 1..Len(Providers)
  /\ 1 \in DOMAIN Providers
  /\ \A n \in DOMAIN Providers :
       /\ Providers[n] \in Sources /\ Providers[n] \notin {"none", "unknown", "torn"}
       /\ n # Len(Providers) => n + 1 \in DOMAIN Providers
<1>1. Providers \in Seq(STRING) /\ Providers # <<>>
  BY LookupAssumption
<1>2. Len(Providers) \in Nat /\ DOMAIN Providers = 1..Len(Providers)
  BY <1>1
<1>3. \A n \in DOMAIN Providers :
        Providers[n] \in Sources /\ Providers[n] \notin {"none", "unknown", "torn"}
  BY LookupAssumption DEF Sources
<1> QED
  BY <1>1, <1>2, <1>3

LEMMA SourceFacts ==
  "none" \in Sources /\ "unknown" \in Sources /\ "torn" \in Sources
BY DEF Sources

LEMMA AsleepIsSound ==
  ASSUME NEW q, NEW m, NEW a, NEW s
  PROVE  Asleep \in InquiryRecords /\ InPlace(q, Asleep, m, a, s) /\ ToldTruth(Asleep, m)
BY SourceFacts DEF Asleep, InquiryRecords, Places, InPlace, ToldTruth

\* The cache's entry, loaded from the file if need be.
LEMMA CachedIsGiven ==
  ASSUME CachesAreGiven
  PROVE  /\ Cached \in Sources
         /\ Cached \notin {"none", "unknown"} => Cached \in verifiedAt
         /\ abiMemory # "none" => Cached # "none"
BY DEF CachesAreGiven, Cached

LEMMA LookupInitially == LookupInit => LookupInv
<1> SUFFICES ASSUME LookupInit
             PROVE  LookupInv
  OBVIOUS
<1>1. WorldTypes /\ \A q \in Inquiries :
        /\ InPlace(q, inquiry[q], abiMemory, abiPromise, sigPromise)
        /\ ToldTruth(inquiry[q], abiMemory)
  <2>1. inquiry = [q \in Inquiries |-> Asleep]
    BY DEF LookupInit
  <2>2. purpose \in [Inquiries -> {"check", "report", "name"}]
    BY LookupAssumption DEF LookupInit
  <2> QED
    BY <2>1, <2>2, AsleepIsSound DEF WorldTypes
<1>2. CachesAreGiven /\ PromisesAreKept
  BY SourceFacts DEF LookupInit, CachesAreGiven, PromisesAreKept
<1> QED
  BY <1>1, <1>2 DEF LookupInv

\* A step of one inquiry that keeps the promises it has given.
LEMMA OneMoves ==
  ASSUME LookupInv, World, CachesAreGiven', abiMemory # "none" => abiMemory' # "none",
         NEW q \in Inquiries, NEW r \in InquiryRecords,
         inquiry' = [inquiry EXCEPT ![q] = r],
         InPlace(q, r, abiMemory', abiPromise, sigPromise), ToldTruth(r, abiMemory'),
         UNCHANGED <<abiPromise, sigPromise>>,
         abiPromise = q => r.at = "ask",
         sigPromise = q => r.at = "registry"
  PROVE  LookupInv'
<1>1. UNCHANGED <<purpose, verifiedAt, listed>>
  BY DEF World
<1>2. WorldTypes' /\ \A p \in Inquiries : inquiry'[p] = IF p = q THEN r ELSE inquiry[p]
  BY <1>1 DEF LookupInv, WorldTypes
<1>3. PromisesAreKept'
  BY <1>1, <1>2 DEF LookupInv, PromisesAreKept
<1>4. ASSUME NEW p \in Inquiries
      PROVE  (/\ InPlace(p, inquiry[p], abiMemory, abiPromise, sigPromise)
              /\ ToldTruth(inquiry[p], abiMemory))'
  <2>1. CASE p = q
    BY <1>1, <1>2, <2>1 DEF InPlace, ToldTruth
  <2>2. CASE p # q
    <3>1. inquiry'[p] = inquiry[p]
      BY <1>2, <2>2
    <3>2. /\ InPlace(p, inquiry[p], abiMemory, abiPromise, sigPromise)
          /\ ToldTruth(inquiry[p], abiMemory)
      BY DEF LookupInv
    <3> QED
      BY <1>1, <3>1, <3>2 DEF InPlace, ToldTruth
  <2> QED
    BY <2>1, <2>2
<1> QED
  BY <1>2, <1>3, <1>4 DEF LookupInv

\* The report's inquiry that asks has its answer, and so have those that wait.
LEMMA SharedKeepsInv ==
  ASSUME LookupInv, World, CachesAreGiven', abiMemory # "none" => abiMemory' # "none",
         NEW place \in {"decode", "select"}, place = "decode" => abiMemory' # "none",
         inquiry' = Shared(place), abiPromise' = NoOne, sigPromise' = sigPromise
  PROVE  LookupInv'
<1>1. UNCHANGED <<purpose, verifiedAt, listed>>
  BY DEF World
<1>2. ASSUME NEW p \in Inquiries
      PROVE  /\ inquiry'[p] \in InquiryRecords
             /\ (/\ InPlace(p, inquiry[p], abiMemory, abiPromise, sigPromise)
                 /\ ToldTruth(inquiry[p], abiMemory))'
             /\ inquiry[p].at = "registry" => inquiry'[p].at = "registry"
  <2>1. /\ inquiry[p] \in InquiryRecords
        /\ InPlace(p, inquiry[p], abiMemory, abiPromise, sigPromise)
        /\ ToldTruth(inquiry[p], abiMemory)
    BY DEF LookupInv, WorldTypes
  <2>2. CASE purpose[p] = "report" /\ inquiry[p].at \in {"ask", "wait"}
    <3>1. PICK r : r = [inquiry[p] EXCEPT !.at = place]
      OBVIOUS
    <3>2. inquiry'[p] = r
      BY <2>2, <3>1 DEF Shared
    <3>3. /\ r \in InquiryRecords /\ r.at = place
          /\ r.source = inquiry[p].source /\ r.told = inquiry[p].told
      BY <2>1, <3>1 DEF InquiryRecords, Places
    <3> QED
      BY <1>1, <2>1, <2>2, <3>2, <3>3 DEF InPlace, ToldTruth
  <2>3. CASE ~(purpose[p] = "report" /\ inquiry[p].at \in {"ask", "wait"})
    <3>1. inquiry'[p] = inquiry[p]
      BY <2>3 DEF Shared
    <3> QED
      BY <1>1, <2>1, <2>3, <3>1 DEF InPlace, ToldTruth
  <2> QED
    BY <2>2, <2>3
<1>3. inquiry' \in [Inquiries -> InquiryRecords]
  BY <1>2 DEF Shared
<1>4. WorldTypes' /\ PromisesAreKept'
  BY <1>1, <1>2, <1>3 DEF LookupInv, WorldTypes, PromisesAreKept
<1> QED
  BY <1>2, <1>4 DEF LookupInv

\* Whoever does not hold a promise may be answered, ...
LEMMA AnswerKeepsInv ==
  ASSUME LookupInv, World, CachesAreGiven', abiMemory # "none" => abiMemory' # "none",
         UNCHANGED <<abiPromise, sigPromise>>,
         NEW q \in Inquiries, NEW what, NEW source \in Sources,
         what \in {"nothing", "abi", "4byte", "name", "failed"},
         inquiry' = Told(q, what, source),
         q # abiPromise, q # sigPromise,
         source \notin {"none", "unknown"} => source \in verifiedAt,
         what = "abi" => abiMemory' # "none",
         what = "4byte" => listed,
         what = "name" => Providers[1] \in verifiedAt
  PROVE  LookupInv'
<1>1. PICK r : r = [Asleep EXCEPT !.at = "answered", !.told = what, !.source = source]
  OBVIOUS
<1>2. /\ r \in InquiryRecords /\ r.at = "answered" /\ r.told = what /\ r.source = source
      /\ inquiry' = [inquiry EXCEPT ![q] = r]
  BY <1>1, AsleepIsSound DEF InquiryRecords, Places, Told, Asleep
<1>3. InPlace(q, r, abiMemory', abiPromise, sigPromise) /\ ToldTruth(r, abiMemory')
  BY <1>2 DEF InPlace, ToldTruth
<1> QED
  BY <1>2, <1>3, OneMoves

\* ... or go on to a place where it keeps nobody waiting.
LEMMA PutKeepsInv ==
  ASSUME LookupInv, World, CachesAreGiven', abiMemory # "none" => abiMemory' # "none",
         UNCHANGED <<abiPromise, sigPromise>>,
         NEW q \in Inquiries, NEW place \in {"decode", "select", "wait", "share"},
         inquiry' = PutAt(q, place),
         q # abiPromise, q # sigPromise,
         place = "decode" => abiMemory' # "none",
         place = "wait" => purpose[q] = "report" /\ abiPromise # NoOne,
         place = "share" => sigPromise # NoOne
  PROVE  LookupInv'
<1>1. PICK r : r = [inquiry[q] EXCEPT !.at = place]
  OBVIOUS
<1>2. inquiry[q] \in InquiryRecords /\ ToldTruth(inquiry[q], abiMemory)
  BY DEF LookupInv, WorldTypes
<1>3. /\ r \in InquiryRecords /\ r.at = place
      /\ r.source = inquiry[q].source /\ r.told = inquiry[q].told
  BY <1>1, <1>2 DEF InquiryRecords, Places
<1>4. inquiry' = [inquiry EXCEPT ![q] = r]
  BY <1>1 DEF PutAt
<1>5. InPlace(q, r, abiMemory', abiPromise, sigPromise) /\ ToldTruth(r, abiMemory')
  BY <1>2, <1>3 DEF InPlace, ToldTruth
<1> QED
  BY <1>3, <1>4, <1>5, OneMoves

\* An inquiry that asks: a report's holds the promise.
LEMMA AskKeepsInv ==
  ASSUME LookupInv, World, CachesAreGiven', abiMemory # "none" => abiMemory' # "none",
         UNCHANGED <<abiPromise, sigPromise>>,
         NEW q \in Inquiries, NEW n \in DOMAIN Providers, NEW t \in Nat,
         inquiry' = Asks(q, n, t),
         purpose[q] = "name" => n = 1,
         purpose[q] = "report" => abiPromise = q,
         q # sigPromise
  PROVE  LookupInv'
<1>1. PICK r : r = [inquiry[q] EXCEPT !.at = "ask", !.provider = n, !.try = t]
  OBVIOUS
<1>2. inquiry[q] \in InquiryRecords /\ ToldTruth(inquiry[q], abiMemory)
  BY DEF LookupInv, WorldTypes
<1>3. /\ r \in InquiryRecords /\ r.at = "ask" /\ r.provider = n
      /\ r.source = inquiry[q].source /\ r.told = inquiry[q].told
  <2>1. n \in Nat
    BY ProviderFacts
  <2> QED
    BY <1>1, <1>2, <2>1 DEF InquiryRecords, Places
<1>4. inquiry' = [inquiry EXCEPT ![q] = r]
  BY <1>1 DEF Asks
<1>5. InPlace(q, r, abiMemory', abiPromise, sigPromise) /\ ToldTruth(r, abiMemory')
  BY <1>2, <1>3 DEF InPlace, ToldTruth
<1> QED
  BY <1>3, <1>4, <1>5, OneMoves
-----------------------------------------------------------------------------
\* Who is elsewhere holds no promise.
LEMMA Unpromised ==
  ASSUME LookupInv, NEW q \in Inquiries
  PROVE  /\ q = abiPromise => inquiry[q].at = "ask" /\ purpose[q] = "report"
         /\ q = sigPromise => inquiry[q].at = "registry"
         /\ NoOne \notin Inquiries
BY LookupAssumption DEF LookupInv, PromisesAreKept, NoOne

LEMMA FoundKeepsInv ==
  ASSUME LookupInv, World, NEW q \in Inquiries,
         purpose[q] = "report" \/ (purpose[q] = "check" /\ inquiry[q].at = "ask"),
         FoundAbi(q), abiMemory' \in Sources, abiMemory' # "none",
         abiMemory' \notin {"none", "unknown"} => abiMemory' \in verifiedAt,
         abiFile' \in Sources,
         abiFile' \notin {"none", "unknown", "torn"} => abiFile' \in verifiedAt,
         UNCHANGED <<names, signatures, sigPromise>>
  PROVE  LookupInv'
<1>1. CachesAreGiven'
  BY DEF FoundAbi, LookupInv, CachesAreGiven, World
<1>2. CASE purpose[q] = "check"
  BY <1>1, <1>2, Unpromised, PutKeepsInv DEF FoundAbi
<1>3. CASE purpose[q] = "report"
  BY <1>1, <1>3, SharedKeepsInv DEF FoundAbi
<1> QED
  BY <1>2, <1>3

LEMMA NextProviderKeepsInv ==
  ASSUME LookupInv, World, NEW q \in Inquiries, Asking(q),
         NextProvider(q), abiMemory' \in Sources, abiMemory # "none" => abiMemory' # "none",
         abiMemory' \notin {"none", "unknown"} => abiMemory' \in verifiedAt,
         UNCHANGED <<abiFile, names, signatures, sigPromise>>
  PROVE  LookupInv'
<1>1. /\ inquiry[q].at = "ask" /\ purpose[q] \in {"check", "report"}
      /\ inquiry[q].provider \in DOMAIN Providers
      /\ purpose[q] = "report" => abiPromise = q
      /\ q # sigPromise
  BY Unpromised DEF Asking, LookupInv, WorldTypes, InPlace
<1>2. CachesAreGiven'
  BY DEF NextProvider, Unfound, LookupInv, CachesAreGiven, World
<1>3. CASE ~LastAsked(q)
  <2>1. /\ inquiry' = Asks(q, inquiry[q].provider + 1, 1) /\ UNCHANGED abiPromise
        /\ inquiry[q].provider + 1 \in DOMAIN Providers
    BY <1>1, <1>3, ProviderFacts DEF NextProvider, LastAsked
  <2>2. PICK n : n = inquiry[q].provider + 1
    OBVIOUS
  <2> QED
    BY <1>1, <1>2, <2>1, <2>2, AskKeepsInv
<1>4. CASE LastAsked(q) /\ purpose[q] = "check"
  <2>1. inquiry' = Told(q, "nothing", "none") /\ UNCHANGED abiPromise
    BY <1>4 DEF NextProvider, Unfound
  <2> QED
    BY <1>1, <1>2, <1>4, <2>1, Unpromised, AnswerKeepsInv, SourceFacts
<1>5. CASE LastAsked(q) /\ purpose[q] = "report"
  <2>1. inquiry' = Shared("select") /\ abiPromise' = NoOne
    BY <1>5 DEF NextProvider, Unfound
  <2> QED
    BY <1>2, <2>1, SharedKeepsInv
<1> QED
  BY <1>1, <1>3, <1>4, <1>5

LEMMA BeginKeepsInv ==
  ASSUME LookupInv, NEW q \in Inquiries, BeginCheckLookup(q) \/ BeginReportLookup(q)
  PROVE  LookupInv'
<1>1. /\ Cached \in Sources
      /\ Cached \notin {"none", "unknown"} => Cached \in verifiedAt
      /\ abiMemory # "none" => Cached # "none"
      /\ CachesAreGiven /\ PromisesAreKept
  BY CachedIsGiven DEF LookupInv
<1>2. /\ inquiry[q].at = "idle" /\ q # abiPromise /\ q # sigPromise /\ World
      /\ UNCHANGED <<abiFile, names, signatures, sigPromise>>
  BY Unpromised DEF BeginCheckLookup, BeginReportLookup, Is
<1>3. CASE BeginCheckLookup(q)
  <2>1. /\ purpose[q] = "check" /\ abiMemory' = Cached /\ UNCHANGED <<abiCache, abiPromise>>
        /\ IF Cached # "none" THEN inquiry' = PutAt(q, "decode")
                              ELSE inquiry' = Asks(q, 1, 1)
    BY <1>3 DEF BeginCheckLookup, Is
  <2>2. CachesAreGiven'
    BY <1>1, <1>2, <2>1 DEF CachesAreGiven, World
  <2>3. CASE Cached # "none"
    BY <1>1, <1>2, <2>1, <2>2, <2>3, PutKeepsInv
  <2>4. CASE Cached = "none"
    BY <1>1, <1>2, <2>1, <2>2, <2>4, ProviderFacts, AskKeepsInv
  <2> QED
    BY <2>3, <2>4
<1>4. ASSUME BeginReportLookup(q)
      PROVE  LookupInv'
  <2>0. purpose[q] = "report"
    BY <1>4 DEF BeginReportLookup, Is
  <2>1. CASE abiCache # "absent"
    <3>1. PICK place \in {"decode", "select"} :
             /\ inquiry' = PutAt(q, place) /\ UNCHANGED <<abiMemory, abiCache, abiPromise>>
             /\ place = "decode" => abiCache = "abi"
      BY <1>4, <2>1 DEF BeginReportLookup
    <3>2. CachesAreGiven' /\ (place = "decode" => abiMemory' # "none")
      BY <1>1, <1>2, <3>1 DEF CachesAreGiven, World
    <3> QED
      BY <1>2, <3>1, <3>2, PutKeepsInv
  <2>2. CASE abiCache = "absent" /\ Joins
    <3>1. inquiry' = PutAt(q, "wait") /\ UNCHANGED <<abiMemory, abiCache, abiPromise>>
      BY <1>4, <2>2 DEF BeginReportLookup
    <3>2. CachesAreGiven'
      BY <1>1, <1>2, <3>1 DEF CachesAreGiven, World
    <3> QED
      BY <1>2, <2>0, <2>2, <3>1, <3>2, PutKeepsInv DEF Joins
  <2>3. CASE abiCache = "absent" /\ ~Joins /\ Cached # "none"
    <3>1. abiMemory' = Cached /\ FoundAbi(q)
      BY <1>4, <2>3 DEF BeginReportLookup
    <3>2. abiFile' \in Sources /\ (abiFile' \notin {"none", "unknown", "torn"} => abiFile' \in verifiedAt)
      BY <1>1, <1>2 DEF CachesAreGiven
    <3> QED
      BY <1>1, <1>2, <2>0, <2>3, <3>1, <3>2, FoundKeepsInv
  <2>4. CASE abiCache = "absent" /\ ~Joins /\ Cached = "none"
    <3>1. /\ abiMemory' = Cached /\ inquiry' = Asks(q, 1, 1) /\ abiPromise' = q
          /\ UNCHANGED abiCache
      BY <1>4, <2>4 DEF BeginReportLookup
    <3>2. CachesAreGiven' /\ UNCHANGED <<purpose, verifiedAt, listed>>
      BY <1>1, <1>2, <3>1 DEF CachesAreGiven, World
    <3>3. PICK r : r = [inquiry[q] EXCEPT !.at = "ask", !.provider = 1, !.try = 1]
      OBVIOUS
    <3>4. /\ inquiry[q] \in InquiryRecords /\ abiPromise = NoOne
          /\ ToldTruth(inquiry[q], abiMemory)
      BY <2>4 DEF Joins, LookupInv, WorldTypes
    <3>5. /\ r \in InquiryRecords /\ r.at = "ask" /\ r.provider = 1
          /\ r.source = inquiry[q].source /\ r.told = inquiry[q].told
          /\ inquiry' = [inquiry EXCEPT ![q] = r]
      BY <3>1, <3>3, <3>4 DEF InquiryRecords, Places, Asks
    <3>6. WorldTypes' /\ \A p \in Inquiries : inquiry'[p] = IF p = q THEN r ELSE inquiry[p]
      BY <3>2, <3>5 DEF LookupInv, WorldTypes
    <3>7. PromisesAreKept'
      BY <1>1, <1>2, <2>0, <3>1, <3>2, <3>5, <3>6 DEF PromisesAreKept
    <3>8. abiMemory = "none" /\ abiMemory' = "none"
      BY <1>1, <2>4, <3>1
    <3>9. ASSUME NEW p \in Inquiries
          PROVE  (/\ InPlace(p, inquiry[p], abiMemory, abiPromise, sigPromise)
                  /\ ToldTruth(inquiry[p], abiMemory))'
      <4>1. /\ InPlace(p, inquiry[p], abiMemory, abiPromise, sigPromise)
            /\ ToldTruth(inquiry[p], abiMemory)
        BY DEF LookupInv
      <4>2. CASE p = q
        BY <1>2, <2>0, <3>1, <3>2, <3>4, <3>5, <3>6, <3>8, <4>2, ProviderFacts
        DEF InPlace, ToldTruth
      <4>3. CASE p # q
        <5>1. inquiry'[p] = inquiry[p]
          BY <3>6, <4>3
        <5>2. inquiry[p].at = "ask" => purpose[p] # "report"
          BY <3>4, <4>1, Unpromised DEF InPlace
        <5>3. inquiry[p].at # "wait"
          BY <3>4, <4>1 DEF InPlace
        <5> QED
          BY <1>2, <3>2, <3>8, <4>1, <5>1, <5>2, <5>3 DEF InPlace, ToldTruth
      <4> QED
        BY <4>2, <4>3
    <3> QED
      BY <3>2, <3>6, <3>7, <3>9 DEF LookupInv
  <2> QED
    BY <2>1, <2>2, <2>3, <2>4
<1> QED
  BY <1>3, <1>4

LEMMA AskingKeepsInv ==
  ASSUME LookupInv, NEW q \in Inquiries,
         HasMeanwhile(q) \/ ProviderAnswers(q) \/ ProviderHasNot(q) \/ ProviderFails(q)
  PROVE  LookupInv'
<1>1. /\ Cached \in Sources
      /\ Cached \notin {"none", "unknown"} => Cached \in verifiedAt
      /\ abiMemory # "none" => Cached # "none"
      /\ CachesAreGiven
  BY CachedIsGiven DEF LookupInv
<1>2. /\ Asking(q) /\ inquiry[q].at = "ask" /\ purpose[q] \in {"check", "report"}
      /\ inquiry[q].provider \in DOMAIN Providers
      /\ purpose[q] = "report" => abiPromise = q
      /\ q # sigPromise /\ World
      /\ UNCHANGED <<names, signatures, sigPromise>>
  BY Unpromised DEF HasMeanwhile, ProviderAnswers, ProviderHasNot, ProviderFails, Asking,
     LookupInv, WorldTypes, InPlace
<1>3. Provider(q) \in Sources /\ Provider(q) \notin {"none", "unknown", "torn"}
  BY <1>2, ProviderFacts DEF Provider
<1>4. CASE HasMeanwhile(q)
  <2>1. /\ abiMemory' = Cached /\ Cached # "none" /\ FoundAbi(q) /\ abiFile' = abiFile
    BY <1>4 DEF HasMeanwhile
  <2> QED
    BY <1>1, <1>2, <2>1, FoundKeepsInv DEF CachesAreGiven
<1>5. CASE ProviderAnswers(q)
  <2>1. /\ abiMemory' = Provider(q) /\ Provider(q) \in verifiedAt
        /\ \/ abiFile' = Provider(q) /\ FoundAbi(q)
           \/ UNCHANGED abiFile /\ NextProvider(q)
    BY <1>5 DEF ProviderAnswers, Knows
  <2>2. CASE abiFile' = Provider(q) /\ FoundAbi(q)
    BY <1>2, <1>3, <2>1, <2>2, FoundKeepsInv
  <2>3. CASE UNCHANGED abiFile /\ NextProvider(q)
    BY <1>2, <1>3, <2>1, <2>3, NextProviderKeepsInv
  <2> QED
    BY <2>1, <2>2, <2>3
<1>6. CASE NextProvider(q) /\ UNCHANGED <<abiMemory, abiFile>>
  BY <1>1, <1>2, <1>6, NextProviderKeepsInv DEF CachesAreGiven
<1>7. CASE /\ inquiry' = Asks(q, inquiry[q].provider, inquiry[q].try + 1)
           /\ UNCHANGED <<abiCache, abiPromise, abiMemory, abiFile>>
  <2>1. CachesAreGiven'
    BY <1>1, <1>2, <1>7 DEF CachesAreGiven, World
  <2>2. PICK n, t : n = inquiry[q].provider /\ t = inquiry[q].try + 1
    OBVIOUS
  <2>3. t \in Nat
    BY <2>2 DEF LookupInv, WorldTypes, InquiryRecords
  <2> QED
    BY <1>2, <1>7, <2>1, <2>2, <2>3, AskKeepsInv
<1> QED
  BY <1>4, <1>5, <1>6, <1>7 DEF ProviderHasNot, ProviderFails

LEMMA DecodeKeepsInv ==
  ASSUME LookupInv, NEW q \in Inquiries, Decode(q)
  PROVE  LookupInv'
<1>1. /\ inquiry[q].at = "decode" /\ abiMemory # "none" /\ abiMemory \in Sources
      /\ abiMemory \notin {"none", "unknown"} => abiMemory \in verifiedAt
      /\ q # abiPromise /\ q # sigPromise
  BY Unpromised DEF Decode, LookupInv, InPlace, CachesAreGiven
<1>2. /\ World /\ UNCHANGED <<abiMemory, abiPromise, sigPromise>>
      /\ CachesAreGiven'
  BY DEF Decode, LookupInv, CachesAreGiven, World
<1>3. CASE inquiry' = Told(q, "abi", abiMemory)
  BY <1>1, <1>2, <1>3, AnswerKeepsInv, SourceFacts
<1>4. CASE inquiry' = PutAt(q, "select")
  BY <1>1, <1>2, <1>4, PutKeepsInv
<1>5. CASE inquiry' = Told(q, "nothing", "none")
  BY <1>1, <1>2, <1>5, AnswerKeepsInv, SourceFacts
<1> QED
  BY <1>3, <1>4, <1>5 DEF Decode

LEMMA SelectorKeepsInv ==
  ASSUME LookupInv, NEW q \in Inquiries, BeginSelector(q)
  PROVE  LookupInv'
<1>1. /\ inquiry[q].at = "select" /\ q # abiPromise /\ q # sigPromise
  BY Unpromised DEF BeginSelector
<1>2. /\ World /\ UNCHANGED <<abiMemory, abiPromise>> /\ CachesAreGiven'
      /\ UNCHANGED <<purpose, verifiedAt, listed>>
  BY DEF BeginSelector, LookupInv, CachesAreGiven, World
<1>3. CASE signatures # "absent"
  <2>1. PICK what : what = Registered(signatures)
    OBVIOUS
  <2>2. /\ inquiry' = Told(q, what, "none") /\ UNCHANGED sigPromise
        /\ what \in {"nothing", "4byte"} /\ (what = "4byte" => listed)
    BY <1>3, <2>1 DEF BeginSelector, Registered, LookupInv, CachesAreGiven
  <2> QED
    BY <1>1, <1>2, <2>2, AnswerKeepsInv, SourceFacts
<1>4. CASE signatures = "absent" /\ sigPromise # NoOne
  <2>1. inquiry' = PutAt(q, "share") /\ UNCHANGED sigPromise
    BY <1>4 DEF BeginSelector
  <2> QED
    BY <1>1, <1>2, <1>4, <2>1, PutKeepsInv
<1>5. CASE signatures = "absent" /\ sigPromise = NoOne
  <2>1. PICK r : r = [inquiry[q] EXCEPT !.at = "registry"]
    OBVIOUS
  <2>2. inquiry' = [inquiry EXCEPT ![q] = r] /\ sigPromise' = q
    BY <1>5, <2>1 DEF BeginSelector, PutAt
  <2>3. inquiry[q] \in InquiryRecords
    BY DEF LookupInv, WorldTypes
  <2>4. /\ r \in InquiryRecords /\ r.at = "registry"
        /\ r.source = inquiry[q].source /\ r.told = inquiry[q].told
    BY <2>1, <2>3 DEF InquiryRecords, Places
  <2>5. WorldTypes' /\ \A p \in Inquiries : inquiry'[p] = IF p = q THEN r ELSE inquiry[p]
    BY <1>2, <2>2, <2>4 DEF LookupInv, WorldTypes
  <2>6. PromisesAreKept'
    BY <1>1, <1>2, <2>2, <2>4, <2>5 DEF LookupInv, PromisesAreKept
  <2>7. ASSUME NEW p \in Inquiries
        PROVE  (/\ InPlace(p, inquiry[p], abiMemory, abiPromise, sigPromise)
                /\ ToldTruth(inquiry[p], abiMemory))'
    <3>1. /\ InPlace(p, inquiry[p], abiMemory, abiPromise, sigPromise)
          /\ ToldTruth(inquiry[p], abiMemory)
      BY DEF LookupInv
    <3>2. CASE p = q
      BY <1>2, <2>2, <2>4, <2>5, <3>1, <3>2 DEF InPlace, ToldTruth
    <3>3. CASE p # q
      <4>1. inquiry'[p] = inquiry[p]
        BY <2>5, <3>3
      <4>2. inquiry[p].at \notin {"registry", "share"}
        BY <1>5, <3>1, Unpromised DEF InPlace
      <4> QED
        BY <1>2, <3>1, <4>1, <4>2 DEF InPlace, ToldTruth
    <3> QED
      BY <3>2, <3>3
  <2> QED
    BY <1>2, <2>5, <2>6, <2>7 DEF LookupInv
<1> QED
  BY <1>3, <1>4, <1>5

LEMMA RegistryKeepsInv ==
  ASSUME LookupInv, NEW q \in Inquiries, RegistryAnswers(q)
  PROVE  LookupInv'
<1>1. PICK answer \in {"null", "signature"} :
        /\ answer = "signature" => listed
        /\ signatures' = answer
        /\ inquiry' = [p \in Inquiries |->
             IF inquiry[p].at \in {"registry", "share"}
               THEN [Asleep EXCEPT !.at = "answered", !.told = Registered(answer)]
               ELSE inquiry[p]]
  BY DEF RegistryAnswers
<1>2. /\ sigPromise' = NoOne /\ UNCHANGED <<abiMemory, abiPromise>> /\ CachesAreGiven'
      /\ UNCHANGED <<purpose, verifiedAt, listed>>
  BY <1>1 DEF RegistryAnswers, LookupInv, CachesAreGiven, World
<1>3. PICK r : r = [Asleep EXCEPT !.at = "answered", !.told = Registered(answer)]
  OBVIOUS
<1>4. /\ r \in InquiryRecords /\ r.at = "answered" /\ r.source = "none"
      /\ r.told \in {"nothing", "4byte"} /\ (r.told = "4byte" => listed)
  BY <1>1, <1>3, SourceFacts DEF Asleep, InquiryRecords, Places, Registered
<1>5. ASSUME NEW p \in Inquiries
      PROVE  /\ inquiry'[p] \in InquiryRecords
             /\ (/\ InPlace(p, inquiry[p], abiMemory, abiPromise, sigPromise)
                 /\ ToldTruth(inquiry[p], abiMemory))'
             /\ inquiry[p].at = "ask" => inquiry'[p].at = "ask"
  <2>1. /\ inquiry[p] \in InquiryRecords
        /\ InPlace(p, inquiry[p], abiMemory, abiPromise, sigPromise)
        /\ ToldTruth(inquiry[p], abiMemory)
    BY DEF LookupInv, WorldTypes
  <2>2. CASE inquiry[p].at \in {"registry", "share"}
    <3>1. inquiry'[p] = r
      BY <1>1, <1>3, <2>2
    <3> QED
      BY <1>2, <1>4, <2>2, <3>1 DEF InPlace, ToldTruth
  <2>3. CASE inquiry[p].at \notin {"registry", "share"}
    <3>1. inquiry'[p] = inquiry[p]
      BY <1>1, <2>3
    <3> QED
      BY <1>2, <2>1, <2>3, <3>1 DEF InPlace, ToldTruth
  <2> QED
    BY <2>2, <2>3
<1>6. inquiry' \in [Inquiries -> InquiryRecords]
  BY <1>1, <1>5
<1>7. WorldTypes' /\ PromisesAreKept'
  BY <1>2, <1>5, <1>6 DEF LookupInv, WorldTypes, PromisesAreKept
<1> QED
  BY <1>2, <1>5, <1>7 DEF LookupInv

LEMMA NameKeepsInv ==
  ASSUME LookupInv, NEW q \in Inquiries, BeginName(q) \/ NameAnswers(q) \/ NameUnknown(q)
  PROVE  LookupInv'
<1>1. /\ purpose[q] = "name" /\ inquiry[q].at \in {"idle", "ask"}
      /\ inquiry[q].at = "ask" => inquiry[q].provider = 1
      /\ inquiry[q].try \in Nat
  BY DEF BeginName, NameAnswers, NameUnknown, AskingName, Is, LookupInv, InPlace,
     WorldTypes, InquiryRecords
<1>2. /\ q # abiPromise /\ q # sigPromise
  BY <1>1, Unpromised
<1>3. /\ World /\ UNCHANGED <<abiMemory, abiFile, abiCache, abiPromise, signatures, sigPromise>>
  BY DEF BeginName, NameAnswers, NameUnknown, OnlyNames
<1>4. CachesAreGiven
  BY DEF LookupInv
<1>5. ASSUME names' \in [memory: {"none", "name"}, file: {"none", "torn", "old", "name"}],
             "name" \in {names'.memory, names'.file} => Providers[1] \in verifiedAt
      PROVE  CachesAreGiven'
  BY <1>3, <1>4, <1>5 DEF CachesAreGiven, World
<1>6. CASE BeginName(q)
  <2>1. PICK f \in {"none", "name"} : f = IF names.file = "name" THEN "name" ELSE "none"
    OBVIOUS
  <2>2. IF names.memory = "name"
          THEN inquiry' = Told(q, "name", "none") /\ UNCHANGED names
          ELSE /\ names' = [memory |-> f, file |-> f]
               /\ inquiry' = IF f = "name" THEN Told(q, "name", "none") ELSE Asks(q, 1, 1)
    BY <1>6, <2>1 DEF BeginName
  <2>3. CachesAreGiven' /\ (f = "name" \/ names.memory = "name" => Providers[1] \in verifiedAt)
    BY <1>4, <1>5, <2>1, <2>2 DEF CachesAreGiven
  <2>4. CASE inquiry' = Told(q, "name", "none") /\ (f = "name" \/ names.memory = "name")
    BY <1>2, <1>3, <2>3, <2>4, AnswerKeepsInv, SourceFacts
  <2>5. CASE inquiry' = Asks(q, 1, 1)
    BY <1>1, <1>2, <1>3, <2>3, <2>5, ProviderFacts, AskKeepsInv
  <2> QED
    BY <2>2, <2>4, <2>5
<1>7. CASE NameAnswers(q)
  <2>1. Providers[1] \in verifiedAt
    BY <1>1, <1>7 DEF NameAnswers, AskingName, Is, Knows, Provider
  <2>2. CachesAreGiven'
    BY <1>4, <1>5, <1>7, <2>1 DEF NameAnswers, CachesAreGiven
  <2>3. inquiry' = Told(q, "name", "none") \/ inquiry' = Told(q, "failed", "none")
    BY <1>7 DEF NameAnswers
  <2> QED
    BY <1>2, <1>3, <2>1, <2>2, <2>3, AnswerKeepsInv, SourceFacts
<1>8. CASE NameUnknown(q)
  <2>1. CachesAreGiven'
    BY <1>4, <1>5, <1>8 DEF NameUnknown, CachesAreGiven
  <2>2. PICK t \in Nat : t = inquiry[q].try + 1
    BY <1>1
  <2>3. inquiry' = Told(q, "nothing", "none") \/ inquiry' = Asks(q, 1, t)
    BY <1>8, <2>2 DEF NameUnknown
  <2> QED
    BY <1>1, <1>2, <1>3, <2>1, <2>3, ProviderFacts, AnswerKeepsInv, AskKeepsInv, SourceFacts
<1> QED
  BY <1>6, <1>7, <1>8

LEMMA AgainKeepsInv ==
  ASSUME LookupInv, NEW q \in Inquiries, AskedAgain(q)
  PROVE  LookupInv'
<1>1. q # abiPromise /\ q # sigPromise
  BY Unpromised DEF AskedAgain
<1>2. /\ inquiry' = [inquiry EXCEPT ![q] = Asleep] /\ World /\ CachesAreGiven'
      /\ UNCHANGED <<abiMemory, abiPromise, sigPromise>>
  BY DEF AskedAgain, LookupInv, CachesAreGiven, World
<1>3. /\ Asleep \in InquiryRecords /\ ToldTruth(Asleep, abiMemory')
      /\ InPlace(q, Asleep, abiMemory', abiPromise, sigPromise)
  BY AsleepIsSound
<1> QED
  BY <1>1, <1>2, <1>3, OneMoves

LEMMA VerifiedKeepsInv ==
  ASSUME LookupInv, NEW p, IsVerified(p)
  PROVE  LookupInv'
<1>1. /\ UNCHANGED <<purpose, inAbi, listed, abiMemory, abiFile, names, abiCache, abiPromise,
                     signatures, sigPromise, inquiry>>
      /\ verifiedAt \subseteq verifiedAt'
  BY DEF IsVerified
<1>2. WorldTypes' /\ PromisesAreKept' /\ CachesAreGiven'
  BY <1>1 DEF LookupInv, WorldTypes, PromisesAreKept, CachesAreGiven
<1>3. ASSUME NEW q \in Inquiries
      PROVE  (/\ InPlace(q, inquiry[q], abiMemory, abiPromise, sigPromise)
              /\ ToldTruth(inquiry[q], abiMemory))'
  BY <1>1 DEF LookupInv, InPlace, ToldTruth
<1> QED
  BY <1>2, <1>3 DEF LookupInv

LEMMA RestartKeepsInv ==
  ASSUME LookupInv, LookupRestart
  PROVE  LookupInv'
<1>1. /\ inquiry' = [q \in Inquiries |-> Asleep]
      /\ UNCHANGED <<purpose, verifiedAt, listed>>
      /\ abiMemory' = "none" /\ abiFile' \in {abiFile, "torn"}
      /\ abiCache' = "absent" /\ signatures' = "absent"
      /\ abiPromise' = NoOne /\ sigPromise' = NoOne
  BY DEF LookupRestart
<1>2. PICK f \in {names.file, "old", "torn"} : names' = [memory |-> "none", file |-> f]
  BY DEF LookupRestart
<1>3. CachesAreGiven' /\ PromisesAreKept'
  BY <1>1, <1>2, SourceFacts DEF LookupInv, CachesAreGiven, PromisesAreKept
<1>4. WorldTypes'
  BY <1>1, AsleepIsSound DEF LookupInv, WorldTypes
<1>5. ASSUME NEW q \in Inquiries
      PROVE  (/\ InPlace(q, inquiry[q], abiMemory, abiPromise, sigPromise)
              /\ ToldTruth(inquiry[q], abiMemory))'
  BY <1>1 DEF InPlace, ToldTruth, Asleep
<1> QED
  BY <1>3, <1>4, <1>5 DEF LookupInv

LEMMA LookupNextKeepsInv == LookupInv /\ [LookupNext]_lookupVars => LookupInv'
<1> SUFFICES ASSUME LookupInv, [LookupNext]_lookupVars
             PROVE  LookupInv'
  OBVIOUS
<1>1. CASE UNCHANGED lookupVars
  BY <1>1 DEF lookupVars, LookupInv, WorldTypes, CachesAreGiven, PromisesAreKept, InPlace,
     ToldTruth
<1>2. CASE LookupNext
  BY <1>2, BeginKeepsInv, AskingKeepsInv, DecodeKeepsInv, SelectorKeepsInv,
     RegistryKeepsInv, NameKeepsInv, AgainKeepsInv, VerifiedKeepsInv, RestartKeepsInv
  DEF LookupNext
<1> QED
  BY <1>1, <1>2

LEMMA LookupInvHolds == LookupSpec => []LookupInv
BY LookupInitially, LookupNextKeepsInv, PTL DEF LookupSpec

(***************************************************************************)
(* fetchContractAbi, its report-side caches, lookupFunctionSignatureBy-    *)
(* Selector and fetchContractNameCached, with any inquiries, purposes,     *)
(* providers, retries and restarts: one inquiry at most asks for what      *)
(* several want, nobody waits for no one, and nothing told is made up.     *)
(***************************************************************************)
THEOREM AbiLookupsAreShared == LookupSpec => []LookupsAreShared
<1>1. ASSUME LookupInv
      PROVE  LookupsAreShared
  <2>1. CachesAreGiven /\ PromisesAreKept
    BY <1>1 DEF LookupInv
  <2>2. ASSUME NEW q \in Inquiries
        PROVE  /\ InPlace(q, inquiry[q], abiMemory, abiPromise, sigPromise)
               /\ ToldTruth(inquiry[q], abiMemory)
    BY <1>1 DEF LookupInv
  <2> QED
    BY <2>1, <2>2
    DEF LookupsAreShared, CachesAreGiven, PromisesAreKept, InPlace, ToldTruth
<1> QED
  BY <1>1, LookupInvHolds, PTL
=============================================================================
