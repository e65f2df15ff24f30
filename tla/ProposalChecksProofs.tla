------------------------- MODULE ProposalChecksProofs -------------------------
(***************************************************************************)
(* Proofs about ContractChecks: what the checks of a proposal's contracts  *)
(* read in turn and end with, for any code, any encoding of instructions,  *)
(* any simulation and any number of tools, answers and failures.  About    *)
(* CallMatching: what the check of its calldata describes, for any         *)
(* proposal, any calls in its execution and any number of workers.  About  *)
(* StorageEvidence: what is told of the storage that it changes, for any   *)
(* calls, layouts and writes, and any fields that are overridden.  About   *)
(* PermissionEvidence: what is told of powers that change hands, for any   *)
(* calls and whatever traces they leave.  And about BalanceEvidence: what  *)
(* is told of the treasury, for any transaction and whatever cannot be     *)
(* read or valued.                                                         *)
(***************************************************************************)
EXTENDS ContractChecks, CallMatching, StorageEvidence, PermissionEvidence, BalanceEvidence,
        FiniteSetTheorems, NaturalsInduction, WellFoundedInduction, TLAPS
-----------------------------------------------------------------------------
(* What a loop over a list computes, a number at a time.                   *)

\* WFMin, for numbers.
LEMMA MinimalNumber ==
  ASSUME NEW R, IsWellFoundedOn(R, Nat), NEW T, T \subseteq Nat, T # {}
  PROVE  \E p \in T : \A q \in T : ~(<<q, p>> \in R)
BY WFMin, Zenon

\* A set of numbers has a least one.
LEMMA LeastNumber ==
  ASSUME NEW T, T \subseteq Nat, T # {}
  PROVE  \E p \in T : \A q \in T : p <= q
<1>1. PICK R : R = {ss \in Nat \X Nat : ss[1] < ss[2]}
  OBVIOUS
<1>2. IsWellFoundedOn({ss \in Nat \X Nat : ss[1] < ss[2]}, Nat)
  BY NatLessThanWellFounded, Zenon DEF OpToRel
<1>3. PICK p \in T : \A q \in T : ~(<<q, p>> \in R)
  BY <1>1, <1>2, MinimalNumber, Zenon
<1>4. ASSUME NEW q \in T PROVE p <= q
  <2>1. p \in Nat /\ q \in Nat
    OBVIOUS
  <2>2. <<q, p>> \notin R
    BY <1>3
  <2>3. <<q, p>> \in {ss \in Nat \X Nat : ss[1] < ss[2]} <=> q < p
    BY <2>1
  <2> QED
    BY <1>1, <2>1, <2>2, <2>3
<1> QED
  BY <1>4

\* Induction over the places of a list: a set that holds 0 and with each place
\* the next one holds them all.
LEMMA UpTo ==
  ASSUME NEW L \in Nat, NEW T, 0 \in T, \A n \in 1..L : n - 1 \in T => n \in T
  PROVE  \A n \in 0..L : n \in T
<1>1. PICK F : F = {n \in 0..L : n \notin T}
  OBVIOUS
<1>2. ASSUME F # {} PROVE FALSE
  <2>0. F \subseteq Nat
    BY <1>1
  <2>1. PICK m \in F : \A n \in F : m <= n
    BY <1>2, <2>0, LeastNumber
  <2>2. m \in 0..L /\ m \notin T /\ m # 0
    BY <1>1
  <2>3. m \in 1..L /\ m - 1 \in 0..L /\ ~(m <= m - 1)
    BY <2>2
  <2>4. m - 1 \in T
    BY <1>1, <2>1, <2>3
  <2> QED
    BY <2>2, <2>3, <2>4
<1> QED
  BY <1>1, <1>2

\* A loop over the places of a list, its steps given as functions, has its values.
Loop(f, a, t, L) == f = [n \in 0..L |-> IF n = 0 THEN a ELSE t[n][f[n - 1]]]

LEMMA LoopExists ==
  ASSUME NEW A, NEW a \in A, NEW L \in Nat, NEW t, \A n \in 1..L : t[n] \in [A -> A]
  PROVE  \E f \in [0..L -> A] : Loop(f, a, t, L)
<1> DEFINE Runs(f, l) == \A n \in 1..l : f[n] = t[n][f[n - 1]]
<1>1. PICK T : T = {l \in 0..L : \E f \in [0..l -> A] : f[0] = a /\ Runs(f, l)}
  OBVIOUS
<1>2. 0 \in T
  <2>1. PICK f : f = [n \in 0..0 |-> a]
    OBVIOUS
  <2>2. f \in [0..0 -> A] /\ f[0] = a /\ Runs(f, 0)
    BY <2>1
  <2> HIDE DEF Runs
  <2> QED
    BY <1>1, <2>2
<1>3. ASSUME NEW l \in 1..L, l - 1 \in T PROVE l \in T
  <2>1. PICK f \in [0..(l - 1) -> A] : f[0] = a /\ Runs(f, l - 1)
    BY <1>1, <1>3
  <2>2. PICK g : g = [n \in 0..l |-> IF n = l THEN t[l][f[l - 1]] ELSE f[n]]
    OBVIOUS
  <2>3. f[l - 1] \in A
    OBVIOUS
  <2>4. t[l][f[l - 1]] \in A
    BY <2>3
  <2>5. g \in [0..l -> A]
    BY <2>2, <2>4
  <2>6. g[0] = a
    BY <2>1, <2>2
  <2>7. ASSUME NEW n \in 1..l PROVE g[n] = t[n][g[n - 1]]
    <3>1. CASE n = l
      <4>1. g[n - 1] = f[l - 1]
        BY <2>2, <3>1
      <4> QED
        BY <2>2, <3>1, <4>1
    <3>2. CASE n # l
      <4>1. n \in 1..(l - 1) /\ g[n] = f[n] /\ g[n - 1] = f[n - 1]
        BY <2>2, <3>2
      <4> QED
        BY <2>1, <4>1
    <3> QED
      BY <3>1, <3>2
  <2>8. Runs(g, l)
    BY <2>7
  <2> HIDE DEF Runs
  <2> QED
    BY <1>1, <2>5, <2>6, <2>8
<1>4. L \in T
  <2>1. \A n \in 0..L : n \in T
    BY <1>2, <1>3, UpTo
  <2> QED
    BY <2>1
<1>5. PICK f \in [0..L -> A] : f[0] = a /\ Runs(f, L)
  BY <1>1, <1>4
<1>6. \A n \in 0..L : f[n] = IF n = 0 THEN a ELSE t[n][f[n - 1]]
  BY <1>5
<1>7. f = [n \in 0..L |-> f[n]]
  OBVIOUS
<1> QED
  BY <1>6, <1>7 DEF Loop
-----------------------------------------------------------------------------
(* checkNoSelfdestruct's loop, the instructions and what can be executed,  *)
(* each as a function of the byte reached.                                 *)

ScanState == [next : Nat, halted : BOOLEAN, seen : SUBSET STRING]
ScanBegin == [next |-> 1, halted |-> FALSE, seen |-> {}]
ScanStep(s, i, op) ==
  IF i < s.next THEN s
  ELSE [next |-> i + 1 + PushLength(op),
        halted |-> op \in Halting \/ (s.halted /\ op # "JUMPDEST"),
        seen |-> s.seen \cup (IF s.halted THEN {} ELSE {op})]
IsScan(f, bytes) ==
  /\ f \in [0..Len(bytes) -> ScanState] /\ f[0] = ScanBegin
  /\ \A i \in 1..Len(bytes) : f[i] = ScanStep(f[i - 1], i, bytes[i])

StartStep(s, i, op) == IF i \in s THEN s \cup {i + 1 + PushLength(op)} ELSE s
IsStarts(g, bytes) ==
  /\ g \in [0..Len(bytes) -> SUBSET Nat] /\ g[0] = {1}
  /\ \A i \in 1..Len(bytes) : g[i] = StartStep(g[i - 1], i, bytes[i])

IsReach(h, bytes) ==
  /\ h \in [0..Len(bytes) -> SUBSET DOMAIN bytes] /\ h[0] = {1} \cap DOMAIN bytes
  /\ \A n \in 1..Len(bytes) : h[n] = h[n - 1] \cup UNION {Continues(bytes, i) : i \in h[n - 1]}

LEMMA PushFacts == \A op : PushLength(op) \in 0..2
BY DEF PushLength

LEMMA ScanStepFits ==
  ASSUME NEW s \in ScanState, NEW i \in Nat, NEW op \in STRING
  PROVE  ScanStep(s, i, op) \in ScanState
BY PushFacts DEF ScanStep, ScanState

LEMMA ScanIs ==
  ASSUME NEW bytes \in Seq(STRING)
  PROVE  \E f : IsScan(f, bytes) /\ Scanned(bytes) = f[Len(bytes)].seen
<1>1. PICK L : L = Len(bytes)
  OBVIOUS
<1>2. L \in Nat /\ \A n \in 1..L : bytes[n] \in STRING
  BY <1>1
<1>3. PICK t : t = [n \in 1..L |-> [s \in ScanState |-> ScanStep(s, n, bytes[n])]]
  OBVIOUS
<1>4. ASSUME NEW n \in 1..L PROVE t[n] \in [ScanState -> ScanState]
  <2>0. n \in Nat /\ bytes[n] \in STRING
    BY <1>2
  <2>1. \A s \in ScanState : ScanStep(s, n, bytes[n]) \in ScanState
    BY <2>0, ScanStepFits
  <2> QED
    BY <1>3, <2>1
<1>5. ScanBegin \in ScanState
  BY DEF ScanBegin, ScanState
<1>6. PICK f \in [0..L -> ScanState] : Loop(f, ScanBegin, t, L)
  BY <1>2, <1>4, <1>5, LoopExists
<1>7. ASSUME NEW e
      PROVE  [i \in 0..Len(bytes) |->
                IF i = 0 THEN [next |-> 1, halted |-> FALSE, seen |-> {}]
                ELSE IF i < e[i - 1].next THEN e[i - 1]
                ELSE [next |-> i + 1 + PushLength(bytes[i]),
                      halted |-> bytes[i] \in Halting \/ (e[i - 1].halted /\ bytes[i] # "JUMPDEST"),
                      seen |-> e[i - 1].seen \cup
                               (IF e[i - 1].halted THEN {} ELSE {bytes[i]})]]
             = [i \in 0..L |-> IF i = 0 THEN ScanBegin ELSE ScanStep(e[i - 1], i, bytes[i])]
  BY <1>1 DEF ScanBegin, ScanStep
<1> DEFINE e == CHOOSE e : e =
             [i \in 0..Len(bytes) |->
                IF i = 0 THEN [next |-> 1, halted |-> FALSE, seen |-> {}]
                ELSE IF i < e[i - 1].next THEN e[i - 1]
                ELSE [next |-> i + 1 + PushLength(bytes[i]),
                      halted |-> bytes[i] \in Halting \/ (e[i - 1].halted /\ bytes[i] # "JUMPDEST"),
                      seen |-> e[i - 1].seen \cup
                               (IF e[i - 1].halted THEN {} ELSE {bytes[i]})]]
<1>8. Scanned(bytes) = e[L].seen
  BY <1>1 DEF Scanned
<1>9. f = [i \in 0..L |-> IF i = 0 THEN ScanBegin ELSE ScanStep(f[i - 1], i, bytes[i])]
  <2>1. \A n \in 0..L : n # 0 => t[n][f[n - 1]] = ScanStep(f[n - 1], n, bytes[n])
    BY <1>2, <1>3
  <2> QED
    BY <1>6, <2>1 DEF Loop
<1>14. f = [i \in 0..Len(bytes) |->
                IF i = 0 THEN [next |-> 1, halted |-> FALSE, seen |-> {}]
                ELSE IF i < f[i - 1].next THEN f[i - 1]
                ELSE [next |-> i + 1 + PushLength(bytes[i]),
                      halted |-> bytes[i] \in Halting \/ (f[i - 1].halted /\ bytes[i] # "JUMPDEST"),
                      seen |-> f[i - 1].seen \cup
                               (IF f[i - 1].halted THEN {} ELSE {bytes[i]})]]
  BY <1>7, <1>9
<1>10. e = [i \in 0..Len(bytes) |->
                IF i = 0 THEN [next |-> 1, halted |-> FALSE, seen |-> {}]
                ELSE IF i < e[i - 1].next THEN e[i - 1]
                ELSE [next |-> i + 1 + PushLength(bytes[i]),
                      halted |-> bytes[i] \in Halting \/ (e[i - 1].halted /\ bytes[i] # "JUMPDEST"),
                      seen |-> e[i - 1].seen \cup
                               (IF e[i - 1].halted THEN {} ELSE {bytes[i]})]]
  BY <1>14, Zenon
<1> HIDE DEF e
<1>11. e = [i \in 0..L |-> IF i = 0 THEN ScanBegin ELSE ScanStep(e[i - 1], i, bytes[i])]
  BY <1>7, <1>10, Zenon
<1>12. \A i \in 0..L : e[i] \in ScanState
  <2>1. PICK T : T = {i \in 0..L : e[i] \in ScanState}
    OBVIOUS
  <2>2. 0 \in T
    BY <1>2, <1>5, <1>11, <2>1
  <2>3. ASSUME NEW n \in 1..L, n - 1 \in T PROVE n \in T
    <3>1. /\ e[n] = ScanStep(e[n - 1], n, bytes[n]) /\ e[n - 1] \in ScanState
          /\ bytes[n] \in STRING /\ n \in Nat /\ n \in 0..L
      BY <1>2, <1>11, <2>1, <2>3
    <3> QED
      BY <2>1, <3>1, ScanStepFits
  <2>4. \A n \in 0..L : n \in T
    BY <1>2, <2>2, <2>3, UpTo
  <2> QED
    BY <2>1, <2>4
<1>13. IsScan(e, bytes)
  <2>1. e \in [0..L -> ScanState]
    BY <1>11, <1>12
  <2>2. e[0] = ScanBegin /\ \A i \in 1..L : e[i] = ScanStep(e[i - 1], i, bytes[i])
    BY <1>2, <1>11
  <2> QED
    BY <1>1, <2>1, <2>2 DEF IsScan
<1> QED
  BY <1>1, <1>8, <1>13

LEMMA StartsAre ==
  ASSUME NEW bytes \in Seq(STRING)
  PROVE  \E g : IsStarts(g, bytes) /\ Instructions(bytes) = g[Len(bytes)] \cap DOMAIN bytes
<1>1. PICK L, D : L = Len(bytes) /\ D = SUBSET Nat
  OBVIOUS
<1>2. L \in Nat /\ \A n \in 1..L : bytes[n] \in STRING /\ n \in Nat
  BY <1>1
<1>3. PICK t : t = [n \in 1..L |-> [s \in D |-> StartStep(s, n, bytes[n])]]
  OBVIOUS
<1>30. ASSUME NEW n \in 1..L, NEW s \in D PROVE StartStep(s, n, bytes[n]) \in D
  <2>1. PushLength(bytes[n]) \in 0..2 /\ n \in Nat
    BY <1>2, PushFacts
  <2>2. n + 1 + PushLength(bytes[n]) \in Nat
    BY <2>1
  <2> QED
    BY <1>1, <2>2 DEF StartStep
<1>4. \A n \in 1..L : t[n] \in [D -> D]
  BY <1>3, <1>30
<1>5. {1} \in D
  BY <1>1
<1>6. PICK f \in [0..L -> D] : Loop(f, {1}, t, L)
  BY <1>2, <1>4, <1>5, LoopExists
<1>7. ASSUME NEW e
      PROVE  [i \in 0..Len(bytes) |->
                IF i = 0 THEN {1}
                ELSE IF i \in e[i - 1] THEN e[i - 1] \cup {i + 1 + PushLength(bytes[i])}
                ELSE e[i - 1]]
             = [i \in 0..L |-> IF i = 0 THEN {1} ELSE StartStep(e[i - 1], i, bytes[i])]
  BY <1>1 DEF StartStep
<1> DEFINE e == CHOOSE e : e =
             [i \in 0..Len(bytes) |->
                IF i = 0 THEN {1}
                ELSE IF i \in e[i - 1] THEN e[i - 1] \cup {i + 1 + PushLength(bytes[i])}
                ELSE e[i - 1]]
<1>8. Instructions(bytes) = e[L] \cap DOMAIN bytes
  BY <1>1 DEF Instructions
<1>9. f = [i \in 0..L |-> IF i = 0 THEN {1} ELSE StartStep(f[i - 1], i, bytes[i])]
  <2>1. \A n \in 0..L : n # 0 => t[n][f[n - 1]] = StartStep(f[n - 1], n, bytes[n])
    BY <1>2, <1>3
  <2> QED
    BY <1>6, <2>1 DEF Loop
<1>14. f = [i \in 0..Len(bytes) |->
                IF i = 0 THEN {1}
                ELSE IF i \in f[i - 1] THEN f[i - 1] \cup {i + 1 + PushLength(bytes[i])}
                ELSE f[i - 1]]
  BY <1>7, <1>9
<1>10. e = [i \in 0..Len(bytes) |->
                IF i = 0 THEN {1}
                ELSE IF i \in e[i - 1] THEN e[i - 1] \cup {i + 1 + PushLength(bytes[i])}
                ELSE e[i - 1]]
  BY <1>14, Zenon
<1> HIDE DEF e
<1>11. e = [i \in 0..L |-> IF i = 0 THEN {1} ELSE StartStep(e[i - 1], i, bytes[i])]
  BY <1>7, <1>10, Zenon
<1>15. \A i \in 0..L : e[i] = IF i = 0 THEN {1} ELSE StartStep(e[i - 1], i, bytes[i])
  BY <1>11, Zenon
<1>16. e[0] = {1} /\ \A i \in 1..L : e[i] = StartStep(e[i - 1], i, bytes[i])
  <2>1. 0 \in 0..L /\ \A i \in 1..L : i \in 0..L /\ i # 0
    BY <1>2
  <2> QED
    BY <1>15, <2>1, Zenon
<1>12. \A i \in 0..L : e[i] \in D
  <2>1. PICK T : T = {i \in 0..L : e[i] \in D}
    OBVIOUS
  <2>2. 0 \in T
    <3>1. 0 \in 0..L
      BY <1>2
    <3>2. e[0] \in D
      BY <1>5, <1>16, Zenon
    <3> QED
      BY <2>1, <3>1, <3>2
  <2>3. ASSUME NEW n \in 1..L, n - 1 \in T PROVE n \in T
    <3>1. /\ e[n] = StartStep(e[n - 1], n, bytes[n]) /\ e[n - 1] \in D
          /\ n \in 0..L
      BY <1>16, <2>1, <2>3
    <3> QED
      BY <1>30, <2>1, <3>1
  <2>4. \A n \in 0..L : n \in T
    BY <1>2, <2>2, <2>3, UpTo
  <2> QED
    BY <2>1, <2>4
<1>13. IsStarts(e, bytes)
  <2>1. e \in [0..L -> D]
    BY <1>11, <1>12
  <2> QED
    BY <1>1, <1>16, <2>1 DEF IsStarts
<1> QED
  BY <1>1, <1>8, <1>13

\* What is executed is among the bytes.
ReachStep(bytes, s) == s \cup UNION {Continues(bytes, i) : i \in s}

LEMMA ContinuesInside ==
  ASSUME NEW bytes, NEW s \in SUBSET DOMAIN bytes
  PROVE  ReachStep(bytes, s) \in SUBSET DOMAIN bytes
<1>1. \A i \in s : Continues(bytes, i) \subseteq DOMAIN bytes
  BY DEF Continues, Instructions
<1> QED
  BY <1>1 DEF ReachStep

LEMMA ReachIs ==
  ASSUME NEW bytes \in Seq(STRING)
  PROVE  \E h : IsReach(h, bytes) /\ Executable(bytes) = {bytes[i] : i \in h[Len(bytes)]}
<1>1. PICK L, D : L = Len(bytes) /\ D = SUBSET DOMAIN bytes
  OBVIOUS
<1>2. L \in Nat
  BY <1>1
<1>3. PICK t : t = [n \in 1..L |-> [s \in D |-> ReachStep(bytes, s)]]
  OBVIOUS
<1>30. \A s \in D : ReachStep(bytes, s) \in D
  BY <1>1, ContinuesInside
<1>4. \A n \in 1..L : t[n] \in [D -> D]
  BY <1>3, <1>30
<1>31. PICK b : b = {1} \cap DOMAIN bytes
  OBVIOUS
<1>5. b \in D
  BY <1>1, <1>31
<1>6. PICK f \in [0..L -> D] : Loop(f, b, t, L)
  BY <1>2, <1>4, <1>5, LoopExists
<1>7. ASSUME NEW e
      PROVE  [n \in 0..Len(bytes) |->
                IF n = 0 THEN {1} \cap DOMAIN bytes
                ELSE e[n - 1] \cup UNION {Continues(bytes, i) : i \in e[n - 1]}]
             = [n \in 0..L |-> IF n = 0 THEN b ELSE ReachStep(bytes, e[n - 1])]
  BY <1>1, <1>31 DEF ReachStep
<1> DEFINE e == CHOOSE e : e =
             [n \in 0..Len(bytes) |->
                IF n = 0 THEN {1} \cap DOMAIN bytes
                ELSE e[n - 1] \cup UNION {Continues(bytes, i) : i \in e[n - 1]}]
<1>8. Executable(bytes) = {bytes[i] : i \in e[L]}
  BY <1>1 DEF Executable
<1>9. f = [n \in 0..L |-> IF n = 0 THEN b ELSE ReachStep(bytes, f[n - 1])]
  <2>1. \A n \in 0..L : n # 0 => t[n][f[n - 1]] = ReachStep(bytes, f[n - 1])
    BY <1>2, <1>3
  <2> QED
    BY <1>6, <2>1 DEF Loop
<1>14. f = [n \in 0..Len(bytes) |->
                IF n = 0 THEN {1} \cap DOMAIN bytes
                ELSE f[n - 1] \cup UNION {Continues(bytes, i) : i \in f[n - 1]}]
  BY <1>7, <1>9
<1>10. e = [n \in 0..Len(bytes) |->
                IF n = 0 THEN {1} \cap DOMAIN bytes
                ELSE e[n - 1] \cup UNION {Continues(bytes, i) : i \in e[n - 1]}]
  BY <1>14, Zenon
<1> HIDE DEF e
<1>11. e = [n \in 0..L |-> IF n = 0 THEN b ELSE ReachStep(bytes, e[n - 1])]
  BY <1>7, <1>10, Zenon
<1>12. \A i \in 0..L : e[i] \in D
  <2>1. PICK T : T = {i \in 0..L : e[i] \in D}
    OBVIOUS
  <2>2. 0 \in T
    BY <1>2, <1>5, <1>11, <2>1
  <2>3. ASSUME NEW n \in 1..L, n - 1 \in T PROVE n \in T
    <3>1. e[n] = ReachStep(bytes, e[n - 1]) /\ e[n - 1] \in D /\ n \in 0..L
      BY <1>2, <1>11, <2>1, <2>3
    <3> QED
      BY <1>30, <2>1, <3>1
  <2>4. \A n \in 0..L : n \in T
    BY <1>2, <2>2, <2>3, UpTo
  <2> QED
    BY <2>1, <2>4
<1>13. IsReach(e, bytes)
  <2>1. e \in [0..L -> D]
    BY <1>11, <1>12
  <2>2. e[0] = b /\ \A i \in 1..L : e[i] = ReachStep(bytes, e[i - 1])
    BY <1>2, <1>11
  <2> QED
    BY <1>1, <1>31, <2>1, <2>2 DEF IsReach, ReachStep
<1> QED
  BY <1>1, <1>8, <1>13
-----------------------------------------------------------------------------
\* The next instruction is ahead and the only one ahead that is known.
Ahead(f, g, n) ==
  /\ f[n].next > n /\ f[n].next \in g[n]
  /\ \A j \in g[n] : j > n => j = f[n].next

LEMMA OneIsAhead ==
  ASSUME NEW bytes \in Seq(STRING), NEW f, IsScan(f, bytes), NEW g, IsStarts(g, bytes)
  PROVE  \A n \in 0..Len(bytes) : Ahead(f, g, n)
<1>1. PICK L : L = Len(bytes)
  OBVIOUS
<1>2. L \in Nat
  BY <1>1
<1>3. PICK T : T = {n \in 0..L : Ahead(f, g, n)}
  OBVIOUS
<1>4. 0 \in T
  <2>1. f[0].next = 1 /\ g[0] = {1}
    BY DEF IsScan, IsStarts, ScanBegin
  <2> QED
    BY <1>2, <1>3, <2>1 DEF Ahead
<1>5. ASSUME NEW n \in 1..L, n - 1 \in T PROVE n \in T
  <2>1. PICK s, u, op : s = f[n - 1] /\ u = g[n - 1] /\ op = bytes[n]
    OBVIOUS
  <2>2. s \in ScanState /\ f[n] = ScanStep(s, n, op)
    BY <1>1, <1>2, <2>1 DEF IsScan
  <2>3. u \in SUBSET Nat /\ g[n] = StartStep(u, n, op)
    BY <1>1, <1>2, <2>1 DEF IsStarts
  <2>4. s.next \in Nat /\ s.next > n - 1 /\ s.next \in u /\ \A j \in u : j > n - 1 => j = s.next
    BY <1>3, <1>5, <2>1, <2>2 DEF Ahead, ScanState
  <2>5. CASE n < s.next
    <3>1. n \notin u
      BY <2>4, <2>5
    <3>2. f[n] = s /\ g[n] = u
      BY <2>2, <2>3, <2>5, <3>1 DEF ScanStep, StartStep
    <3>3. \A j \in u : j > n => j > n - 1
      BY <2>3
    <3>4. s.next > n /\ n \in 0..L
      BY <1>2, <2>4, <2>5
    <3>5. Ahead(f, g, n)
      BY <2>4, <3>2, <3>3, <3>4 DEF Ahead
    <3> QED
      BY <1>3, <3>4, <3>5
  <2>6. CASE ~(n < s.next)
    <3>1. n = s.next /\ n \in u
      BY <2>4, <2>6
    <3>2. PICK q : q = n + 1 + PushLength(op)
      OBVIOUS
    <3>3. q \in Nat /\ q > n
      BY <3>2, PushFacts
    <3>4. f[n].next = q /\ g[n] = u \cup {q}
      BY <2>2, <2>3, <2>6, <3>1, <3>2 DEF ScanStep, StartStep
    <3>5. \A j \in u : ~(j > n)
      BY <2>3, <2>4, <3>1
    <3> QED
      BY <1>3, <3>3, <3>4, <3>5 DEF Ahead
  <2> QED
    BY <2>5, <2>6
<1>6. \A n \in 0..L : n \in T
  BY <1>2, <1>4, <1>5, UpTo
<1> QED
  BY <1>1, <1>3, <1>6

\* The scan takes as an instruction what is one.
Taken(f, i) == ~(i < f[i - 1].next)

LEMMA TakenAreStarts ==
  ASSUME NEW bytes \in Seq(STRING), NEW f, IsScan(f, bytes)
  PROVE  Instructions(bytes) = {i \in 1..Len(bytes) : Taken(f, i)}
<1>1. PICK L : L = Len(bytes)
  OBVIOUS
<1>2. L \in Nat /\ DOMAIN bytes = 1..L
  BY <1>1
<1>3. PICK g : IsStarts(g, bytes) /\ Instructions(bytes) = g[L] \cap DOMAIN bytes
  BY <1>1, StartsAre
<1>4. \A n \in 0..L : Ahead(f, g, n)
  BY <1>1, <1>3, OneIsAhead
<1>5. \A i \in 1..L : i \in g[i - 1] <=> Taken(f, i)
  <2>1. ASSUME NEW i \in 1..L PROVE i \in g[i - 1] <=> Taken(f, i)
    <3>1. i - 1 \in 0..L /\ f[i - 1].next \in Nat /\ Ahead(f, g, i - 1)
      BY <1>1, <1>2, <1>4 DEF IsScan, ScanState
    <3> QED
      BY <3>1 DEF Ahead, Taken
  <2> QED
    BY <2>1
<1>6. PICK T : T = {n \in 0..L : \A i \in 1..L : i <= n + 1 => (i \in g[n] <=> i \in g[i - 1])}
  OBVIOUS
<1>7. 0 \in T
  <2>1. \A i \in 1..L : i <= 0 + 1 => i - 1 = 0
    OBVIOUS
  <2> QED
    BY <1>2, <1>6, <2>1
<1>8. ASSUME NEW n \in 1..L, n - 1 \in T PROVE n \in T
  <2>1. g[n] = StartStep(g[n - 1], n, bytes[n])
    BY <1>1, <1>3 DEF IsStarts
  <2>2. n + 1 + PushLength(bytes[n]) > n /\ n + 1 + PushLength(bytes[n]) \in Nat
    BY PushFacts
  <2>3. ASSUME NEW i \in 1..L, i <= n + 1 PROVE i \in g[n] <=> i \in g[i - 1]
    <3>1. CASE i = n + 1
      BY <3>1
    <3>2. CASE i # n + 1
      <4>1. i <= (n - 1) + 1 /\ i # n + 1 + PushLength(bytes[n])
        BY <2>2, <2>3, <3>2
      <4>2. i \in g[n - 1] <=> i \in g[i - 1]
        BY <1>6, <1>8, <4>1
      <4>3. i \in g[n] <=> i \in g[n - 1]
        BY <2>1, <4>1 DEF StartStep
      <4> QED
        BY <4>2, <4>3
    <3> QED
      BY <3>1, <3>2
  <2> QED
    BY <1>6, <2>3
<1>9. L \in T
  <2>1. \A n \in 0..L : n \in T
    BY <1>2, <1>7, <1>8, UpTo
  <2> QED
    BY <1>2, <2>1
<1>10. \A i \in 1..L : i \in g[L] <=> Taken(f, i)
  <2>1. \A i \in 1..L : i \in g[L] <=> i \in g[i - 1]
    BY <1>2, <1>6, <1>9
  <2> QED
    BY <1>5, <2>1
<1> QED
  BY <1>1, <1>2, <1>3, <1>10
\* What is met unhalted stays seen, and what was seen was met.
LEMMA SeenIsMet ==
  ASSUME NEW bytes \in Seq(STRING), NEW f, IsScan(f, bytes)
  PROVE  /\ \A i \in 1..Len(bytes) : Taken(f, i) /\ ~f[i - 1].halted => bytes[i] \in f[Len(bytes)].seen
         /\ \A op \in f[Len(bytes)].seen : \E i \in 1..Len(bytes) : Taken(f, i) /\ bytes[i] = op
<1>1. PICK L : L = Len(bytes)
  OBVIOUS
<1>2. L \in Nat
  BY <1>1
<1> DEFINE Fits(n) ==
      /\ \A i \in 1..n : Taken(f, i) /\ ~f[i - 1].halted => bytes[i] \in f[n].seen
      /\ \A op \in f[n].seen : \E i \in 1..n : Taken(f, i) /\ bytes[i] = op
<1>3. PICK T : T = {n \in 0..L : Fits(n)}
  OBVIOUS
<1>4. 0 \in T
  <2>1. f[0].seen = {}
    BY DEF IsScan, ScanBegin
  <2>2. Fits(0)
    BY <2>1
  <2> HIDE DEF Fits
  <2> QED
    BY <1>2, <1>3, <2>2
<1>5. ASSUME NEW n \in 1..L, n - 1 \in T PROVE n \in T
  <2>1. PICK s, op : s = f[n - 1] /\ op = bytes[n]
    OBVIOUS
  <2>2. s \in ScanState /\ f[n] = ScanStep(s, n, op)
    BY <1>1, <1>2, <2>1 DEF IsScan
  <2>3. Fits(n - 1)
    BY <1>3, <1>5
  <2>4. Taken(f, n) <=> ~(n < s.next)
    BY <2>1 DEF Taken
  <2>5. s.seen \subseteq f[n].seen /\ (~(n < s.next) /\ ~s.halted => op \in f[n].seen)
    BY <2>2 DEF ScanStep
  <2>6. \A x \in f[n].seen : x \in s.seen \/ (x = op /\ ~(n < s.next))
    BY <2>2 DEF ScanStep
  <2>7. ASSUME NEW i \in 1..n, Taken(f, i), ~f[i - 1].halted PROVE bytes[i] \in f[n].seen
    <3>1. CASE i = n
      BY <2>1, <2>4, <2>5, <2>7, <3>1
    <3>2. CASE i # n
      <4>1. i \in 1..(n - 1)
        BY <3>2
      <4> QED
        BY <2>1, <2>3, <2>5, <2>7, <4>1
    <3> QED
      BY <3>1, <3>2
  <2>8. ASSUME NEW x \in f[n].seen PROVE \E i \in 1..n : Taken(f, i) /\ bytes[i] = x
    <3>1. CASE x \in s.seen
      <4>1. PICK i \in 1..(n - 1) : Taken(f, i) /\ bytes[i] = x
        BY <2>1, <2>3, <3>1
      <4>2. i \in 1..n
        OBVIOUS
      <4> QED
        BY <4>1, <4>2
    <3>2. CASE x = op /\ ~(n < s.next)
      <4>1. n \in 1..n
        OBVIOUS
      <4> QED
        BY <2>1, <2>4, <3>2, <4>1
    <3> QED
      BY <2>6, <3>1, <3>2
  <2>9. Fits(n) /\ n \in 0..L
    BY <1>2, <2>7, <2>8
  <2> HIDE DEF Fits
  <2> QED
    BY <1>3, <2>9
<1>6. Fits(L)
  <2>1. \A n \in 0..L : n \in T
    BY <1>2, <1>4, <1>5, UpTo
  <2> HIDE DEF Fits
  <2> QED
    BY <1>2, <1>3, <2>1
<1> QED
  BY <1>1, <1>6

\* Behind an instruction the scan stands still up to the next one.
LEMMA StandsStill ==
  ASSUME NEW bytes \in Seq(STRING), NEW f, IsScan(f, bytes), NEW i \in 1..Len(bytes),
         NEW j \in 1..Len(bytes), j = f[i].next, Taken(f, i)
  PROVE  f[j - 1] = f[i] /\ Taken(f, j)
<1>1. PICK L : L = Len(bytes)
  OBVIOUS
<1>2. L \in Nat /\ i \in 1..L /\ j \in 1..L
  BY <1>1
<1>3. j > i
  <2>1. f[i - 1] \in ScanState /\ f[i] = ScanStep(f[i - 1], i, bytes[i])
    BY <1>1, <1>2 DEF IsScan
  <2>2. f[i].next = i + 1 + PushLength(bytes[i])
    BY <2>1 DEF Taken, ScanStep
  <2> QED
    BY <1>2, <2>2, PushFacts
<1>4. PICK T : T = {n \in 0..L : i <= n /\ n < j => f[n] = f[i]}
  OBVIOUS
<1>5. 0 \in T
  BY <1>2, <1>4
<1>6. ASSUME NEW n \in 1..L, n - 1 \in T PROVE n \in T
  <2>1. n \in 0..L
    BY <1>2
  <2>2. CASE i <= n /\ n < j
    <3>1. CASE n = i
      BY <1>4, <2>1, <3>1
    <3>2. CASE n # i
      <4>1. f[n - 1] = f[i]
        BY <1>2, <1>4, <1>6, <2>2, <3>2
      <4>2. f[n] = ScanStep(f[n - 1], n, bytes[n])
        BY <1>1 DEF IsScan
      <4>3. f[n] = f[i]
        BY <2>2, <4>1, <4>2 DEF ScanStep
      <4> QED
        BY <1>4, <2>1, <4>3
    <3> QED
      BY <3>1, <3>2
  <2>3. CASE ~(i <= n /\ n < j)
    BY <1>4, <2>1, <2>3
  <2> QED
    BY <2>2, <2>3
<1>7. j - 1 \in T
  <2>1. \A n \in 0..L : n \in T
    BY <1>2, <1>5, <1>6, UpTo
  <2>2. j - 1 \in 0..L
    BY <1>2
  <2> QED
    BY <2>1, <2>2
<1>8. f[j - 1] = f[i]
  BY <1>2, <1>3, <1>4, <1>7
<1> QED
  BY <1>2, <1>8 DEF Taken

\* Where the scan is not halted, or ceases to be.
Live(f, bytes, i) ==
  /\ i \in 1..Len(bytes) /\ Taken(f, i)
  /\ f[i - 1].halted => bytes[i] = "JUMPDEST"

LEMMA LiveGoesOn ==
  ASSUME NEW bytes \in Seq(STRING), NEW f, IsScan(f, bytes), NEW i, Live(f, bytes, i),
         NEW d \in Continues(bytes, i)
  PROVE  Live(f, bytes, d)
<1>1. PICK L : L = Len(bytes)
  OBVIOUS
<1>2. L \in Nat /\ DOMAIN bytes = 1..L /\ i \in 1..L
  BY <1>1 DEF Live
<1>3. bytes[i] \notin Halting
  BY DEF Continues
<1>4. f[i - 1] \in ScanState /\ f[i] = ScanStep(f[i - 1], i, bytes[i])
  BY <1>1, <1>2 DEF IsScan
<1>5. f[i].next = i + 1 + PushLength(bytes[i]) /\ ~f[i].halted
  <2>1. PICK s, op : s = f[i - 1] /\ op = bytes[i]
    OBVIOUS
  <2>2. ~(i < s.next) /\ (s.halted => op = "JUMPDEST")
    BY <2>1 DEF Live, Taken
  <2>3. f[i] = [next |-> i + 1 + PushLength(op),
                halted |-> op \in Halting \/ (s.halted /\ op # "JUMPDEST"),
                seen |-> s.seen \cup (IF s.halted THEN {} ELSE {op})]
    BY <1>4, <2>1, <2>2 DEF ScanStep
  <2>4. f[i].next = i + 1 + PushLength(op)
    BY <2>3
  <2>5. f[i].halted = (op \in Halting \/ (s.halted /\ op # "JUMPDEST"))
    BY <2>3
  <2> QED
    BY <1>3, <2>1, <2>2, <2>4, <2>5
<1>6. CASE bytes[i] = "JUMP"
  <2>1. d \in Instructions(bytes) /\ bytes[d] = "JUMPDEST"
    BY <1>3, <1>6 DEF Continues
  <2> QED
    BY <2>1, TakenAreStarts DEF Live
<1>7. CASE bytes[i] # "JUMP"
  <2>1. d = f[i].next /\ d \in 1..L
    BY <1>2, <1>3, <1>5, <1>7 DEF Continues
  <2>2. f[d - 1] = f[i] /\ Taken(f, d)
    BY <1>1, <1>2, <2>1, StandsStill DEF Live
  <2> QED
    BY <1>1, <1>5, <2>1, <2>2 DEF Live
<1> QED
  BY <1>6, <1>7

\* The scan misses nothing that can be executed, and sees only instructions.
THEOREM ScanMissesNothing ==
  ASSUME NEW bytes \in Seq(STRING)
  PROVE  /\ \A op \in Executable(bytes) : op # "JUMPDEST" => op \in Scanned(bytes)
         /\ \A op \in Scanned(bytes) : \E i \in Instructions(bytes) : bytes[i] = op
<1>1. PICK L : L = Len(bytes)
  OBVIOUS
<1>2. L \in Nat /\ DOMAIN bytes = 1..L
  BY <1>1
<1>3. PICK f : IsScan(f, bytes) /\ Scanned(bytes) = f[L].seen
  BY <1>1, ScanIs
<1>4. PICK h : IsReach(h, bytes) /\ Executable(bytes) = {bytes[i] : i \in h[L]}
  BY <1>1, ReachIs
<1>5. PICK T : T = {n \in 0..L : \A i \in h[n] : Live(f, bytes, i)}
  OBVIOUS
<1>6. 0 \in T
  <2>1. \A i \in h[0] : i = 1 /\ i \in 1..L
    BY <1>2, <1>4 DEF IsReach
  <2>2. f[0].next = 1 /\ ~f[0].halted
    BY <1>3 DEF IsScan, ScanBegin
  <2>3. \A i \in h[0] : Live(f, bytes, i)
    BY <1>1, <2>1, <2>2 DEF Live, Taken
  <2> QED
    BY <1>2, <1>5, <2>3
<1>7. ASSUME NEW n \in 1..L, n - 1 \in T PROVE n \in T
  <2>1. h[n] = h[n - 1] \cup UNION {Continues(bytes, i) : i \in h[n - 1]}
    BY <1>1, <1>4 DEF IsReach
  <2>2. \A i \in h[n - 1] : Live(f, bytes, i)
    BY <1>5, <1>7
  <2>3. ASSUME NEW d \in h[n] PROVE Live(f, bytes, d)
    <3>1. CASE d \in h[n - 1]
      BY <2>2, <3>1
    <3>2. CASE d \notin h[n - 1]
      <4>1. PICK i \in h[n - 1] : d \in Continues(bytes, i)
        BY <2>1, <2>3, <3>2
      <4> QED
        BY <1>3, <2>2, <4>1, LiveGoesOn
    <3> QED
      BY <3>1, <3>2
  <2> QED
    BY <1>2, <1>5, <2>3
<1>8. \A i \in h[L] : Live(f, bytes, i)
  <2>1. \A n \in 0..L : n \in T
    BY <1>2, <1>6, <1>7, UpTo
  <2> QED
    BY <1>2, <1>5, <2>1
<1>9. ASSUME NEW op \in Executable(bytes), op # "JUMPDEST" PROVE op \in Scanned(bytes)
  <2>1. PICK i \in h[L] : op = bytes[i]
    BY <1>4
  <2>2. i \in 1..Len(bytes) /\ Taken(f, i) /\ ~f[i - 1].halted
    BY <1>8, <1>9, <2>1 DEF Live
  <2> QED
    BY <1>1, <1>3, <2>1, <2>2, SeenIsMet
<1>10. ASSUME NEW op \in Scanned(bytes) PROVE \E i \in Instructions(bytes) : bytes[i] = op
  <2>1. PICK i \in 1..L : Taken(f, i) /\ bytes[i] = op
    BY <1>1, <1>3, SeenIsMet
  <2> QED
    BY <1>1, <1>3, <2>1, TakenAreStarts
<1> QED
  BY <1>9, <1>10
-----------------------------------------------------------------------------
(* Lists, and what is picked from them.                                    *)

AList(s) == \E S : s \in Seq(S)

LEMMA AListIs ==
  ASSUME NEW s, AList(s)
  PROVE  Len(s) \in Nat /\ DOMAIN s = 1..Len(s) /\ (s = <<>> <=> Len(s) = 0)
BY DEF AList

LEMMA FunctionIsList ==
  ASSUME NEW n \in Nat, NEW f
  PROVE  /\ AList([k \in 1..n |-> f[k]]) /\ Len([k \in 1..n |-> f[k]]) = n
         /\ \A k \in 1..n : [j \in 1..n |-> f[j]][k] = f[k]
<1>1. PICK S : S = {f[k] : k \in 1..n}
  OBVIOUS
<1>2. [k \in 1..n |-> f[k]] \in Seq(S)
  BY <1>1
<1> QED
  BY <1>2 DEF AList

LEMMA SameList ==
  ASSUME NEW s, NEW t, AList(s), AList(t), Len(s) = Len(t), \A n \in 1..Len(s) : s[n] = t[n]
  PROVE  s = t
<1>1. PICK S : s \in Seq(S)
  BY DEF AList
<1>2. PICK T : t \in Seq(T)
  BY DEF AList
<1>3. PICK U : U = S \cup T
  OBVIOUS
<1>4. s \in Seq(U) /\ t \in Seq(U)
  BY <1>1, <1>2, <1>3
<1> QED
  BY <1>4

LEMMA Joined ==
  ASSUME NEW s, NEW t, AList(s), AList(t)
  PROVE  /\ AList(s \o t) /\ Len(s \o t) = Len(s) + Len(t)
         /\ \A n \in 1..Len(s) : (s \o t)[n] = s[n]
         /\ \A n \in 1..Len(t) : (s \o t)[Len(s) + n] = t[n]
<1>1. PICK S : s \in Seq(S)
  BY DEF AList
<1>2. PICK T : t \in Seq(T)
  BY DEF AList
<1>3. PICK U : U = S \cup T
  OBVIOUS
<1>4. s \in Seq(U) /\ t \in Seq(U)
  BY <1>1, <1>2, <1>3
<1>5. PICK u : u = s \o t
  OBVIOUS
<1>6. u \in Seq(U) /\ Len(u) = Len(s) + Len(t)
  BY <1>4, <1>5
<1>7. \A n \in 1..Len(s) : u[n] = s[n]
  BY <1>4, <1>5
<1>8. \A n \in 1..Len(t) : u[Len(s) + n] = t[n]
  BY <1>4, <1>5
<1> QED
  BY <1>5, <1>6, <1>7, <1>8 DEF AList

LEMMA OneOf == \A e : AList(<<e>>) /\ Len(<<e>>) = 1 /\ <<e>>[1] = e
<1>1. ASSUME NEW e PROVE <<e>> \in Seq({e})
  OBVIOUS
<1> QED
  BY <1>1 DEF AList

LEMMA NoneOf == AList(<<>>) /\ Len(<<>>) = 0
<1>1. <<>> \in Seq({})
  OBVIOUS
<1> QED
  BY <1>1 DEF AList

LEMMA Shortened ==
  ASSUME NEW s, AList(s), s # <<>>
  PROVE  /\ AList(Tail(s)) /\ Len(s) \in Nat \ {0} /\ Len(Tail(s)) = Len(s) - 1 /\ Head(s) = s[1]
         /\ \A n \in 1..Len(Tail(s)) : Tail(s)[n] = s[n + 1]
BY DEF AList
-----------------------------------------------------------------------------
Below(S, n) == {m \in S : m < n}
Nth(S, k) == CHOOSE n \in S : Cardinality(Below(S, n)) = k - 1

LEMMA BelowRises ==
  ASSUME NEW S, S \subseteq Nat, IsFiniteSet(S), NEW j \in S, NEW k \in S, j < k
  PROVE  Cardinality(Below(S, j)) < Cardinality(Below(S, k))
<1>1. PICK A, B : A = Below(S, j) /\ B = Below(S, k)
  OBVIOUS
<1>2. A \subseteq S /\ B \subseteq S /\ A \subseteq B /\ j \in B /\ j \notin A
  <2>1. \A m \in S : m < j => m < k
    OBVIOUS
  <2>2. ~(j < j)
    OBVIOUS
  <2> QED
    BY <1>1, <2>1, <2>2 DEF Below
<1>3. IsFiniteSet(A) /\ IsFiniteSet(B)
  BY <1>2, FS_Subset
<1>4. Cardinality(A) <= Cardinality(B) /\ (Cardinality(A) = Cardinality(B) => A = B)
  BY <1>2, <1>3, FS_Subset
<1>5. Cardinality(A) \in Nat /\ Cardinality(B) \in Nat
  BY <1>3, FS_CardinalityType
<1> QED
  BY <1>1, <1>2, <1>4, <1>5

LEMMA BelowIsSmall ==
  ASSUME NEW S, S \subseteq Nat, IsFiniteSet(S), NEW k \in S
  PROVE  Cardinality(Below(S, k)) \in 0..(Cardinality(S) - 1)
<1>1. PICK A : A = Below(S, k)
  OBVIOUS
<1>2. A \subseteq S /\ k \notin A
  BY <1>1 DEF Below
<1>3. IsFiniteSet(A) /\ Cardinality(A) <= Cardinality(S) /\ (Cardinality(A) = Cardinality(S) => A = S)
  BY <1>2, FS_Subset
<1>4. Cardinality(A) \in Nat /\ Cardinality(S) \in Nat
  BY <1>3, FS_CardinalityType
<1> QED
  BY <1>1, <1>2, <1>3, <1>4

\* Every rank is taken once.
LEMMA Nths ==
  ASSUME NEW S, S \subseteq Nat, IsFiniteSet(S)
  PROVE  /\ Cardinality(S) \in Nat
         /\ \A k \in 1..Cardinality(S) : /\ Nth(S, k) \in S
                                         /\ Cardinality(Below(S, Nth(S, k))) = k - 1
         /\ \A n \in S : \E k \in 1..Cardinality(S) : n = Nth(S, k)
         /\ \A j, k \in 1..Cardinality(S) : j < k => Nth(S, j) < Nth(S, k)
         /\ \A n \in S, k \in Int : Cardinality(Below(S, n)) = k - 1 => n = Nth(S, k)
<1>1. PICK L : L = Cardinality(S)
  OBVIOUS
<1>2. L \in Nat
  BY <1>1, FS_CardinalityType
<1>3. PICK g : g = [n \in S |-> Cardinality(Below(S, n))]
  OBVIOUS
<1>4. PICK T : T = 0..(L - 1)
  OBVIOUS
<1>5. g \in [S -> T]
  BY <1>1, <1>3, <1>4, BelowIsSmall
<1>6. \A j, k \in S : g[j] = g[k] => j = k
  <2>1. SUFFICES ASSUME NEW j \in S, NEW k \in S, g[j] = g[k], j # k PROVE FALSE
    OBVIOUS
  <2>2. j \in Nat /\ k \in Nat /\ g[j] \in Int /\ g[k] \in Int
    BY <1>4, <1>5
  <2>3. j < k \/ k < j
    BY <2>1, <2>2
  <2>4. g[j] < g[k] \/ g[k] < g[j]
    BY <1>3, <2>3, BelowRises
  <2> QED
    BY <2>1, <2>2, <2>4
<1>7. g \in Injection(S, T)
  BY <1>5, <1>6 DEF Injection, IsInjective
<1>8. IsFiniteSet(T) /\ Cardinality(T) = L
  <2>1. 0 \in Int /\ L - 1 \in Int
    BY <1>2
  <2>2. IsFiniteSet(0..(L - 1)) /\ Cardinality(0..(L - 1)) = IF 0 > L - 1 THEN 0 ELSE (L - 1) - 0 + 1
    BY <2>1, FS_Interval
  <2> QED
    BY <1>2, <1>4, <2>2
<1>9. g \in Surjection(S, T)
  BY <1>1, <1>7, <1>8, FS_Injection
<1>10. ASSUME NEW k \in 1..L PROVE \E n \in S : Cardinality(Below(S, n)) = k - 1
  <2>1. k - 1 \in T
    BY <1>2, <1>4
  <2>2. PICK n \in S : g[n] = k - 1
    BY <1>9, <2>1 DEF Surjection
  <2> QED
    BY <1>3, <2>2
<1>11. ASSUME NEW k \in 1..L
       PROVE  Nth(S, k) \in S /\ Cardinality(Below(S, Nth(S, k))) = k - 1
  BY <1>10 DEF Nth
<1>12. ASSUME NEW n \in S, NEW k \in Int, Cardinality(Below(S, n)) = k - 1
       PROVE  n = Nth(S, k) /\ k \in 1..L
  <2>1. g[n] = k - 1 /\ g[n] \in T
    BY <1>3, <1>5, <1>12
  <2>2. k \in 1..L
    BY <1>2, <1>4, <2>1
  <2>3. g[Nth(S, k)] = g[n] /\ Nth(S, k) \in S
    BY <1>3, <1>11, <1>12, <2>2
  <2> QED
    BY <1>6, <2>2, <2>3
<1>13. ASSUME NEW n \in S PROVE \E k \in 1..L : n = Nth(S, k)
  <2>1. PICK c : c = Cardinality(Below(S, n))
    OBVIOUS
  <2>2. c \in Int
    BY <1>3, <1>4, <1>5, <2>1
  <2>3. c + 1 \in Int /\ Cardinality(Below(S, n)) = (c + 1) - 1
    BY <2>1, <2>2
  <2> QED
    BY <1>12, <2>3
<1>14. ASSUME NEW j \in 1..L, NEW k \in 1..L, j < k PROVE Nth(S, j) < Nth(S, k)
  <2>1. PICK a, b : a = Nth(S, j) /\ b = Nth(S, k)
    OBVIOUS
  <2>2. a \in S /\ b \in S /\ g[a] = j - 1 /\ g[b] = k - 1
    BY <1>3, <1>11, <2>1
  <2>3. a \in Nat /\ b \in Nat /\ j \in Nat /\ k \in Nat
    BY <1>2, <2>2
  <2>4. a # b
    BY <1>14, <2>2, <2>3
  <2>5. ~(b < a)
    <3>1. SUFFICES ASSUME b < a PROVE FALSE
      OBVIOUS
    <3>2. g[b] < g[a]
      BY <1>3, <2>2, <3>1, BelowRises
    <3> QED
      BY <1>14, <2>2, <2>3, <3>2
  <2> QED
    BY <2>1, <2>3, <2>4, <2>5
<1> QED
  BY <1>1, <1>2, <1>11, <1>12, <1>13, <1>14

LEMMA PickedIs ==
  ASSUME NEW list, NEW S, S \subseteq Nat, IsFiniteSet(S)
  PROVE  /\ AList(Picked(list, S)) /\ Len(Picked(list, S)) = Cardinality(S)
         /\ \A k \in 1..Cardinality(S) : Picked(list, S)[k] = list[Nth(S, k)]
<1>1. PICK L, f : L = Cardinality(S) /\ f = [k \in 1..L |-> list[Nth(S, k)]]
  OBVIOUS
<1>2. L \in Nat
  BY <1>1, FS_CardinalityType
<1>3. Picked(list, S) = f
  BY <1>1 DEF Picked, Nth, Below
<1>4. f = [k \in 1..L |-> f[k]]
  BY <1>1
<1>5. AList(f) /\ Len(f) = L
  BY <1>2, <1>4, FunctionIsList
<1> QED
  BY <1>1, <1>3, <1>5

\* The entries of a list at some places, in their order.
PicksFrom(list, S, picks) ==
  /\ AList(picks) /\ Len(picks) = Cardinality(S)
  /\ \A k \in 1..Cardinality(S) : picks[k] = list[Nth(S, k)]

\* Picked is such a list.
LEMMA PickedPicks ==
  ASSUME NEW list, NEW S, S \subseteq Nat, IsFiniteSet(S)
  PROVE  PicksFrom(list, S, Picked(list, S))
BY PickedIs DEF PicksFrom

\* What is picked depends on what is there only.
LEMMA PickedSame ==
  ASSUME NEW s, NEW t, NEW S, S \subseteq Nat, IsFiniteSet(S), \A n \in S : s[n] = t[n]
  PROVE  Picked(s, S) = Picked(t, S)
<1>1. \A k \in 1..Cardinality(S) : s[Nth(S, k)] = t[Nth(S, k)]
  BY Nths
<1>2. PICK u, v : u = Picked(s, S) /\ v = Picked(t, S)
  OBVIOUS
<1>3. AList(u) /\ AList(v) /\ Len(u) = Len(v) /\ \A k \in 1..Len(u) : u[k] = v[k]
  <2>1. PICK L : L = Cardinality(S)
    OBVIOUS
  <2>2. AList(u) /\ Len(u) = L /\ \A k \in 1..L : u[k] = s[Nth(S, k)]
    <3>1. PicksFrom(s, S, Picked(s, S))
      BY PickedPicks
    <3> QED
      BY <1>2, <2>1, <3>1 DEF PicksFrom
  <2>3. AList(v) /\ Len(v) = L /\ \A k \in 1..L : v[k] = t[Nth(S, k)]
    <3>1. PicksFrom(t, S, Picked(t, S))
      BY PickedPicks
    <3> QED
      BY <1>2, <2>1, <3>1 DEF PicksFrom
  <2> QED
    BY <1>1, <2>1, <2>2, <2>3
<1> QED
  BY <1>2, <1>3, SameList

LEMMA PickedOneMore ==
  ASSUME NEW s, NEW S, S \subseteq Nat, IsFiniteSet(S), NEW m \in Nat, \A n \in S : n < m
  PROVE  Picked(s, S \cup {m}) = Picked(s, S) \o <<s[m]>>
<1>1. PICK T, L : T = S \cup {m} /\ L = Cardinality(S)
  OBVIOUS
<1>2. m \notin S
  OBVIOUS
<1>3. T \subseteq Nat /\ IsFiniteSet(T) /\ Cardinality(T) = L + 1 /\ L \in Nat
  BY <1>1, <1>2, FS_AddElement, FS_CardinalityType
<1>4. \A n \in S : Below(T, n) = Below(S, n)
  <2>1. ASSUME NEW n \in S PROVE ~(m < n)
    BY <2>1
  <2> QED
    BY <1>1, <2>1 DEF Below
<1>5. Below(T, m) = S
  <2>1. ~(m < m)
    OBVIOUS
  <2> QED
    BY <1>1, <2>1 DEF Below
<1>6. ASSUME NEW k \in 1..L PROVE Nth(T, k) = Nth(S, k)
  <2>1. PICK n : n = Nth(S, k)
    OBVIOUS
  <2>2. n \in S /\ Cardinality(Below(S, n)) = k - 1
    BY <1>1, <2>1, Nths
  <2>3. n \in T /\ Cardinality(Below(T, n)) = k - 1 /\ k \in Int
    BY <1>1, <1>4, <2>2
  <2> QED
    BY <1>3, <2>1, <2>3, Nths
<1>7. Nth(T, L + 1) = m
  <2>1. m \in T /\ Cardinality(Below(T, m)) = (L + 1) - 1 /\ L + 1 \in Int
    BY <1>1, <1>3, <1>5
  <2> QED
    BY <1>3, <2>1, Nths
<1>8. PICK u, v, w : u = Picked(s, T) /\ v = Picked(s, S) /\ w = v \o <<s[m]>>
  OBVIOUS
<1>9. AList(u) /\ Len(u) = L + 1 /\ AList(v) /\ Len(v) = L
  BY <1>1, <1>3, <1>8, PickedIs
<1>10. AList(w) /\ Len(w) = L + 1 /\ (\A k \in 1..L : w[k] = v[k]) /\ w[L + 1] = s[m]
  <2>1. PICK o : o = <<s[m]>>
    OBVIOUS
  <2>2. AList(o) /\ Len(o) = 1 /\ o[1] = s[m]
    BY <2>1, OneOf
  <2>3. w = v \o o
    BY <1>8, <2>1
  <2>4. 1 \in 1..Len(o)
    BY <2>2
  <2>5. /\ AList(v \o o) /\ Len(v \o o) = Len(v) + Len(o)
        /\ \A n \in 1..Len(v) : (v \o o)[n] = v[n]
        /\ \A n \in 1..Len(o) : (v \o o)[Len(v) + n] = o[n]
    <3>1. AList(v) /\ AList(o)
      BY <1>9, <2>2
    <3> QED
      BY <3>1, Joined
  <2>6. (v \o o)[Len(v) + 1] = o[1]
    BY <2>4, <2>5
  <2> QED
    BY <1>9, <2>2, <2>3, <2>5, <2>6
<1>11. ASSUME NEW k \in 1..(L + 1) PROVE u[k] = w[k]
  <2>1. u[k] = s[Nth(T, k)]
    <3>1. k \in 1..Cardinality(T)
      BY <1>3
    <3> QED
      BY <1>3, <1>8, <3>1, PickedIs
  <2>2. CASE k \in 1..L
    <3>1. v[k] = s[Nth(S, k)]
      BY <1>1, <1>8, <2>2, PickedIs
    <3> QED
      BY <1>6, <1>10, <2>1, <2>2, <3>1
  <2>3. CASE k = L + 1
    BY <1>7, <1>10, <2>1, <2>3
  <2> QED
    BY <1>3, <2>2, <2>3
<1>12. u = w
  BY <1>9, <1>10, <1>11, SameList
<1> QED
  BY <1>1, <1>8, <1>12

\* All of what was joined, picked again.
LEMMA PickedTheJoined ==
  ASSUME NEW s, NEW t, AList(s), AList(t)
  PROVE  Picked(s \o t, (Len(s) + 1)..(Len(s) + Len(t))) = t
<1>1. PICK a, b, S : a = Len(s) /\ b = Len(t) /\ S = (a + 1)..(a + b)
  OBVIOUS
<1>2. a \in Nat /\ b \in Nat
  BY <1>1, AListIs
<1>3. S \subseteq Nat
  BY <1>1, <1>2
<1>4. IsFiniteSet(S) /\ Cardinality(S) = b
  <2>1. a + 1 \in Int /\ a + b \in Int
    BY <1>2
  <2>2. IsFiniteSet((a + 1)..(a + b))
        /\ Cardinality((a + 1)..(a + b)) = IF a + 1 > a + b THEN 0 ELSE (a + b) - (a + 1) + 1
    BY <2>1, FS_Interval
  <2> QED
    BY <1>1, <1>2, <2>2
<1>5. ASSUME NEW k \in 1..b PROVE Nth(S, k) = a + k
  <2>1. Below(S, a + k) = (a + 1)..(a + k - 1)
    BY <1>1, <1>2 DEF Below
  <2>2. a + 1 \in Int /\ a + k - 1 \in Int
    BY <1>2
  <2>3. Cardinality((a + 1)..(a + k - 1))
          = IF a + 1 > a + k - 1 THEN 0 ELSE (a + k - 1) - (a + 1) + 1
    BY <2>2, FS_Interval
  <2>4. Cardinality(Below(S, a + k)) = k - 1
    BY <1>2, <2>1, <2>3
  <2>5. a + k \in S /\ k \in Int
    BY <1>1, <1>2
  <2> QED
    BY <1>3, <1>4, <2>4, <2>5, Nths
<1>6. PICK u : u = Picked(s \o t, S)
  OBVIOUS
<1>7. AList(u) /\ Len(u) = b
  BY <1>3, <1>4, <1>6, PickedIs
<1>8. ASSUME NEW k \in 1..b PROVE u[k] = t[k]
  <2>1. u[k] = (s \o t)[a + k]
    <3>1. u[k] = (s \o t)[Nth(S, k)]
      BY <1>3, <1>4, <1>6, PickedIs
    <3> QED
      BY <1>5, <3>1
  <2>2. (s \o t)[Len(s) + k] = t[k]
    BY <1>1, Joined
  <2> QED
    BY <1>1, <2>1, <2>2
<1>9. u = t
  BY <1>1, <1>7, <1>8, SameList
<1> QED
  BY <1>1, <1>6, <1>9
-----------------------------------------------------------------------------
(* What each kind of check has said so far, and of what.                   *)

\* Notes about the first of a list; the rest of it is left.
Follows(s, l, list) ==
  /\ Len(list) = Len(s) + Len(l)
  /\ \A n \in 1..Len(s) : s[n].about = list[n]
  /\ \A n \in 1..Len(l) : l[n] = list[Len(s) + n]

TellsCode(note, cd, br) ==
  note.about \notin Own =>
    /\ "SELFDESTRUCT" \in Executable(cd[note.about]) => note.level = "error"
    /\ note.level = "error" =>
         \E i \in Instructions(cd[note.about]) : cd[note.about][i] = "SELFDESTRUCT"
    /\ "DELEGATECALL" \in Executable(cd[note.about]) =>
         note.level \in {"warning", "error"} \/ note.about \in br \cup {Placeholder}

Notes(said) == \A n \in 1..Len(said) : said[n] = Note(said[n].about, said[n].what, said[n].level)

ShapeFits(p) ==
  /\ AList(p.left) /\ AList(p.said) /\ Notes(p.said)
  /\ p.at = "begin" => p.said = <<>>
  /\ p.at = "ended" => p.left = <<>>

ScanFits(p, list, cd, br) ==
  p.at \in {"next", "ended"} => /\ Follows(p.said, p.left, list)
                                /\ \A n \in 1..Len(p.said) : TellsCode(p.said[n], cd, br)

WarnsOf(said, c) == \E n \in 1..Len(said) : said[n].about = c /\ said[n].level = "warning"
ProxyFits(p, list) ==
  p.at \in {"next", "ended"} =>
    \A k \in 1..Len(list) :
      /\ list[k] \in DOMAIN Behind
      /\ Published[Behind[list[k]].implementation] = "nowhere"
      => WarnsOf(p.said, list[k]) \/ \E n \in 1..Len(p.left) : p.left[n] = list[k]

ToldBy(said, c) == Picked(said, {n \in DOMAIN said : said[n].about.from = c})
EmittedBy(logs, c) == Picked(logs, {n \in DOMAIN logs : logs[n].from = c /\ ~Dull(logs[n])})
Abouts(s) == [n \in DOMAIN s |-> s[n].about]
LogFits(p, list, logs) ==
  p.at \in {"next", "ended"} =>
    /\ Len(p.left) <= Len(list)
    /\ \A n \in 1..Len(p.left) : p.left[n] = list[Len(list) - Len(p.left) + n]
    /\ \A k \in 1..Len(list) :
         IF k <= Len(list) - Len(p.left) THEN Abouts(ToldBy(p.said, list[k])) = EmittedBy(logs, list[k])
         ELSE \A n \in 1..Len(p.said) : p.said[n].about.from # list[k]

Concluding(said) == {n \in DOMAIN said : said[n].what \in {"report", "failed", "not analysed"}}
Reports(t, said, an, co, ma) ==
  \A n \in 1..Len(said) : said[n].what = "report" =>
    /\ said[n].about \in DOMAIN Version
    /\ \/ <<t, said[n].about>> \in an
       \/ t = "slither" /\ ma /\ co[Version[said[n].about]] = "complaint"
ToolFits(t, p, list, an, co, ma, di) ==
  /\ p.at \in {"next", "source", "compiler", "running", "ended"} =>
       Follows(Picked(p.said, Concluding(p.said)), p.left, list)
  /\ Reports(t, p.said, an, co, ma)
  /\ p.at = "compiler" => ma
  /\ p.at # "running" => t \notin di

Fits(c) ==
  /\ ShapeFits(progress[c])
  /\ c \in Scanners => ScanFits(progress[c], ListOf(c), code, simulation.bridges)
  /\ c = "proxies" => ProxyFits(progress[c], ListOf(c))
  /\ c = "logs" => LogFits(progress[c], ListOf(c), simulation.logs)
  /\ c \in Tools => ToolFits(c, progress[c], ListOf(c), analysed, compilers, managed, directories)

Installs == {"absent", "installing", "installed", "complaint", "crash"}
Compilers == {Version[c] : c \in DOMAIN Version}
ContractInv ==
  /\ simulation \in Simulations /\ code \in Codings
  /\ progress = [c \in ContractChecks |-> progress[c]]
  /\ compilers \in [Compilers -> Installs]
  /\ \A c \in ContractChecks : Fits(c)
-----------------------------------------------------------------------------
LEMMA PlacesFit ==
  ASSUME NEW s, AList(s), NEW S, S \subseteq DOMAIN s
  PROVE  S \subseteq Nat /\ IsFiniteSet(S)
<1>1. PICK L : L = Len(s)
  OBVIOUS
<1>2. L \in Nat /\ S \subseteq 1..L
  BY <1>1, AListIs
<1>3. IsFiniteSet(1..L)
  BY <1>2, FS_Interval
<1> QED
  BY <1>2, <1>3, FS_Subset

LEMMA PickedFrom ==
  ASSUME NEW s, AList(s), NEW S, S \subseteq DOMAIN s
  PROVE  /\ AList(Picked(s, S))
         /\ \A k \in 1..Len(Picked(s, S)) : \E n \in S : Picked(s, S)[k] = s[n]
<1>1. S \subseteq Nat /\ IsFiniteSet(S)
  BY PlacesFit
<1>2. PICK u, L : u = Picked(s, S) /\ L = Cardinality(S)
  OBVIOUS
<1>3. AList(u) /\ Len(u) = L /\ \A k \in 1..L : u[k] = s[Nth(S, k)]
  BY <1>1, <1>2, PickedIs
<1>4. \A k \in 1..L : Nth(S, k) \in S
  BY <1>1, <1>2, Nths
<1> QED
  BY <1>2, <1>3, <1>4

LEMMA UniqueIs ==
  ASSUME NEW s, AList(s)
  PROVE  /\ AList(Unique(s))
         /\ \A k \in 1..Len(Unique(s)) : \E n \in DOMAIN s : Unique(s)[k] = s[n]
         /\ \A j, k \in 1..Len(Unique(s)) : j < k => Unique(s)[j] # Unique(s)[k]
<1>1. PICK S : S = {n \in DOMAIN s : \A m \in 1..(n - 1) : s[m] # s[n]}
  OBVIOUS
<1>2. S \subseteq DOMAIN s /\ S \subseteq Nat /\ IsFiniteSet(S)
  BY <1>1, PlacesFit
<1>3. PICK u, L : u = Unique(s) /\ L = Cardinality(S)
  OBVIOUS
<1>4. u = Picked(s, S)
  BY <1>1, <1>3 DEF Unique
<1>5. AList(u) /\ Len(u) = L /\ \A k \in 1..L : u[k] = s[Nth(S, k)]
  BY <1>2, <1>3, <1>4, PickedIs
<1>6. \A k \in 1..Len(u) : \E n \in S : u[k] = s[n]
  BY <1>2, <1>4, PickedFrom
<1>7. ASSUME NEW j \in 1..L, NEW k \in 1..L, j < k PROVE u[j] # u[k]
  <2>1. PICK a, b : a = Nth(S, j) /\ b = Nth(S, k)
    OBVIOUS
  <2>2. a \in S /\ b \in S /\ a < b
    BY <1>2, <1>3, <1>7, <2>1, Nths
  <2>3. a \in Nat /\ b \in Nat /\ a \in DOMAIN s /\ b \in DOMAIN s
    BY <1>2, <2>2
  <2>4. DOMAIN s = 1..Len(s)
    BY AListIs
  <2>5. a \in 1..(b - 1)
    BY <2>2, <2>3, <2>4
  <2>6. s[a] # s[b]
    BY <1>1, <2>2, <2>5
  <2> QED
    BY <1>5, <2>1, <2>6
<1> QED
  BY <1>2, <1>3, <1>5, <1>6, <1>7

LEMMA SequencesAreLists ==
  ASSUME NEW S, NEW s \in Seq(S)
  PROVE  AList(s) /\ \A n \in DOMAIN s : s[n] \in S
BY DEF AList

\* What each check goes through.
LEMMA ListsAre ==
  ASSUME simulation \in Simulations, code \in Codings
  PROVE  /\ \A c \in ContractChecks : AList(ListOf(c))
         /\ \A c \in Scanners : \A n \in 1..Len(ListOf(c)) : ListOf(c)[n] \in Own \cup DOMAIN code
         /\ \A c \in Tools : \A n \in 1..Len(ListOf(c)) : ListOf(c)[n] \in DOMAIN Version
         /\ \A j, k \in 1..Len(ListOf("logs")) : j < k => ListOf("logs")[j] # ListOf("logs")[k]
         /\ AList(simulation.logs)
<1>1. PICK G : G = Own \cup DOMAIN code
  OBVIOUS
<1>2. PICK sim : sim = simulation
  OBVIOUS
<1>3. /\ sim.targets \in Seq(G) /\ sim.touched \in Seq(G) /\ sim.to \in G
      /\ sim.frames \in Seq([to : G, data : BOOLEAN])
      /\ sim.logs \in Seq([from : STRING, name : STRING, event : STRING, inputs : BOOLEAN])
      /\ DOMAIN code \subseteq DOMAIN Version
  BY <1>1, <1>2, ContractAssumption
<1>4. /\ AList(sim.targets) /\ (\A n \in DOMAIN sim.targets : sim.targets[n] \in G)
      /\ AList(sim.touched) /\ (\A n \in DOMAIN sim.touched : sim.touched[n] \in G)
      /\ AList(sim.logs) /\ AList(sim.frames)
      /\ \A n \in DOMAIN sim.frames : sim.frames[n].to \in G
  <2>1. /\ AList(sim.targets) /\ (\A n \in DOMAIN sim.targets : sim.targets[n] \in G)
        /\ AList(sim.touched) /\ (\A n \in DOMAIN sim.touched : sim.touched[n] \in G)
    BY <1>3, SequencesAreLists
  <2>2. AList(sim.logs)
    BY <1>3, SequencesAreLists
  <2>3. AList(sim.frames) /\ \A n \in DOMAIN sim.frames : sim.frames[n] \in [to : G, data : BOOLEAN]
    BY <1>3, SequencesAreLists
  <2> QED
    BY <2>1, <2>2, <2>3
<1>5. PICK touching : touching = ListOf("touched")
  OBVIOUS
<1>6. touching = sim.touched
  BY <1>2, <1>5 DEF ListOf, Tools
<1>7. \A n \in 1..Len(touching) : touching[n] \in G
  BY <1>4, <1>6, AListIs
<1>8. AList(Unique(sim.targets)) /\ \A k \in 1..Len(Unique(sim.targets)) : Unique(sim.targets)[k] \in G
  BY <1>4, UniqueIs
<1>9. AList(CalledWithData) /\ \A k \in 1..Len(CalledWithData) : CalledWithData[k] \in G
  <2>1. PICK called : called = [i \in DOMAIN sim.frames |-> sim.frames[i].to]
    OBVIOUS
  <2>2. PICK S : S = {i \in DOMAIN called : sim.frames[i].data}
    OBVIOUS
  <2>3. PICK u : u = Picked(called, S)
    OBVIOUS
  <2>4. PICK o : o = <<sim.to>>
    OBVIOUS
  <2>5. CalledWithData = Unique(u \o o)
    BY <1>2, <2>1, <2>2, <2>3, <2>4 DEF CalledWithData
  <2>6. AList(called) /\ DOMAIN called = DOMAIN sim.frames /\ \A n \in DOMAIN called : called[n] \in G
    <3>1. PICK L : L = Len(sim.frames)
      OBVIOUS
    <3>2. L \in Nat /\ DOMAIN sim.frames = 1..L
      BY <1>4, <3>1, AListIs
    <3>3. called = [k \in 1..L |-> called[k]]
      BY <2>1, <3>2
    <3>4. AList([k \in 1..L |-> called[k]])
      BY <3>2, FunctionIsList
    <3> QED
      BY <1>4, <2>1, <3>3, <3>4
  <2>7. AList(u) /\ \A k \in 1..Len(u) : u[k] \in G
    BY <2>2, <2>3, <2>6, PickedFrom
  <2>8. AList(o) /\ Len(o) = 1 /\ o[1] = sim.to
    BY <2>4, OneOf
  <2>9. PICK w : w = u \o o
    OBVIOUS
  <2>10. /\ AList(w) /\ Len(w) = Len(u) + Len(o)
         /\ (\A n \in 1..Len(u) : w[n] = u[n]) /\ \A n \in 1..Len(o) : w[Len(u) + n] = o[n]
    <3>1. AList(u) /\ AList(o)
      BY <2>7, <2>8
    <3> QED
      BY <2>9, <3>1, Joined
  <2>11. \A n \in DOMAIN w : w[n] \in G
    <3>1. PICK a : a = Len(u)
      OBVIOUS
    <3>2. a \in Nat /\ DOMAIN w = 1..(a + 1)
      BY <2>7, <2>8, <2>10, <3>1, AListIs
    <3>3. w[a + 1] = sim.to
      <4>1. 1 \in 1..Len(o)
        BY <2>8
      <4> QED
        BY <2>8, <2>10, <3>1, <4>1
    <3>4. ASSUME NEW n \in 1..(a + 1) PROVE w[n] \in G
      <4>1. CASE n \in 1..a
        BY <2>7, <2>10, <3>1, <4>1
      <4>2. CASE n = a + 1
        BY <1>3, <3>3, <4>2
      <4> QED
        BY <3>2, <4>1, <4>2
    <3> QED
      BY <3>2, <3>4
  <2> QED
    BY <2>5, <2>9, <2>10, <2>11, UniqueIs
<1>10. AList(ListOf("targets")) /\ \A n \in 1..Len(ListOf("targets")) : ListOf("targets")[n] \in G
  BY <1>2, <1>8, <1>9 DEF ListOf, Tools
<1>11. AList(ListOf("proxies"))
  <2>1. PICK S : S = {i \in DOMAIN sim.touched : sim.touched[i] \in sim.proxies}
    OBVIOUS
  <2>2. AList(Picked(sim.touched, S))
    BY <1>4, <2>1, PickedFrom
  <2>3. PICK a : a = (IF sim.l1 THEN sim.targets ELSE <<sim.to>>)
    OBVIOUS
  <2>4. AList(a)
    BY <1>4, <2>3, OneOf
  <2>5. AList(a \o Picked(sim.touched, S))
    BY <2>2, <2>4, Joined
  <2>6. ListOf("proxies") = Unique(a \o Picked(sim.touched, S))
    BY <1>2, <2>1, <2>3 DEF ListOf, Tools
  <2> QED
    BY <2>5, <2>6, UniqueIs
<1>12. /\ AList(ListOf("logs"))
       /\ \A j, k \in 1..Len(ListOf("logs")) : j < k => ListOf("logs")[j] # ListOf("logs")[k]
  <2>1. PICK L, u : L = Len(sim.logs) /\ u = [i \in DOMAIN sim.logs |-> sim.logs[i].from]
    OBVIOUS
  <2>2. L \in Nat /\ DOMAIN sim.logs = 1..L
    BY <1>4, <2>1, AListIs
  <2>3. u = [k \in 1..L |-> u[k]]
    BY <2>1, <2>2
  <2>4. AList(u)
    BY <2>2, <2>3, FunctionIsList
  <2>5. ListOf("logs") = Unique(u)
    BY <1>2, <2>1 DEF ListOf, Tools
  <2> QED
    BY <2>4, <2>5, UniqueIs
<1>13. ASSUME NEW c \in Tools
       PROVE  AList(ListOf(c)) /\ \A n \in 1..Len(ListOf(c)) : ListOf(c)[n] \in DOMAIN Version
  <2>1. PICK S : S = {i \in DOMAIN sim.touched : sim.touched[i] \notin Passed(c)}
    OBVIOUS
  <2>2. ListOf(c) = Picked(sim.touched, S) /\ Own \subseteq Passed(c)
    BY <1>2, <1>13, <2>1 DEF ListOf, Tools, Passed
  <2>3. \A n \in S : sim.touched[n] \in DOMAIN Version
    BY <1>1, <1>3, <1>4, <2>1, <2>2
  <2> QED
    BY <1>4, <2>1, <2>2, <2>3, PickedFrom
<1> QED
  BY <1>1, <1>2, <1>4, <1>5, <1>6, <1>7, <1>10, <1>11, <1>12, <1>13 DEF ContractChecks, Scanners
-----------------------------------------------------------------------------
LEMMA FollowsFromStart ==
  ASSUME NEW list, AList(list)
  PROVE  Follows(<<>>, list, list)
<1>1. PICK e, L : e = <<>> /\ L = Len(list)
  OBVIOUS
<1>2. Len(e) = 0 /\ L \in Nat
  BY <1>1, NoneOf, AListIs
<1>3. \A n \in 1..L : 0 + n = n
  BY <1>2
<1> QED
  BY <1>1, <1>2, <1>3 DEF Follows

\* One note more.
LEMMA SaidMore ==
  ASSUME NEW said, AList(said), NEW note
  PROVE  /\ AList(said \o <<note>>) /\ Len(said) \in Nat /\ Len(said \o <<note>>) = Len(said) + 1
         /\ \A n \in 1..Len(said) : (said \o <<note>>)[n] = said[n]
         /\ (said \o <<note>>)[Len(said) + 1] = note
<1>1. PICK o : o = <<note>>
  OBVIOUS
<1>2. AList(o) /\ Len(o) = 1 /\ o[1] = note
  BY <1>1, OneOf
<1>3. AList(o)
  BY <1>2
<1>4. /\ AList(said \o o) /\ Len(said \o o) = Len(said) + Len(o)
      /\ (\A n \in 1..Len(said) : (said \o o)[n] = said[n])
      /\ \A n \in 1..Len(o) : (said \o o)[Len(said) + n] = o[n]
  BY <1>3, Joined
<1>5. 1 \in 1..Len(o)
  BY <1>2
<1>6. (said \o o)[Len(said) + 1] = o[1]
  BY <1>4, <1>5
<1> QED
  BY <1>1, <1>2, <1>4, <1>6, AListIs

LEMMA FollowsOn ==
  ASSUME NEW s, NEW l, NEW list, Follows(s, l, list), AList(s), AList(l), l # <<>>,
         NEW note, note.about = Head(l)
  PROVE  Follows(s \o <<note>>, Tail(l), list)
<1>1. PICK o, t, r : o = <<note>> /\ t = s \o o /\ r = Tail(l)
  OBVIOUS
<1>2. AList(o) /\ Len(o) = 1 /\ o[1] = note
  BY <1>1, OneOf
<1>3. PICK a, b : a = Len(s) /\ b = Len(l)
  OBVIOUS
<1>4. AList(r) /\ b \in Nat \ {0} /\ Len(r) = b - 1 /\ Head(l) = l[1] /\ \A n \in 1..Len(r) : r[n] = l[n + 1]
  BY <1>1, <1>3, Shortened
<1>5. AList(t) /\ Len(t) = a + 1 /\ (\A n \in 1..a : t[n] = s[n]) /\ t[a + 1] = note
  BY <1>1, <1>3, SaidMore
<1>6. a \in Nat
  BY <1>3, AListIs
<1>7. /\ Len(list) = a + b /\ (\A n \in 1..a : s[n].about = list[n])
      /\ \A n \in 1..b : l[n] = list[a + n]
  BY <1>3 DEF Follows
<1>8. Len(list) = Len(t) + Len(r)
  BY <1>4, <1>5, <1>6, <1>7
<1>9. t[a + 1].about = list[a + 1]
  <2>1. 1 \in 1..b
    BY <1>4
  <2> QED
    BY <1>4, <1>5, <1>7, <2>1
<1>10. \A n \in 1..Len(t) : t[n].about = list[n]
  BY <1>5, <1>6, <1>7, <1>9
<1>11. ASSUME NEW n \in 1..Len(r) PROVE r[n] = list[Len(t) + n]
  <2>1. n + 1 \in 1..b /\ a + (n + 1) = Len(t) + n
    BY <1>4, <1>5, <1>6
  <2> QED
    BY <1>4, <1>7, <2>1
<1> QED
  BY <1>1, <1>8, <1>10, <1>11 DEF Follows

LEMMA FollowsToEnd ==
  ASSUME NEW s, NEW list, Follows(s, <<>>, list), AList(s), AList(list)
  PROVE  [n \in DOMAIN s |-> s[n].about] = list
<1>1. PICK u, a : u = [n \in DOMAIN s |-> s[n].about] /\ a = Len(s)
  OBVIOUS
<1>2. a \in Nat /\ DOMAIN s = 1..a
  BY <1>1, AListIs
<1>3. u = [k \in 1..a |-> u[k]]
  BY <1>1, <1>2
<1>4. AList(u) /\ Len(u) = a
  BY <1>2, <1>3, FunctionIsList
<1>5. PICK e : e = <<>>
  OBVIOUS
<1>6. Len(e) = 0
  BY <1>5, NoneOf
<1>7. Len(list) = a /\ \A n \in 1..a : s[n].about = list[n]
  BY <1>1, <1>2, <1>5, <1>6 DEF Follows
<1>8. u = list
  BY <1>1, <1>2, <1>4, <1>7, SameList
<1> QED
  BY <1>1, <1>8

LEMMA FollowsSame ==
  ASSUME NEW s, NEW t, NEW l, NEW list, Follows(s, l, list), Len(s) = Len(t),
         \A n \in 1..Len(s) : t[n].about = s[n].about
  PROVE  Follows(t, l, list)
BY DEF Follows
-----------------------------------------------------------------------------
LEMMA SettledIs ==
  ASSUME NEW said, AList(said), Notes(said)
  PROVE  /\ AList(Settled(said)) /\ Len(Settled(said)) = Len(said) /\ Notes(Settled(said))
         /\ \A n \in 1..Len(said) :
              /\ Settled(said)[n].about = said[n].about /\ Settled(said)[n].what = said[n].what
              /\ said[n].level # "aside" => Settled(said)[n].level = said[n].level
              /\ said[n].level = "aside" => Settled(said)[n].level \in {"dropped", "warning"}
<1>1. PICK L, u : L = Len(said) /\ u = Settled(said)
  OBVIOUS
<1>2. L \in Nat /\ DOMAIN said = 1..L
  BY <1>1, AListIs
<1>3. PICK lev : lev = (IF \A i \in DOMAIN said : said[i].level # "warning" THEN "dropped" ELSE "warning")
  OBVIOUS
<1>4. lev \in {"dropped", "warning"}
  BY <1>3
<1>5. u = [n \in 1..L |-> IF said[n].level # "aside" THEN said[n] ELSE [said[n] EXCEPT !.level = lev]]
  BY <1>1, <1>2, <1>3 DEF Settled
<1>6. u = [n \in 1..L |-> u[n]]
  BY <1>5
<1>7. AList(u) /\ Len(u) = L
  BY <1>2, <1>6, FunctionIsList
<1>8. ASSUME NEW n \in 1..L
      PROVE  /\ u[n] = Note(u[n].about, u[n].what, u[n].level)
             /\ u[n].about = said[n].about /\ u[n].what = said[n].what
             /\ said[n].level # "aside" => u[n].level = said[n].level
             /\ said[n].level = "aside" => u[n].level \in {"dropped", "warning"}
  <2>1. PICK x, a, w, v : x = said[n] /\ a = x.about /\ w = x.what /\ v = x.level
    OBVIOUS
  <2>2. x = [about |-> a, what |-> w, level |-> v]
    BY <1>1, <2>1 DEF Notes, Note
  <2>3. CASE v # "aside"
    <3>1. u[n] = x
      BY <1>5, <2>1, <2>3
    <3> QED
      BY <2>1, <2>2, <2>3, <3>1 DEF Note
  <2>4. CASE v = "aside"
    <3>1. u[n] = [x EXCEPT !.level = lev]
      BY <1>5, <2>1, <2>4
    <3>2. u[n] = [about |-> a, what |-> w, level |-> lev]
      BY <2>2, <3>1
    <3> QED
      BY <1>4, <2>1, <2>4, <3>2 DEF Note
  <2> QED
    BY <2>3, <2>4
<1> QED
  BY <1>1, <1>7, <1>8 DEF Notes
-----------------------------------------------------------------------------
(* The steps of a check, as they change what is known of it.               *)

Begins(q, list, notes) == q.at = "next" /\ q.left = list /\ q.said = notes
GoesOn(p, q, note) ==
  /\ p.at = "next" /\ p.left # <<>> /\ q.at = "next" /\ q.left = Tail(p.left)
  /\ q.said = p.said \o <<note>>
Settles(p, q) ==
  /\ p.at = "next" /\ p.left = <<>> /\ q.left = <<>> /\ q.said = Settled(p.said)
Fails(q) ==
  q.at = "thrown" /\ q.left = <<>> /\ q.said = <<Note("check", "failed", "error")>>

LEMMA ScanStarts ==
  ASSUME NEW q, NEW list, NEW cd, NEW br, AList(list), Begins(q, list, <<>>)
  PROVE  ScanFits(q, list, cd, br)
<1>1. PICK e : e = <<>>
  OBVIOUS
<1>2. Len(e) = 0
  BY <1>1, NoneOf
<1>3. Follows(e, list, list)
  BY <1>1, FollowsFromStart
<1>4. q.said = e /\ q.left = list
  BY <1>1 DEF Begins
<1> QED
  BY <1>2, <1>3, <1>4 DEF ScanFits

LEMMA ScanTellsMore ==
  ASSUME NEW p, NEW q, NEW list, NEW cd, NEW br, NEW note, ScanFits(p, list, cd, br),
         ShapeFits(p), GoesOn(p, q, note), note.about = Head(p.left), TellsCode(note, cd, br)
  PROVE  ScanFits(q, list, cd, br)
<1>1. PICK s, l, t : s = p.said /\ l = p.left /\ t = q.said
  OBVIOUS
<1>2. AList(s) /\ AList(l) /\ l # <<>> /\ t = s \o <<note>> /\ q.left = Tail(l) /\ note.about = Head(l)
  BY <1>1 DEF ShapeFits, GoesOn
<1>3. Follows(s, l, list) /\ \A n \in 1..Len(s) : TellsCode(s[n], cd, br)
  BY <1>1 DEF ScanFits, GoesOn
<1>4. Follows(t, q.left, list)
  BY <1>2, <1>3, FollowsOn
<1>5. Len(s) \in Nat /\ Len(t) = Len(s) + 1 /\ (\A n \in 1..Len(s) : t[n] = s[n]) /\ t[Len(s) + 1] = note
  BY <1>2, SaidMore
<1>6. \A n \in 1..Len(t) : TellsCode(t[n], cd, br)
  <2>1. PICK a : a = Len(s)
    OBVIOUS
  <2>2. ASSUME NEW n \in 1..(a + 1) PROVE TellsCode(t[n], cd, br)
    <3>1. CASE n = a + 1
      BY <1>5, <2>1, <3>1
    <3>2. CASE n \in 1..a
      BY <1>3, <1>5, <2>1, <3>2
    <3> QED
      BY <1>5, <2>1, <3>1, <3>2
  <2> QED
    BY <1>5, <2>1, <2>2
<1> QED
  BY <1>1, <1>4, <1>6 DEF ScanFits

LEMMA ScanSettles ==
  ASSUME NEW p, NEW q, NEW list, NEW cd, NEW br, ScanFits(p, list, cd, br), ShapeFits(p),
         Settles(p, q)
  PROVE  ScanFits(q, list, cd, br)
<1>1. PICK s, t : s = p.said /\ t = q.said
  OBVIOUS
<1>2. AList(s) /\ Notes(s) /\ t = Settled(s) /\ q.left = p.left
  BY <1>1 DEF ShapeFits, Settles
<1>3. Follows(s, p.left, list) /\ \A n \in 1..Len(s) : TellsCode(s[n], cd, br)
  BY <1>1 DEF ScanFits, Settles
<1>4. /\ Len(t) = Len(s)
      /\ \A n \in 1..Len(s) :
              /\ t[n].about = s[n].about
              /\ s[n].level # "aside" => t[n].level = s[n].level
              /\ s[n].level = "aside" => t[n].level \in {"dropped", "warning"}
  BY <1>2, SettledIs
<1>5. Follows(t, q.left, list)
  BY <1>2, <1>3, <1>4, FollowsSame
<1>6. ASSUME NEW n \in 1..Len(t) PROVE TellsCode(t[n], cd, br)
  <2>1. PICK x, y : x = s[n] /\ y = t[n]
    OBVIOUS
  <2>2. /\ TellsCode(x, cd, br) /\ y.about = x.about
        /\ x.level # "aside" => y.level = x.level
        /\ x.level = "aside" => y.level \in {"dropped", "warning"}
    BY <1>3, <1>4, <2>1
  <2>3. CASE x.level = "aside"
    <3>1. y.level # "error"
      BY <2>2, <2>3
    <3> QED
      BY <2>1, <2>2, <2>3, <3>1 DEF TellsCode
  <2>4. CASE x.level # "aside"
    BY <2>1, <2>2, <2>4 DEF TellsCode
  <2> QED
    BY <2>3, <2>4
<1> QED
  BY <1>1, <1>5, <1>6 DEF ScanFits

LEMMA AppendNothing ==
  ASSUME NEW s, AList(s)
  PROVE  s \o <<>> = s
<1>1. PICK e, t : e = <<>> /\ t = s \o e
  OBVIOUS
<1>2. AList(e) /\ Len(e) = 0
  BY <1>1, NoneOf
<1>3. AList(e)
  BY <1>2
<1>4. AList(t) /\ Len(t) = Len(s) + Len(e) /\ \A n \in 1..Len(s) : t[n] = s[n]
  BY <1>1, <1>3, Joined
<1>5. Len(s) \in Nat
  BY AListIs
<1>6. t = s
  BY <1>2, <1>4, <1>5, SameList
<1> QED
  BY <1>1, <1>6

LEMMA PrependNothing ==
  ASSUME NEW s, AList(s)
  PROVE  <<>> \o s = s
<1>1. PICK e, t : e = <<>> /\ t = e \o s
  OBVIOUS
<1>2. AList(e) /\ Len(e) = 0
  BY <1>1, NoneOf
<1>3. AList(e)
  BY <1>2
<1>4. AList(t) /\ Len(t) = Len(e) + Len(s) /\ \A n \in 1..Len(s) : t[Len(e) + n] = s[n]
  BY <1>1, <1>3, Joined
<1>5. Len(s) \in Nat /\ \A n \in 1..Len(s) : 0 + n = n
  BY AListIs
<1>6. t = s
  BY <1>2, <1>4, <1>5, SameList
<1> QED
  BY <1>1, <1>6
-----------------------------------------------------------------------------
(* checkProxyResolution.                                                   *)

LEMMA ProxyStarts ==
  ASSUME NEW q, NEW list, AList(list), Begins(q, list, <<>>)
  PROVE  ProxyFits(q, list)
BY DEF Begins, ProxyFits

\* What is said of an implementation that is nowhere.
LEMMA NowhereIsWarned ==
  ASSUME NEW c \in DOMAIN Behind, Published[Behind[c].implementation] = "nowhere",
         NEW implementation \in Implementations(c),
         NEW sourced \in IF implementation = "zero" THEN {FALSE}
                         ELSE IF Published[implementation] = "sourcify" THEN {TRUE, FALSE}
                         ELSE {Published[implementation] = "explorer"}
  PROVE  WarnsOf(ResolvedNotes(c, implementation, sourced), c)
<1>1. CASE implementation = "zero"
  <2>1. PICK x : x = Note(c, "unresolved", "warning")
    OBVIOUS
  <2>2. ResolvedNotes(c, implementation, sourced) = <<x>>
    BY <1>1, <2>1 DEF ResolvedNotes
  <2>3. Len(<<x>>) = 1 /\ <<x>>[1] = x
    BY OneOf
  <2>4. 1 \in 1..Len(<<x>>) /\ x.about = c /\ x.level = "warning"
    BY <2>1, <2>3 DEF Note
  <2> QED
    BY <2>2, <2>3, <2>4 DEF WarnsOf
<1>2. CASE implementation # "zero"
  <2>1. implementation = Behind[c].implementation
    BY <1>2 DEF Implementations
  <2>2. sourced = FALSE
    BY <1>2, <2>1
  <2>3. PICK x, y, o : /\ x = Note(c, "unverified", "warning") /\ y = Note(c, implementation, "info")
                       /\ o = <<y>>
    OBVIOUS
  <2>4. ResolvedNotes(c, implementation, sourced) = o \o <<x>>
    BY <1>2, <2>2, <2>3 DEF ResolvedNotes
  <2>5. AList(o) /\ Len(o) = 1
    BY <2>3, OneOf
  <2>6. Len(o \o <<x>>) = 2 /\ (o \o <<x>>)[2] = x
    <3>1. Len(o \o <<x>>) = Len(o) + 1 /\ (o \o <<x>>)[Len(o) + 1] = x
      BY <2>5, SaidMore
    <3>2. Len(o) + 1 = 2
      BY <2>5
    <3> QED
      BY <3>1, <3>2
  <2>7. 2 \in 1..Len(o \o <<x>>) /\ x.about = c /\ x.level = "warning"
    BY <2>3, <2>6 DEF Note
  <2> QED
    BY <2>4, <2>6, <2>7 DEF WarnsOf
<1> QED
  BY <1>1, <1>2

\* The first is dealt with: it needs no warning, or is warned about.
LEMMA ProxyGoesOn ==
  ASSUME NEW p, NEW q, NEW list, NEW notes, ProxyFits(p, list), ShapeFits(p), AList(notes),
         p.at = "next", p.left # <<>>, q.left = Tail(p.left), q.said = p.said \o notes,
         /\ Head(p.left) \in DOMAIN Behind
         /\ Published[Behind[Head(p.left)].implementation] = "nowhere"
         => WarnsOf(notes, Head(p.left))
  PROVE  ProxyFits(q, list)
<1>1. PICK s, l, t, r, h : s = p.said /\ l = p.left /\ t = q.said /\ r = q.left /\ h = Head(l)
  OBVIOUS
<1>2. AList(s) /\ AList(l) /\ l # <<>> /\ t = s \o notes /\ r = Tail(l)
  BY <1>1 DEF ShapeFits
<1>3. /\ Len(t) = Len(s) + Len(notes) /\ (\A n \in 1..Len(s) : t[n] = s[n])
      /\ \A n \in 1..Len(notes) : t[Len(s) + n] = notes[n]
  BY <1>2, Joined
<1>4. /\ Len(l) \in Nat \ {0} /\ Len(r) = Len(l) - 1 /\ h = l[1]
      /\ \A n \in 1..Len(r) : r[n] = l[n + 1]
  BY <1>1, <1>2, Shortened
<1>5. Len(s) \in Nat /\ Len(notes) \in Nat
  BY <1>2, AListIs
<1>6. ASSUME NEW k \in 1..Len(list), list[k] \in DOMAIN Behind,
             Published[Behind[list[k]].implementation] = "nowhere"
      PROVE  WarnsOf(t, list[k]) \/ \E n \in 1..Len(r) : r[n] = list[k]
  <2>1. WarnsOf(s, list[k]) \/ \E n \in 1..Len(l) : l[n] = list[k]
    BY <1>1, <1>6 DEF ProxyFits
  <2>2. CASE WarnsOf(s, list[k])
    <3>1. PICK n \in 1..Len(s) : s[n].about = list[k] /\ s[n].level = "warning"
      BY <2>2 DEF WarnsOf
    <3>2. n \in 1..Len(t) /\ t[n] = s[n]
      BY <1>3, <1>5
    <3> QED
      BY <3>1, <3>2 DEF WarnsOf
  <2>3. CASE \E n \in 1..Len(l) : l[n] = list[k]
    <3>1. PICK n \in 1..Len(l) : l[n] = list[k]
      BY <2>3
    <3>2. CASE n = 1
      <4>1. WarnsOf(notes, list[k])
        BY <1>1, <1>4, <1>6, <3>1, <3>2
      <4>2. PICK m \in 1..Len(notes) : notes[m].about = list[k] /\ notes[m].level = "warning"
        BY <4>1 DEF WarnsOf
      <4>3. Len(s) + m \in 1..Len(t) /\ t[Len(s) + m] = notes[m]
        BY <1>3, <1>5
      <4> QED
        BY <4>2, <4>3 DEF WarnsOf
    <3>3. CASE n # 1
      <4>1. n - 1 \in 1..Len(r) /\ r[n - 1] = l[(n - 1) + 1]
        BY <1>4, <3>3
      <4>2. (n - 1) + 1 = n
        BY <1>4
      <4> QED
        BY <3>1, <4>1, <4>2
    <3> QED
      BY <3>2, <3>3
  <2> QED
    BY <2>1, <2>2, <2>3
<1> QED
  BY <1>1, <1>6 DEF ProxyFits

LEMMA ProxySettles ==
  ASSUME NEW p, NEW q, NEW list, ProxyFits(p, list), ShapeFits(p), Settles(p, q)
  PROVE  ProxyFits(q, list)
<1>1. PICK s, t : s = p.said /\ t = q.said
  OBVIOUS
<1>2. AList(s) /\ Notes(s) /\ t = Settled(s) /\ q.left = p.left
  BY <1>1 DEF ShapeFits, Settles
<1>3. /\ Len(t) = Len(s)
      /\ \A n \in 1..Len(s) : /\ t[n].about = s[n].about
                              /\ s[n].level # "aside" => t[n].level = s[n].level
  BY <1>2, SettledIs
<1>4. \A c : WarnsOf(s, c) => WarnsOf(t, c)
  BY <1>3 DEF WarnsOf
<1> QED
  BY <1>1, <1>2, <1>4 DEF ProxyFits, Settles
-----------------------------------------------------------------------------
(* checkLogs.                                                              *)

From(said, c) == {n \in DOMAIN said : said[n].about.from = c}

LEMMA ToldOfOthers ==
  ASSUME NEW s, NEW notes, NEW c, AList(s), AList(notes),
         \A n \in 1..Len(notes) : notes[n].about.from # c
  PROVE  ToldBy(s \o notes, c) = ToldBy(s, c)
<1>1. PICK t, a, b : t = s \o notes /\ a = Len(s) /\ b = Len(notes)
  OBVIOUS
<1>2. /\ AList(t) /\ Len(t) = a + b /\ (\A n \in 1..a : t[n] = s[n])
      /\ \A n \in 1..b : t[a + n] = notes[n]
  BY <1>1, Joined
<1>3. a \in Nat /\ b \in Nat /\ DOMAIN s = 1..a /\ DOMAIN t = 1..(a + b)
  BY <1>1, <1>2, AListIs
<1>4. PICK S : S = From(s, c)
  OBVIOUS
<1>5. From(t, c) = S
  <2>1. \A n \in S : n \in From(t, c)
    BY <1>2, <1>3, <1>4 DEF From
  <2>2. ASSUME NEW n \in From(t, c) PROVE n \in S
    <3>1. n \in 1..(a + b) /\ t[n].about.from = c
      BY <1>3 DEF From
    <3>2. CASE n \in 1..a
      BY <1>2, <1>3, <1>4, <3>1, <3>2 DEF From
    <3>3. CASE n \notin 1..a
      <4>1. n - a \in 1..b /\ a + (n - a) = n
        BY <1>3, <3>1, <3>3
      <4>2. t[n] = notes[n - a]
        BY <1>2, <4>1
      <4> QED
        BY <1>1, <3>1, <4>1, <4>2
    <3> QED
      BY <3>2, <3>3
  <2> QED
    BY <2>1, <2>2
<1>6. S \subseteq DOMAIN s
  BY <1>4 DEF From
<1>7. S \subseteq Nat /\ IsFiniteSet(S)
  BY <1>6, PlacesFit
<1>8. \A n \in S : s[n] = t[n]
  BY <1>2, <1>3, <1>6
<1>9. Picked(s, S) = Picked(t, S)
  BY <1>7, <1>8, PickedSame
<1> QED
  BY <1>1, <1>4, <1>5, <1>9 DEF ToldBy, From

LEMMA ToldAtOnce ==
  ASSUME NEW s, NEW notes, NEW c, AList(s), AList(notes),
         \A n \in 1..Len(notes) : notes[n].about.from = c,
         \A n \in 1..Len(s) : s[n].about.from # c
  PROVE  ToldBy(s \o notes, c) = notes
<1>1. PICK t, a, b : t = s \o notes /\ a = Len(s) /\ b = Len(notes)
  OBVIOUS
<1>2. /\ AList(t) /\ Len(t) = a + b /\ (\A n \in 1..a : t[n] = s[n])
      /\ \A n \in 1..b : t[a + n] = notes[n]
  BY <1>1, Joined
<1>3. a \in Nat /\ b \in Nat /\ DOMAIN t = 1..(a + b)
  BY <1>1, <1>2, AListIs
<1>4. From(t, c) = (a + 1)..(a + b)
  <2>1. ASSUME NEW n \in From(t, c) PROVE n \in (a + 1)..(a + b)
    <3>1. n \in 1..(a + b) /\ t[n].about.from = c
      BY <1>3 DEF From
    <3>2. n \notin 1..a
      BY <1>1, <1>2, <3>1
    <3> QED
      BY <1>3, <3>1, <3>2
  <2>2. ASSUME NEW n \in (a + 1)..(a + b) PROVE n \in From(t, c)
    <3>1. n - a \in 1..b /\ a + (n - a) = n /\ n \in 1..(a + b)
      BY <1>3
    <3>2. t[n] = notes[n - a]
      BY <1>2, <3>1
    <3> QED
      BY <1>1, <1>3, <3>1, <3>2 DEF From
  <2> QED
    BY <2>1, <2>2
<1>5. Picked(t, (a + 1)..(a + b)) = notes
  BY <1>1, PickedTheJoined
<1> QED
  BY <1>1, <1>4, <1>5 DEF ToldBy, From

\* Two lists with entries about the same at the places picked.
Alike(s, t, S) == \A n \in S : s[n].about = t[n].about

LEMMA PickedAbouts ==
  ASSUME NEW s, NEW t, NEW S, S \subseteq Nat, IsFiniteSet(S), Alike(s, t, S)
  PROVE  /\ Len(Picked(s, S)) = Len(Picked(t, S))
         /\ Alike(Picked(s, S), Picked(t, S), 1..Len(Picked(s, S)))
<1>1. PICK L, u, v : L = Cardinality(S) /\ u = Picked(s, S) /\ v = Picked(t, S)
  OBVIOUS
<1>2. /\ Len(u) = L /\ \A k \in 1..L : u[k] = s[Nth(S, k)]
      /\ Len(v) = L /\ \A k \in 1..L : v[k] = t[Nth(S, k)]
  <2>1. Len(u) = L /\ \A k \in 1..L : u[k] = s[Nth(S, k)]
    BY <1>1, PickedIs
  <2>2. Len(v) = L /\ \A k \in 1..L : v[k] = t[Nth(S, k)]
    BY <1>1, PickedIs
  <2> QED
    BY <2>1, <2>2
<1>3. \A k \in 1..L : Nth(S, k) \in S
  BY <1>1, Nths
<1>4. \A k \in 1..L : u[k].about = v[k].about
  BY <1>2, <1>3 DEF Alike
<1>5. Alike(u, v, 1..L)
  BY <1>4 DEF Alike
<1> QED
  BY <1>1, <1>2, <1>5

LEMMA AboutsOfPicked ==
  ASSUME NEW s, NEW t, NEW S, S \subseteq Nat, IsFiniteSet(S), Alike(s, t, S)
  PROVE  Abouts(Picked(s, S)) = Abouts(Picked(t, S))
<1>1. PICK u, v : u = Picked(s, S) /\ v = Picked(t, S)
  OBVIOUS
<1>2. AList(u) /\ AList(v)
  BY <1>1, PickedIs
<1>3. Len(u) = Len(v) /\ Alike(u, v, 1..Len(u))
  BY <1>1, PickedAbouts
<1>4. DOMAIN u = 1..Len(u) /\ DOMAIN v = 1..Len(u)
  BY <1>2, <1>3, AListIs
<1>5. \A k \in 1..Len(u) : u[k].about = v[k].about
  BY <1>3 DEF Alike
<1>6. Abouts(u) = Abouts(v)
  BY <1>4, <1>5 DEF Abouts
<1> QED
  BY <1>1, <1>6

LEMMA LogStarts ==
  ASSUME NEW q, NEW list, NEW logs, AList(list), Begins(q, list, <<>>)
  PROVE  LogFits(q, list, logs)
<1>1. PICK e, L : e = <<>> /\ L = Len(list)
  OBVIOUS
<1>2. Len(e) = 0 /\ L \in Nat
  BY <1>1, NoneOf, AListIs
<1>3. q.said = e /\ q.left = list
  BY <1>1 DEF Begins
<1>4. L - L = 0 /\ \A n \in 1..L : L - L + n = n /\ ~(n <= L - L)
  BY <1>2
<1> QED
  BY <1>1, <1>2, <1>3, <1>4 DEF LogFits

LEMMA LogGoesOn ==
  ASSUME NEW p, NEW q, NEW list, NEW logs, NEW notes, LogFits(p, list, logs), ShapeFits(p),
         AList(list), \A j, k \in 1..Len(list) : j < k => list[j] # list[k], AList(notes),
         p.at = "next", p.left # <<>>, q.left = Tail(p.left), q.said = p.said \o notes,
         Abouts(notes) = EmittedBy(logs, Head(p.left)),
         \A n \in 1..Len(notes) : notes[n].about.from = Head(p.left)
  PROVE  LogFits(q, list, logs)
<1>1. PICK s, l, t, r, h, L : /\ s = p.said /\ l = p.left /\ t = q.said /\ r = q.left /\ h = Head(l)
                              /\ L = Len(list)
  OBVIOUS
<1>2. AList(s) /\ AList(l) /\ l # <<>> /\ t = s \o notes /\ r = Tail(l) /\ L \in Nat
  BY <1>1, AListIs DEF ShapeFits
<1>3. /\ Len(t) = Len(s) + Len(notes) /\ (\A n \in 1..Len(s) : t[n] = s[n])
      /\ \A n \in 1..Len(notes) : t[Len(s) + n] = notes[n]
  BY <1>2, Joined
<1>4. /\ Len(l) \in Nat \ {0} /\ Len(r) = Len(l) - 1 /\ h = l[1]
      /\ \A n \in 1..Len(r) : r[n] = l[n + 1]
  BY <1>1, <1>2, Shortened
<1>5. Len(s) \in Nat /\ Len(notes) \in Nat
  BY <1>2, AListIs
<1>6. /\ Len(l) <= L
      /\ \A n \in 1..Len(l) : l[n] = list[L - Len(l) + n]
      /\ \A k \in 1..L :
           IF k <= L - Len(l) THEN Abouts(ToldBy(s, list[k])) = EmittedBy(logs, list[k])
           ELSE \A n \in 1..Len(s) : s[n].about.from # list[k]
  BY <1>1 DEF LogFits
<1>7. PICK z, y : z = L - Len(l) + 1 /\ y = Len(r)
  OBVIOUS
<1>8. z \in 1..L /\ L - y = z /\ y <= L /\ y \in Nat
  BY <1>2, <1>4, <1>6, <1>7
<1>9. \A k \in 1..L : /\ (k <= L - Len(l) <=> k < z) /\ (k <= L - y <=> k < z \/ k = z)
                       /\ k \in Int /\ ~(k < k)
  <2>1. PICK x : x = Len(l)
    OBVIOUS
  <2>2. x \in Nat /\ L \in Nat /\ z = L - x + 1 /\ L - y = z
    BY <1>2, <1>4, <1>7, <1>8, <2>1
  <2> QED
    BY <2>1, <2>2
<1>10. list[z] = h
  <2>1. 1 \in 1..Len(l)
    BY <1>4
  <2>2. l[1] = list[L - Len(l) + 1]
    BY <1>6, <2>1
  <2> QED
    BY <1>4, <1>7, <2>2
<1>11. ASSUME NEW n \in 1..y PROVE r[n] = list[L - y + n]
  <2>1. n + 1 \in 1..Len(l) /\ L - Len(l) + (n + 1) = L - y + n
    BY <1>2, <1>4, <1>7
  <2> QED
    BY <1>4, <1>6, <1>7, <2>1
<1>12. ASSUME NEW k \in 1..L
       PROVE  IF k <= L - y THEN Abouts(ToldBy(t, list[k])) = EmittedBy(logs, list[k])
              ELSE \A n \in 1..Len(t) : t[n].about.from # list[k]
  <2>1. CASE k = z
    <3>1. \A n \in 1..Len(s) : s[n].about.from # h
      <4>1. ~(k <= L - Len(l)) /\ list[k] = h
        BY <1>9, <1>10, <2>1
      <4>2. \A n \in 1..Len(s) : s[n].about.from # list[k]
        BY <1>6, <4>1
      <4> QED
        BY <4>1, <4>2
    <3>2. ToldBy(t, h) = notes
      BY <1>1, <1>2, <3>1, ToldAtOnce, SMTT(30)
    <3>3. Abouts(notes) = EmittedBy(logs, h)
      BY <1>1
    <3> QED
      BY <1>8, <1>10, <2>1, <3>2, <3>3
  <2>2. CASE k < z
    <3>1. list[k] # h /\ k <= L - Len(l) /\ k <= L - y
      <4>1. k <= L - Len(l) /\ k <= L - y
        BY <1>9, <2>2
      <4>2. list[k] # list[z]
        BY <1>1, <1>8, <2>2
      <4> QED
        BY <1>10, <4>1, <4>2
    <3>2. \A n \in 1..Len(notes) : notes[n].about.from # list[k]
      BY <1>1, <3>1
    <3>3. ToldBy(t, list[k]) = ToldBy(s, list[k])
      BY <1>2, <3>2, ToldOfOthers
    <3> QED
      BY <1>6, <3>1, <3>3
  <2>3. CASE z < k
    <3>1. list[k] # h /\ ~(k <= L - Len(l)) /\ ~(k <= L - y)
      <4>1. ~(k <= L - Len(l)) /\ ~(k <= L - y)
        <5>1. ~(k < z) /\ k # z
          BY <1>8, <2>3
        <5> QED
          BY <1>9, <5>1
      <4>2. list[z] # list[k]
        BY <1>1, <1>8, <2>3
      <4> QED
        BY <1>10, <4>1, <4>2
    <3>2. \A n \in 1..Len(s) : s[n].about.from # list[k]
      BY <1>6, <3>1
    <3>3. ASSUME NEW n \in 1..Len(t) PROVE t[n].about.from # list[k]
      <4>1. CASE n \in 1..Len(s)
        BY <1>3, <3>2, <4>1
      <4>2. CASE n \notin 1..Len(s)
        <5>1. n - Len(s) \in 1..Len(notes) /\ Len(s) + (n - Len(s)) = n
          BY <1>3, <1>5, <4>2
        <5>2. t[n] = notes[n - Len(s)]
          BY <1>3, <5>1
        <5> QED
          BY <1>1, <3>1, <5>1, <5>2
      <4> QED
        BY <4>1, <4>2
    <3> QED
      BY <3>1, <3>3
  <2> QED
    BY <1>2, <1>8, <2>1, <2>2, <2>3
<1> QED
  BY <1>1, <1>7, <1>8, <1>11, <1>12 DEF LogFits

LEMMA LogSettles ==
  ASSUME NEW p, NEW q, NEW list, NEW logs, LogFits(p, list, logs), ShapeFits(p), Settles(p, q)
  PROVE  LogFits(q, list, logs)
<1>1. PICK s, t : s = p.said /\ t = q.said
  OBVIOUS
<1>2. AList(s) /\ Notes(s) /\ t = Settled(s) /\ q.left = p.left
  BY <1>1 DEF ShapeFits, Settles
<1>3. AList(t) /\ Len(t) = Len(s) /\ \A n \in 1..Len(s) : t[n].about = s[n].about
  BY <1>2, SettledIs
<1>4. DOMAIN t = DOMAIN s /\ DOMAIN s = 1..Len(s)
  BY <1>2, <1>3, AListIs
<1>5. ASSUME NEW c PROVE Abouts(ToldBy(t, c)) = Abouts(ToldBy(s, c))
  <2>1. PICK S : S = From(s, c)
    OBVIOUS
  <2>2. From(t, c) = S /\ S \subseteq DOMAIN s
    BY <1>3, <1>4, <2>1 DEF From
  <2>3. S \subseteq Nat /\ IsFiniteSet(S)
    BY <1>2, <2>2, PlacesFit
  <2>4. Alike(t, s, S)
    BY <1>3, <1>4, <2>2 DEF Alike
  <2>5. Abouts(Picked(t, S)) = Abouts(Picked(s, S))
    BY <2>3, <2>4, AboutsOfPicked
  <2> QED
    BY <2>1, <2>2, <2>5 DEF ToldBy, From
<1>6. \A n \in 1..Len(t) : t[n].about.from = s[n].about.from
  BY <1>3
<1> QED
  BY <1>1, <1>2, <1>3, <1>5, <1>6 DEF LogFits, Settles
-----------------------------------------------------------------------------
(* checkSolc and checkSlither.                                             *)

Conclusive == {"report", "failed", "not analysed"}

LEMMA OneConclusion ==
  ASSUME NEW s, NEW note, AList(s)
  PROVE  Picked(s \o <<note>>, Concluding(s \o <<note>>))
           = IF note.what \in Conclusive THEN Picked(s, Concluding(s)) \o <<note>>
             ELSE Picked(s, Concluding(s))
<1>1. PICK t, a, S : t = s \o <<note>> /\ a = Len(s) /\ S = Concluding(s)
  OBVIOUS
<1>2. AList(t) /\ a \in Nat /\ Len(t) = a + 1 /\ (\A n \in 1..a : t[n] = s[n]) /\ t[a + 1] = note
  BY <1>1, SaidMore
<1>3. DOMAIN s = 1..a /\ DOMAIN t = 1..(a + 1)
  BY <1>1, <1>2, AListIs
<1>4. S \subseteq DOMAIN s
  BY <1>1 DEF Concluding
<1>5. S \subseteq Nat /\ IsFiniteSet(S)
  BY <1>4, PlacesFit
<1>6. \A n \in S : s[n] = t[n] /\ n < a + 1
  BY <1>2, <1>3, <1>4
<1>7. Picked(s, S) = Picked(t, S)
  BY <1>5, <1>6, PickedSame
<1>8. ASSUME NEW n \in 1..a PROVE n \in Concluding(t) <=> n \in S
  <2>1. n \in DOMAIN s /\ n \in DOMAIN t /\ t[n] = s[n]
    BY <1>2, <1>3
  <2> QED
    BY <1>1, <2>1 DEF Concluding
<1>9. a + 1 \in Concluding(t) <=> note.what \in Conclusive
  <2>1. a + 1 \in DOMAIN t /\ t[a + 1] = note
    BY <1>2, <1>3
  <2> QED
    BY <2>1 DEF Concluding, Conclusive
<1>10. Concluding(t) \subseteq 1..(a + 1)
  BY <1>3 DEF Concluding
<1>11. CASE note.what \in Conclusive
  <2>1. Concluding(t) = S \cup {a + 1}
    <3>1. \A n \in 1..(a + 1) : n \in 1..a \/ n = a + 1
      BY <1>2
    <3>2. S \subseteq 1..a
      BY <1>3, <1>4
    <3> QED
      BY <1>8, <1>9, <1>10, <1>11, <3>1, <3>2
  <2>2. a + 1 \in Nat
    BY <1>2
  <2>3. Picked(t, S \cup {a + 1}) = Picked(t, S) \o <<t[a + 1]>>
    BY <1>5, <1>6, <2>2, PickedOneMore
  <2> QED
    BY <1>1, <1>2, <1>7, <1>11, <2>1, <2>3
<1>12. CASE note.what \notin Conclusive
  <2>1. \A n \in S : n \in Concluding(t)
    BY <1>3, <1>4, <1>8
  <2>2. ASSUME NEW n \in Concluding(t) PROVE n \in S
    <3>1. n \in 1..(a + 1) /\ n # a + 1
      BY <1>9, <1>10, <1>12
    <3>2. n \in 1..a
      BY <1>2, <3>1
    <3> QED
      BY <1>8, <3>2
  <2>3. Concluding(t) = S
    BY <2>1, <2>2
  <2> QED
    BY <1>1, <1>7, <1>12, <2>3
<1> QED
  BY <1>11, <1>12

LEMMA ConclusionsList ==
  ASSUME NEW s, AList(s)
  PROVE  AList(Picked(s, Concluding(s)))
<1>1. Concluding(s) \subseteq DOMAIN s
  BY DEF Concluding
<1> QED
  BY <1>1, PickedFrom

LEMMA NoConclusions ==
  ASSUME NEW s, AList(s), \A n \in DOMAIN s : s[n].what \notin Conclusive
  PROVE  Picked(s, Concluding(s)) = <<>>
<1>1. PICK S, u : S = Concluding(s) /\ u = Picked(s, S)
  OBVIOUS
<1>2. S = {}
  BY <1>1 DEF Concluding, Conclusive
<1>3. S \subseteq Nat /\ IsFiniteSet(S) /\ Cardinality(S) = 0
  BY <1>2, FS_EmptySet
<1>4. AList(u) /\ Len(u) = 0
  BY <1>1, <1>3, PickedIs
<1>5. u = <<>>
  BY <1>4, AListIs
<1> QED
  BY <1>1, <1>5

LEMMA ReportsMore ==
  ASSUME NEW t, NEW s, NEW an, NEW co, NEW ma, NEW note, AList(s), Reports(t, s, an, co, ma),
         note.what = "report" =>
           /\ note.about \in DOMAIN Version
           /\ \/ <<t, note.about>> \in an
              \/ t = "slither" /\ ma /\ co[Version[note.about]] = "complaint"
  PROVE  Reports(t, s \o <<note>>, an, co, ma)
<1>1. PICK u, a : u = s \o <<note>> /\ a = Len(s)
  OBVIOUS
<1>2. a \in Nat /\ Len(u) = a + 1 /\ (\A n \in 1..a : u[n] = s[n]) /\ u[a + 1] = note
  BY <1>1, SaidMore
<1>3. ASSUME NEW n \in 1..(a + 1), u[n].what = "report"
      PROVE  /\ u[n].about \in DOMAIN Version
             /\ \/ <<t, u[n].about>> \in an
                \/ t = "slither" /\ ma /\ co[Version[u[n].about]] = "complaint"
  <2>1. CASE n = a + 1
    BY <1>2, <1>3, <2>1
  <2>2. CASE n \in 1..a
    BY <1>1, <1>2, <1>3, <2>2 DEF Reports
  <2> QED
    BY <1>2, <2>1, <2>2
<1> QED
  BY <1>1, <1>2, <1>3 DEF Reports

LEMMA ReportsKeep ==
  ASSUME NEW t, NEW s, NEW an, NEW co, NEW ma, NEW an2, NEW co2, Reports(t, s, an, co, ma),
         an \subseteq an2,
         \A c \in DOMAIN Version : co[Version[c]] = "complaint" => co2[Version[c]] = "complaint"
  PROVE  Reports(t, s, an2, co2, ma)
BY DEF Reports

\* A tool takes up the next contract, having said a conclusion of this one.
LEMMA ToolConcludes ==
  ASSUME NEW s, NEW l, NEW list, NEW note, AList(s), AList(l), l # <<>>,
         Follows(Picked(s, Concluding(s)), l, list), note.about = Head(l),
         note.what \in Conclusive
  PROVE  Follows(Picked(s \o <<note>>, Concluding(s \o <<note>>)), Tail(l), list)
<1>1. PICK u : u = Picked(s, Concluding(s))
  OBVIOUS
<1>2. AList(u)
  BY <1>1, ConclusionsList
<1>3. Picked(s \o <<note>>, Concluding(s \o <<note>>)) = u \o <<note>>
  BY <1>1, OneConclusion
<1>4. Follows(u \o <<note>>, Tail(l), list)
  BY <1>1, <1>2, FollowsOn
<1> QED
  BY <1>3, <1>4

LEMMA ToolSettles ==
  ASSUME NEW t, NEW p, NEW q, NEW list, NEW an, NEW co, NEW ma, NEW di,
         ToolFits(t, p, list, an, co, ma, di), ShapeFits(p), Settles(p, q), q.at = "ended"
  PROVE  ToolFits(t, q, list, an, co, ma, di)
<1>1. PICK s, u : s = p.said /\ u = q.said
  OBVIOUS
<1>2. AList(s) /\ Notes(s) /\ u = Settled(s) /\ q.left = p.left /\ p.at = "next"
  BY <1>1 DEF ShapeFits, Settles
<1>3. /\ AList(u) /\ Len(u) = Len(s)
      /\ \A n \in 1..Len(s) : u[n].about = s[n].about /\ u[n].what = s[n].what
  BY <1>2, SettledIs
<1>4. DOMAIN u = DOMAIN s /\ DOMAIN s = 1..Len(s)
  BY <1>2, <1>3, AListIs
<1>5. PICK S : S = Concluding(s)
  OBVIOUS
<1>6. Concluding(u) = S /\ S \subseteq DOMAIN s
  BY <1>3, <1>4, <1>5 DEF Concluding
<1>7. S \subseteq Nat /\ IsFiniteSet(S)
  BY <1>2, <1>6, PlacesFit
<1>8. PICK v, w : v = Picked(s, S) /\ w = Picked(u, S)
  OBVIOUS
<1>9. Alike(s, u, S)
  BY <1>3, <1>4, <1>6 DEF Alike
<1>10. Len(v) = Len(w) /\ \A k \in 1..Len(v) : w[k].about = v[k].about
  <2>1. Len(v) = Len(w) /\ Alike(v, w, 1..Len(v))
    BY <1>7, <1>8, <1>9, PickedAbouts
  <2> QED
    BY <2>1 DEF Alike
<1>11. Follows(v, p.left, list)
  BY <1>1, <1>2, <1>5, <1>8 DEF ToolFits
<1>12. Follows(w, q.left, list)
  BY <1>2, <1>10, <1>11, FollowsSame
<1>13. Reports(t, s, an, co, ma) /\ t \notin di
  BY <1>1, <1>2 DEF ToolFits
<1>14. Reports(t, u, an, co, ma)
  BY <1>3, <1>13 DEF Reports
<1>15. q.at # "compiler" /\ q.said = u /\ Follows(Picked(u, Concluding(u)), q.left, list)
  BY <1>1, <1>6, <1>8, <1>12
<1> QED
  BY <1>13, <1>14, <1>15 DEF ToolFits
-----------------------------------------------------------------------------
(* A step of one check leaves the others as they are.                      *)

World == /\ analysed \subseteq analysed'
         /\ \A c \in DOMAIN Version :
              compilers[Version[c]] = "complaint" => compilers'[Version[c]] = "complaint"

LEMMA SameLists ==
  ASSUME Aside
  PROVE  \A c : ListOf(c)' = ListOf(c)
BY DEF Aside, ListOf, CalledWithData, Passed

LEMMA OthersFit ==
  ASSUME Aside, World, NEW c, Fits(c), progress'[c] = progress[c],
         c \in directories' => c \in directories
  PROVE  Fits(c)'
<1>1. PICK p, list, an, co, ma, di, an2, co2, di2 :
        /\ p = progress[c] /\ list = ListOf(c) /\ an = analysed /\ co = compilers /\ ma = managed
        /\ di = directories /\ an2 = analysed' /\ co2 = compilers' /\ di2 = directories'
  OBVIOUS
<1>2. p = progress'[c] /\ list = ListOf(c)' /\ ma = managed' /\ code' = code /\ simulation' = simulation
  BY <1>1, SameLists DEF Aside
<1>3. c \in Tools => ToolFits(c, p, list, an2, co2, ma, di2)
  <2>1. SUFFICES ASSUME c \in Tools PROVE ToolFits(c, p, list, an2, co2, ma, di2)
    OBVIOUS
  <2>2. ToolFits(c, p, list, an, co, ma, di)
    BY <1>1, <2>1 DEF Fits
  <2>3. Reports(c, p.said, an2, co2, ma)
    BY <1>1, <2>2, ReportsKeep DEF ToolFits, World
  <2>4. c \in di2 => c \in di
    BY <1>1
  <2> QED
    BY <2>2, <2>3, <2>4 DEF ToolFits
<1>4. ShapeFits(p)
  BY <1>1 DEF Fits
<1>5. c \in Scanners => ScanFits(p, list, code, simulation.bridges)
  BY <1>1 DEF Fits
<1>6. c = "proxies" => ProxyFits(p, list)
  BY <1>1 DEF Fits
<1>7. c = "logs" => LogFits(p, list, simulation.logs)
  BY <1>1 DEF Fits
<1> QED
  BY <1>1, <1>2, <1>3, <1>4, <1>5, <1>6, <1>7 DEF Fits
-----------------------------------------------------------------------------
LEMMA OneNote ==
  ASSUME NEW a, NEW w, NEW v
  PROVE  /\ AList(<<Note(a, w, v)>>) /\ Notes(<<Note(a, w, v)>>)
         /\ Len(<<Note(a, w, v)>>) = 1 /\ <<Note(a, w, v)>>[1] = Note(a, w, v)
<1>1. PICK x, s : x = Note(a, w, v) /\ s = <<x>>
  OBVIOUS
<1>2. AList(s) /\ Len(s) = 1 /\ s[1] = x
  BY <1>1, OneOf
<1>3. x = Note(x.about, x.what, x.level)
  BY <1>1 DEF Note
<1> QED
  BY <1>1, <1>2, <1>3 DEF Notes

LEMMA NoNote == AList(<<>>) /\ Notes(<<>>) /\ Len(<<>>) = 0
<1>1. PICK s : s = <<>>
  OBVIOUS
<1>2. AList(s) /\ Len(s) = 0
  BY <1>1, NoneOf
<1>3. Notes(s)
  BY <1>2 DEF Notes
<1> QED
  BY <1>1, <1>2, <1>3

LEMMA ShapeGoesOn ==
  ASSUME NEW p, NEW q, NEW rest, NEW notes, ShapeFits(p), AList(rest), AList(notes), Notes(notes),
         q.at \notin {"begin", "ended"}, q.left = rest, q.said = p.said \o notes
  PROVE  ShapeFits(q)
<1>1. PICK s, t : s = p.said /\ t = q.said
  OBVIOUS
<1>2. AList(s) /\ Notes(s) /\ t = s \o notes
  BY <1>1 DEF ShapeFits
<1>3. AList(s)
  BY <1>2
<1>4. /\ AList(t) /\ Len(t) = Len(s) + Len(notes) /\ (\A n \in 1..Len(s) : t[n] = s[n])
      /\ \A n \in 1..Len(notes) : t[Len(s) + n] = notes[n]
  BY <1>2, <1>3, Joined
<1>5. Len(s) \in Nat /\ Len(notes) \in Nat
  BY <1>3, AListIs
<1>6. ASSUME NEW n \in 1..Len(t) PROVE t[n] = Note(t[n].about, t[n].what, t[n].level)
  <2>1. CASE n \in 1..Len(s)
    BY <1>2, <1>4, <2>1 DEF Notes
  <2>2. CASE n \notin 1..Len(s)
    <3>1. n - Len(s) \in 1..Len(notes) /\ Len(s) + (n - Len(s)) = n
      BY <1>4, <1>5, <2>2
    <3>2. t[n] = notes[n - Len(s)]
      BY <1>4, <3>1
    <3> QED
      BY <3>1, <3>2 DEF Notes
  <2> QED
    BY <2>1, <2>2
<1>7. Notes(t)
  BY <1>6 DEF Notes
<1> QED
  BY <1>1, <1>4, <1>7 DEF ShapeFits

LEMMA ShapeSettles ==
  ASSUME NEW p, NEW q, ShapeFits(p), Settles(p, q), q.at # "begin"
  PROVE  ShapeFits(q)
<1>1. AList(p.said) /\ Notes(p.said)
  BY DEF ShapeFits
<1>2. AList(q.said) /\ Notes(q.said)
  BY <1>1, SettledIs DEF Settles
<1>3. q.left = <<>> /\ AList(q.left)
  BY NoNote DEF Settles
<1> QED
  BY <1>2, <1>3 DEF ShapeFits
-----------------------------------------------------------------------------
(* From one check to all of them.                                          *)

Only(c) == \A k \in ContractChecks : k # c => progress'[k] = progress[k]
Whole == progress' = [k \in ContractChecks |-> progress'[k]]

LEMMA GoesIs ==
  ASSUME ContractInv, NEW c \in ContractChecks, NEW to, NEW rest, NEW notes, Goes(c, to, rest, notes)
  PROVE  /\ Whole /\ Only(c)
         /\ progress'[c] = [at |-> to, left |-> rest, said |-> progress[c].said \o notes]
<1>1. progress = [k \in ContractChecks |-> progress[k]]
  BY DEF ContractInv
<1> QED
  BY <1>1 DEF Goes, Whole, Only

LEMMA OwnFits ==
  ASSUME Aside, NEW c, NEW q, q = progress'[c], ShapeFits(q),
         c \in Scanners => ScanFits(q, ListOf(c), code, simulation.bridges),
         c = "proxies" => ProxyFits(q, ListOf(c)),
         c = "logs" => LogFits(q, ListOf(c), simulation.logs),
         c \in Tools => ToolFits(c, q, ListOf(c), analysed', compilers', managed, directories')
  PROVE  Fits(c)'
<1>1. ListOf(c)' = ListOf(c) /\ managed' = managed /\ code' = code /\ simulation' = simulation
  BY SameLists DEF Aside
<1> QED
  BY <1>1 DEF Fits

LEMMA StepKeeps ==
  ASSUME ContractInv, Aside, World, NEW c \in ContractChecks, Whole, Only(c), Fits(c)',
         directories' \subseteq directories \cup {c}, compilers' \in [Compilers -> Installs]
  PROVE  ContractInv'
<1>1. ASSUME NEW k \in ContractChecks PROVE Fits(k)'
  <2>1. CASE k = c
    BY <2>1
  <2>2. CASE k # c
    <3>1. Fits(k) /\ progress'[k] = progress[k] /\ (k \in directories' => k \in directories)
      BY <2>2 DEF ContractInv, Only
    <3> QED
      BY <3>1, OthersFit
  <2> QED
    BY <2>1, <2>2
<1>2. simulation' \in Simulations /\ code' \in Codings
  BY DEF ContractInv, Aside
<1> QED
  BY <1>1, <1>2 DEF ContractInv, Whole, Compilers

LEMMA QuietWorld ==
  ASSUME ContractInv, NoTool
  PROVE  World /\ compilers' \in [Compilers -> Installs]
         /\ analysed' = analysed /\ compilers' = compilers /\ directories' = directories
BY DEF NoTool, World, ContractInv

\* What holds of a check that stands at a contract.
LEMMA StandsAt ==
  ASSUME ContractInv, NEW c \in ContractChecks, NEW place, Stands(c, place), NEW p, p = progress[c]
  PROVE  /\ p.at = place /\ p.left # <<>> /\ AList(p.left) /\ AList(Tail(p.left)) /\ AList(p.said)
         /\ Current(c) = Head(p.left) /\ Others(c) = Tail(p.left) /\ ShapeFits(p) /\ Fits(c)
<1>1. p.at = place /\ p.left # <<>> /\ Fits(c)
  BY DEF Stands, ContractInv
<1>2. ShapeFits(p)
  BY <1>1 DEF Fits
<1>3. AList(p.left) /\ AList(p.said)
  BY <1>2 DEF ShapeFits
<1>4. AList(Tail(p.left))
  BY <1>1, <1>3, Shortened
<1> QED
  BY <1>1, <1>2, <1>3, <1>4 DEF Current, Others
-----------------------------------------------------------------------------
LEMMA ContractStarts == ContractInit => ContractInv
<1> SUFFICES ASSUME ContractInit PROVE ContractInv
  OBVIOUS
<1>1. PICK set : progress = [c \in ContractChecks |->
                     IF c \in set THEN Waiting ELSE [Waiting EXCEPT !.at = "not run"]]
  BY DEF ContractInit
<1>2. ASSUME NEW c \in ContractChecks PROVE Fits(c)
  <2>1. PICK q, e : q = progress[c] /\ e = <<>>
    OBVIOUS
  <2>2. q.at \in {"begin", "not run"} /\ q.left = e /\ q.said = e
    BY <1>1, <2>1 DEF Waiting
  <2>3. AList(e) /\ Notes(e) /\ Len(e) = 0
    BY <2>1, NoNote
  <2>4. ShapeFits(q)
    BY <2>1, <2>2, <2>3 DEF ShapeFits
  <2>5. ScanFits(q, ListOf(c), code, simulation.bridges) /\ ProxyFits(q, ListOf(c))
        /\ LogFits(q, ListOf(c), simulation.logs)
    BY <2>2 DEF ScanFits, ProxyFits, LogFits
  <2>6. ToolFits(c, q, ListOf(c), analysed, compilers, managed, directories)
    <3>1. Reports(c, e, analysed, compilers, managed)
      BY <2>3 DEF Reports
    <3>2. c \notin directories
      BY DEF ContractInit
    <3> QED
      BY <2>2, <3>1, <3>2 DEF ToolFits
  <2> QED
    BY <2>1, <2>4, <2>5, <2>6 DEF Fits
<1>3. progress = [c \in ContractChecks |-> progress[c]]
  BY <1>1
<1>4. compilers \in [Compilers -> Installs]
  <2>1. compilers = [v \in {Version[c] : c \in DOMAIN Version} |-> "absent"]
    BY DEF ContractInit
  <2>2. compilers = [v \in Compilers |-> "absent"]
    BY <2>1 DEF Compilers
  <2> QED
    BY <2>2 DEF Installs
<1>5. simulation \in Simulations /\ code \in Codings
  BY DEF ContractInit
<1> QED
  BY <1>2, <1>3, <1>4, <1>5 DEF ContractInv

LEMMA BeginKeepsInv ==
  ASSUME ContractInv, NEW c \in ContractChecks, BeginCheck(c)
  PROVE  ContractInv'
<1>1. PICK p, q, e, list : p = progress[c] /\ q = progress'[c] /\ e = <<>> /\ list = ListOf(c)
  OBVIOUS
<1>2. p.at = "begin" /\ Aside /\ NoTool
  BY <1>1 DEF BeginCheck
<1>3. Fits(c) /\ ShapeFits(p)
  BY <1>1 DEF ContractInv, Fits
<1>4. p.said = e
  BY <1>1, <1>2, <1>3 DEF ShapeFits
<1>5. AList(e) /\ Notes(e) /\ Len(e) = 0 /\ e \o e = e
  <2>1. AList(e) /\ Notes(e) /\ Len(e) = 0
    BY <1>1, NoNote
  <2>2. AList(e)
    BY <2>1
  <2> QED
    BY <1>1, <2>1, <2>2, AppendNothing
<1>6. PICK g : g = Note("governor", "implementation unknown", "warning")
  OBVIOUS
<1>7. AList(<<g>>) /\ Notes(<<g>>) /\ e \o <<g>> = <<g>> /\ Len(<<g>>) = 1 /\ <<g>>[1] = g
  <2>1. AList(<<g>>) /\ Notes(<<g>>) /\ Len(<<g>>) = 1 /\ <<g>>[1] = g
    BY <1>6, OneNote
  <2>2. AList(<<g>>)
    BY <2>1
  <2> QED
    BY <1>1, <2>1, <2>2, PrependNothing
<1>8. AList(list)
  BY <1>1, ListsAre DEF ContractInv
<1>9. \/ Goes(c, "skipped", e, e)
      \/ c \in Tools /\ Goes(c, "skipped", e, <<g>>)
      \/ Goes(c, "next", list, e)
      \/ c \in Tools /\ Goes(c, "next", list, <<g>>)
  <2>1. \/ Goes(c, "skipped", e, e)
        \/ list = e /\ Goes(c, "skipped", list, Unread(c))
        \/ Goes(c, "next", list, Unread(c))
    BY <1>1 DEF BeginCheck
  <2>2. Unread(c) = e \/ (c \in Tools /\ Unread(c) = <<g>>)
    BY <1>1, <1>6 DEF Unread
  <2> QED
    BY <2>1, <2>2
<1>11. World /\ compilers' \in [Compilers -> Installs]
       /\ analysed' = analysed /\ compilers' = compilers /\ directories' = directories
  BY <1>2, QuietWorld
<1>12. c \in Tools => c \notin directories
  BY <1>1, <1>2, <1>3 DEF Fits, ToolFits
<1>13. \A an, co, ma : Reports(c, e, an, co, ma)
  BY <1>5 DEF Reports
<1>14. CASE Goes(c, "skipped", e, e)
  <2>1. Whole /\ Only(c) /\ q = [at |-> "skipped", left |-> e, said |-> e]
    <3>1. /\ Whole /\ Only(c)
          /\ progress'[c] = [at |-> "skipped", left |-> e, said |-> progress[c].said \o e]
      BY <1>14, GoesIs
    <3>2. progress[c].said \o e = e
      BY <1>1, <1>4, <1>5
    <3> QED
      BY <1>1, <3>1, <3>2
  <2>2. ShapeFits(q)
    BY <1>5, <2>1 DEF ShapeFits
  <2>3. /\ ScanFits(q, list, code, simulation.bridges) /\ ProxyFits(q, list)
        /\ LogFits(q, list, simulation.logs)
    BY <2>1 DEF ScanFits, ProxyFits, LogFits
  <2>4. c \in Tools => ToolFits(c, q, list, analysed', compilers', managed, directories')
    BY <1>11, <1>12, <1>13, <2>1 DEF ToolFits
  <2>5. Fits(c)'
    BY <1>1, <1>2, <2>2, <2>3, <2>4, OwnFits
  <2> QED
    BY <1>2, <1>11, <2>1, <2>5, StepKeeps
<1>17. CASE c \in Tools /\ Goes(c, "skipped", e, <<g>>)
  <2>1. Whole /\ Only(c) /\ q = [at |-> "skipped", left |-> e, said |-> <<g>>]
    BY <1>1, <1>4, <1>7, <1>17, GoesIs
  <2>2. ShapeFits(q)
    BY <1>5, <1>7, <2>1 DEF ShapeFits
  <2>3. /\ ScanFits(q, list, code, simulation.bridges) /\ ProxyFits(q, list)
        /\ LogFits(q, list, simulation.logs)
    BY <2>1 DEF ScanFits, ProxyFits, LogFits
  <2>4. ToolFits(c, q, list, analysed', compilers', managed, directories')
    <3>1. PICK s : s = <<g>>
      OBVIOUS
    <3>2. Len(s) = 1 /\ s[1] = g /\ g.what # "report"
      BY <1>6, <1>7, <3>1 DEF Note
    <3>3. \A n \in 1..Len(s) : s[n].what # "report"
      BY <3>2
    <3>4. \A an, co, ma : Reports(c, s, an, co, ma)
      BY <3>3 DEF Reports
    <3> QED
      BY <1>11, <1>12, <1>17, <2>1, <3>1, <3>4 DEF ToolFits
  <2>5. Fits(c)'
    BY <1>1, <1>2, <2>2, <2>3, <2>4, OwnFits
  <2> QED
    BY <1>2, <1>11, <2>1, <2>5, StepKeeps
<1>15. CASE Goes(c, "next", list, e)
  <2>1. Whole /\ Only(c) /\ q = [at |-> "next", left |-> list, said |-> e]
    <3>1. /\ Whole /\ Only(c)
          /\ progress'[c] = [at |-> "next", left |-> list, said |-> progress[c].said \o e]
      BY <1>15, GoesIs
    <3>2. progress[c].said \o e = e
      BY <1>1, <1>4, <1>5
    <3> QED
      BY <1>1, <3>1, <3>2
  <2>2. ShapeFits(q)
    BY <1>5, <1>8, <2>1 DEF ShapeFits
  <2>3. Begins(q, list, <<>>)
    BY <1>1, <2>1 DEF Begins
  <2>4. /\ ScanFits(q, list, code, simulation.bridges) /\ ProxyFits(q, list)
        /\ LogFits(q, list, simulation.logs)
    BY <1>8, <2>3, ScanStarts, ProxyStarts, LogStarts
  <2>5. c \in Tools => ToolFits(c, q, list, analysed', compilers', managed, directories')
    <3>1. \A n \in DOMAIN e : e[n].what \notin Conclusive
      BY <1>5, AListIs
    <3>2. Picked(e, Concluding(e)) = e
      BY <1>1, <1>5, <3>1, NoConclusions
    <3>3. Follows(e, list, list)
      BY <1>1, <1>8, FollowsFromStart
    <3> QED
      BY <1>11, <1>12, <1>13, <2>1, <3>2, <3>3 DEF ToolFits
  <2>6. Fits(c)'
    BY <1>1, <1>2, <2>2, <2>4, <2>5, OwnFits
  <2> QED
    BY <1>2, <1>11, <2>1, <2>6, StepKeeps
<1>16. CASE c \in Tools /\ Goes(c, "next", list, <<g>>)
  <2>1. Whole /\ Only(c) /\ q = [at |-> "next", left |-> list, said |-> <<g>>]
    BY <1>1, <1>4, <1>7, <1>16, GoesIs
  <2>2. ShapeFits(q)
    BY <1>7, <1>8, <2>1 DEF ShapeFits
  <2>3. c \notin Scanners /\ c # "proxies" /\ c # "logs"
    BY <1>16 DEF Tools, Scanners
  <2>4. ToolFits(c, q, list, analysed', compilers', managed, directories')
    <3>1. PICK s : s = <<g>>
      OBVIOUS
    <3>2. g.what \notin Conclusive /\ g.what # "report"
      BY <1>6 DEF Note, Conclusive
    <3>3. DOMAIN s = 1..1 /\ Len(s) = 1 /\ s[1] = g
      BY <1>7, <3>1, AListIs
    <3>4. \A n \in DOMAIN s : s[n].what \notin Conclusive /\ s[n].what # "report"
      BY <3>2, <3>3
    <3>5. Picked(s, Concluding(s)) = e
      BY <1>1, <1>7, <3>1, <3>4, NoConclusions
    <3>6. Follows(e, list, list)
      BY <1>1, <1>8, FollowsFromStart
    <3>7. \A an, co, ma : Reports(c, s, an, co, ma)
      BY <3>3, <3>4 DEF Reports
    <3> QED
      BY <1>11, <1>12, <1>16, <2>1, <3>1, <3>5, <3>6, <3>7 DEF ToolFits
  <2>5. Fits(c)'
    BY <1>1, <1>2, <2>2, <2>3, <2>4, OwnFits
  <2> QED
    BY <1>2, <1>11, <2>1, <2>5, StepKeeps
<1> QED
  BY <1>9, <1>14, <1>15, <1>16, <1>17
-----------------------------------------------------------------------------
LEMMA ThrowKeepsInv ==
  ASSUME ContractInv, NEW c \in ContractChecks, RequestThrows(c)
  PROVE  ContractInv'
<1>1. PICK p, q, g : p = progress[c] /\ q = progress'[c] /\ g = Note("check", "failed", "error")
  OBVIOUS
<1>2. p.at = "next" /\ Aside /\ NoTool
  BY <1>1 DEF RequestThrows, Stands
<1>3. Fits(c) /\ progress = [k \in ContractChecks |-> progress[k]]
  BY DEF ContractInv
<1>4. Whole /\ Only(c) /\ q = [at |-> "thrown", left |-> <<>>, said |-> <<g>>]
  BY <1>1, <1>3 DEF RequestThrows, Whole, Only
<1>5. AList(<<g>>) /\ Notes(<<g>>) /\ Len(<<g>>) = 1 /\ <<g>>[1] = g
  BY <1>1, OneNote
<1>6. World /\ compilers' \in [Compilers -> Installs]
      /\ analysed' = analysed /\ compilers' = compilers /\ directories' = directories
  BY <1>2, QuietWorld
<1>7. ShapeFits(q)
  <2>1. PICK e, s : e = <<>> /\ s = <<g>>
    OBVIOUS
  <2>2. AList(e)
    BY <2>1, NoNote
  <2> QED
    BY <1>4, <1>5, <2>1, <2>2 DEF ShapeFits
<1>8. /\ ScanFits(q, ListOf(c), code, simulation.bridges) /\ ProxyFits(q, ListOf(c))
      /\ LogFits(q, ListOf(c), simulation.logs)
  BY <1>4 DEF ScanFits, ProxyFits, LogFits
<1>9. c \in Tools => ToolFits(c, q, ListOf(c), analysed', compilers', managed, directories')
  <2>1. SUFFICES ASSUME c \in Tools
        PROVE ToolFits(c, q, ListOf(c), analysed', compilers', managed, directories')
    OBVIOUS
  <2>2. c \notin directories
    BY <1>1, <1>2, <1>3, <2>1 DEF Fits, ToolFits
  <2>3. g.what # "report"
    BY <1>1 DEF Note
  <2>4. \A an, co, ma : Reports(c, <<g>>, an, co, ma)
    BY <1>5, <2>3 DEF Reports
  <2> QED
    BY <1>4, <1>6, <2>2, <2>4 DEF ToolFits
<1>10. Fits(c)'
  BY <1>1, <1>2, <1>7, <1>8, <1>9, OwnFits
<1> QED
  BY <1>2, <1>4, <1>6, <1>10, StepKeeps

\* The notes about code tell what it can do.
LEMMA StatusTells ==
  ASSUME ContractInv, NEW check \in Scanners, NEW c \in Own \cup DOMAIN code,
         NEW status \in Statuses(c), NEW note, note = Note(c, status, Level(check, c, status))
  PROVE  TellsCode(note, code, simulation.bridges)
<1>1. SUFFICES ASSUME c \notin Own PROVE TellsCode(note, code, simulation.bridges)
  BY DEF TellsCode, Note
<1>2. PICK bytes : bytes = code[c]
  OBVIOUS
<1>3. bytes \in Seq(STRING)
  BY <1>1, <1>2, ContractAssumption DEF ContractInv
<1>4. /\ \A op \in Executable(bytes) : op # "JUMPDEST" => op \in Scanned(bytes)
      /\ \A op \in Scanned(bytes) : \E i \in Instructions(bytes) : bytes[i] = op
  BY <1>3, ScanMissesNothing
<1>5. note.about = c /\ note.level = Level(check, c, status)
  BY DEF Note
<1>6. PICK v : v = Level(check, c, status)
  OBVIOUS
<1>7. CASE bytes = <<>>
  <2>1. Executable(bytes) = {}
    <3>1. PICK h : IsReach(h, bytes) /\ Executable(bytes) = {bytes[i] : i \in h[Len(bytes)]}
      BY <1>3, ReachIs
    <3>2. Len(bytes) = 0 /\ DOMAIN bytes = {}
      BY <1>3, <1>7
    <3>3. h[Len(bytes)] = {}
      BY <3>1, <3>2 DEF IsReach
    <3> QED
      BY <3>1, <3>3
  <2>2. status \in {"empty", "eoa"}
    BY <1>1, <1>2, <1>7 DEF Statuses
  <2>3. v # "error"
    BY <1>6, <2>2 DEF Level
  <2> QED
    BY <1>2, <1>5, <1>6, <2>1, <2>3 DEF TellsCode
<1>8. CASE bytes # <<>> /\ "SELFDESTRUCT" \in Scanned(bytes)
  <2>1. status = "selfdestruct"
    BY <1>1, <1>2, <1>8 DEF Statuses
  <2>2. v = "error"
    BY <1>6, <2>1 DEF Level
  <2> QED
    BY <1>2, <1>4, <1>5, <1>6, <1>8, <2>2 DEF TellsCode
<1>9. CASE bytes # <<>> /\ "SELFDESTRUCT" \notin Scanned(bytes)
  <2>1. "SELFDESTRUCT" \notin Executable(bytes)
    BY <1>4, <1>9
  <2>2. CASE "DELEGATECALL" \in Scanned(bytes)
    <3>1. status = "delegatecall"
      BY <1>1, <1>2, <1>9, <2>2 DEF Statuses
    <3>2. v # "error" /\ (v = "warning" \/ c \in simulation.bridges \cup {Placeholder})
      BY <1>6, <3>1 DEF Level
    <3> QED
      BY <1>2, <1>5, <1>6, <2>1, <3>2 DEF TellsCode
  <2>3. CASE "DELEGATECALL" \notin Scanned(bytes)
    <3>1. status = "safe"
      BY <1>1, <1>2, <1>9, <2>3 DEF Statuses
    <3>2. v # "error"
      BY <1>6, <3>1 DEF Level
    <3>3. "DELEGATECALL" \notin Executable(bytes)
      BY <1>4, <2>3
    <3> QED
      BY <1>2, <1>5, <1>6, <2>1, <3>2, <3>3 DEF TellsCode
  <2> QED
    BY <2>2, <2>3
<1> QED
  BY <1>7, <1>8, <1>9

\* The first of what is left is one of the list.
LEMMA HeadIsListed ==
  ASSUME NEW s, NEW l, NEW list, Follows(s, l, list), AList(s), AList(l), l # <<>>, AList(list)
  PROVE  \E n \in 1..Len(list) : Head(l) = list[n]
<1>1. Len(s) \in Nat /\ Len(l) \in Nat \ {0} /\ Head(l) = l[1]
  BY AListIs, Shortened
<1>2. Len(list) = Len(s) + Len(l) /\ \A n \in 1..Len(l) : l[n] = list[Len(s) + n]
  BY DEF Follows
<1>3. l[1] = list[Len(s) + 1] /\ Len(s) + 1 \in 1..Len(list)
  BY <1>1, <1>2
<1> QED
  BY <1>1, <1>3

LEMMA ScanKeepsInv ==
  ASSUME ContractInv, NEW c \in ContractChecks, ScanCode(c)
  PROVE  ContractInv'
<1>1. PICK p, q : p = progress[c] /\ q = progress'[c]
  OBVIOUS
<1>2. c \in Scanners /\ Stands(c, "next") /\ Aside /\ NoTool
  BY DEF ScanCode
<1>3. /\ p.at = "next" /\ p.left # <<>> /\ AList(p.left) /\ AList(Tail(p.left)) /\ AList(p.said)
      /\ Current(c) = Head(p.left) /\ Others(c) = Tail(p.left) /\ ShapeFits(p) /\ Fits(c)
  BY <1>1, <1>2, StandsAt
<1>4. PICK status \in Statuses(Current(c)) :
        Goes(c, "next", Others(c), <<Note(Current(c), status, Level(c, Current(c), status))>>)
  BY DEF ScanCode
<1>5. PICK note : note = Note(Current(c), status, Level(c, Current(c), status))
  OBVIOUS
<1>6. Whole /\ Only(c) /\ q = [at |-> "next", left |-> Tail(p.left), said |-> p.said \o <<note>>]
  <2>1. PICK rest, notes : rest = Others(c) /\ notes = <<note>>
    OBVIOUS
  <2>2. Goes(c, "next", rest, notes)
    BY <1>4, <1>5, <2>1
  <2>3. /\ Whole /\ Only(c)
        /\ progress'[c] = [at |-> "next", left |-> rest, said |-> progress[c].said \o notes]
    BY <2>2, GoesIs
  <2> QED
    BY <1>1, <1>3, <2>1, <2>3
<1>7. PICK list : list = ListOf(c)
  OBVIOUS
<1>8. ScanFits(p, list, code, simulation.bridges)
  BY <1>1, <1>2, <1>3, <1>7 DEF Fits
<1>9. AList(list) /\ \A n \in 1..Len(list) : list[n] \in Own \cup DOMAIN code
  BY <1>2, <1>7, ListsAre DEF ContractInv
<1>10. Current(c) \in Own \cup DOMAIN code
  <2>1. Follows(p.said, p.left, list)
    BY <1>3, <1>8 DEF ScanFits
  <2> QED
    BY <1>3, <1>9, <2>1, HeadIsListed
<1>11. TellsCode(note, code, simulation.bridges)
  BY <1>2, <1>5, <1>10, StatusTells
<1>12. GoesOn(p, q, note) /\ note.about = Head(p.left)
  BY <1>3, <1>5, <1>6 DEF GoesOn, Note
<1>13. ScanFits(q, list, code, simulation.bridges)
  BY <1>3, <1>8, <1>11, <1>12, ScanTellsMore
<1>14. ShapeFits(q)
  <2>1. AList(<<note>>) /\ Notes(<<note>>)
    BY <1>5, OneNote
  <2>2. q.at \notin {"begin", "ended"} /\ q.left = Tail(p.left) /\ q.said = p.said \o <<note>>
    BY <1>6
  <2> QED
    BY <1>3, <2>1, <2>2, ShapeGoesOn
<1>15. c # "proxies" /\ c # "logs" /\ c \notin Tools
  BY <1>2 DEF Scanners, Tools
<1>16. Fits(c)'
  BY <1>1, <1>2, <1>7, <1>13, <1>14, <1>15, OwnFits
<1>17. World /\ compilers' \in [Compilers -> Installs]
       /\ analysed' = analysed /\ compilers' = compilers /\ directories' = directories
  BY <1>2, QuietWorld
<1> QED
  BY <1>2, <1>6, <1>16, <1>17, StepKeeps

LEMMA EndKeepsContractInv ==
  ASSUME ContractInv, NEW c \in ContractChecks, EndCheck(c)
  PROVE  ContractInv'
<1>1. PICK p, q, list : p = progress[c] /\ q = progress'[c] /\ list = ListOf(c)
  OBVIOUS
<1>2. p.at = "next" /\ p.left = <<>> /\ Aside /\ NoTool
  BY <1>1 DEF EndCheck
<1>3. Fits(c) /\ progress = [k \in ContractChecks |-> progress[k]]
  BY DEF ContractInv
<1>4. /\ Whole /\ Only(c)
      /\ q = [at |-> IF c = "proxies" /\ p.said = <<>> THEN "skipped" ELSE "ended",
              left |-> <<>>, said |-> Settled(p.said)]
  BY <1>1, <1>3 DEF EndCheck, Whole, Only
<1>5. Settles(p, q) /\ q.at # "begin" /\ (c # "proxies" => q.at = "ended")
  BY <1>2, <1>4 DEF Settles
<1>6. ShapeFits(p)
  BY <1>1, <1>3 DEF Fits
<1>7. ShapeFits(q)
  BY <1>5, <1>6, ShapeSettles
<1>8. World /\ compilers' \in [Compilers -> Installs]
      /\ analysed' = analysed /\ compilers' = compilers /\ directories' = directories
  BY <1>2, QuietWorld
<1>9. c \in Scanners => ScanFits(q, list, code, simulation.bridges)
  BY <1>1, <1>3, <1>5, <1>6, ScanSettles DEF Fits
<1>10. c = "proxies" => ProxyFits(q, list)
  BY <1>1, <1>3, <1>5, <1>6, ProxySettles DEF Fits
<1>11. c = "logs" => LogFits(q, list, simulation.logs)
  BY <1>1, <1>3, <1>5, <1>6, LogSettles DEF Fits
<1>12. c \in Tools => ToolFits(c, q, list, analysed', compilers', managed, directories')
  <2>1. SUFFICES ASSUME c \in Tools
        PROVE ToolFits(c, q, list, analysed', compilers', managed, directories')
    OBVIOUS
  <2>2. q.at = "ended"
    BY <1>5, <2>1 DEF Tools
  <2>3. ToolFits(c, p, list, analysed, compilers, managed, directories)
    BY <1>1, <1>3, <2>1 DEF Fits
  <2>4. ToolFits(c, q, list, analysed, compilers, managed, directories)
    BY <1>5, <1>6, <2>2, <2>3, ToolSettles
  <2> QED
    BY <1>8, <2>4
<1>13. Fits(c)'
  BY <1>1, <1>2, <1>7, <1>9, <1>10, <1>11, <1>12, OwnFits
<1> QED
  BY <1>2, <1>4, <1>8, <1>13, StepKeeps

LEMMA TwoNotes ==
  ASSUME NEW s, NEW t, AList(s), AList(t), Notes(s), Notes(t)
  PROVE  AList(s \o t) /\ Notes(s \o t)
<1>1. PICK u : u = s \o t
  OBVIOUS
<1>2. /\ AList(u) /\ Len(u) = Len(s) + Len(t) /\ (\A n \in 1..Len(s) : u[n] = s[n])
      /\ \A n \in 1..Len(t) : u[Len(s) + n] = t[n]
  BY <1>1, Joined
<1>3. Len(s) \in Nat /\ Len(t) \in Nat
  BY AListIs
<1>4. ASSUME NEW n \in 1..Len(u) PROVE u[n] = Note(u[n].about, u[n].what, u[n].level)
  <2>1. CASE n \in 1..Len(s)
    BY <1>2, <2>1 DEF Notes
  <2>2. CASE n \notin 1..Len(s)
    <3>1. n - Len(s) \in 1..Len(t) /\ Len(s) + (n - Len(s)) = n
      BY <1>2, <1>3, <2>2
    <3>2. u[n] = t[n - Len(s)]
      BY <1>2, <3>1
    <3> QED
      BY <3>1, <3>2 DEF Notes
  <2> QED
    BY <2>1, <2>2
<1> QED
  BY <1>1, <1>2, <1>4 DEF Notes

LEMMA ResolvedShape ==
  ASSUME NEW c, NEW i, NEW v
  PROVE  AList(ResolvedNotes(c, i, v)) /\ Notes(ResolvedNotes(c, i, v))
<1>1. CASE i = "zero"
  BY <1>1, OneNote DEF ResolvedNotes
<1>2. CASE i # "zero"
  <2>1. PICK s, t : /\ s = <<Note(c, i, "info")>>
                    /\ t = (IF v THEN <<>> ELSE <<Note(c, "unverified", "warning")>>)
    OBVIOUS
  <2>2. AList(s) /\ Notes(s)
    BY <2>1, OneNote
  <2>3. AList(t) /\ Notes(t)
    BY <2>1, OneNote, NoNote
  <2>4. ResolvedNotes(c, i, v) = s \o t
    BY <1>2, <2>1 DEF ResolvedNotes
  <2> QED
    BY <2>2, <2>3, <2>4, TwoNotes
<1> QED
  BY <1>1, <1>2

LEMMA ResolveKeepsInv ==
  ASSUME ContractInv, ResolveProxy
  PROVE  ContractInv'
<1>0. PICK c \in ContractChecks : c = "proxies"
  BY DEF ContractChecks
<1>1. PICK p, q, h : p = progress[c] /\ q = progress'[c] /\ h = Current(c)
  OBVIOUS
<1>2. Stands(c, "next") /\ Aside /\ NoTool
  BY <1>0 DEF ResolveProxy
<1>3. /\ p.at = "next" /\ p.left # <<>> /\ AList(p.left) /\ AList(Tail(p.left)) /\ AList(p.said)
      /\ h = Head(p.left) /\ Others(c) = Tail(p.left) /\ ShapeFits(p) /\ Fits(c)
  BY <1>1, <1>2, StandsAt
<1>4. \E notes : /\ Goes(c, "next", Others(c), notes) /\ AList(notes) /\ Notes(notes)
                 /\ /\ h \in DOMAIN Behind
                    /\ Published[Behind[h].implementation] = "nowhere"
                    => WarnsOf(notes, h)
  <2>1. CASE h \notin DOMAIN Behind
    <3>1. Goes(c, "next", Others(c), <<>>)
      BY <1>0, <1>1, <2>1 DEF ResolveProxy
    <3> QED
      BY <2>1, <3>1, NoNote
  <2>2. CASE h \in DOMAIN Behind
    <3>1. PICK implementation \in Implementations(h) :
            \E sourced \in IF implementation = "zero" THEN {FALSE}
                           ELSE IF Published[implementation] = "sourcify" THEN {TRUE, FALSE}
                           ELSE {Published[implementation] = "explorer"} :
              Goes(c, "next", Others(c), ResolvedNotes(h, implementation, sourced))
      BY <1>0, <1>1, <2>2 DEF ResolveProxy
    <3>2. PICK sourced \in IF implementation = "zero" THEN {FALSE}
                         ELSE IF Published[implementation] = "sourcify" THEN {TRUE, FALSE}
                         ELSE {Published[implementation] = "explorer"} :
              Goes(c, "next", Others(c), ResolvedNotes(h, implementation, sourced))
      BY <3>1
    <3>3. PICK notes : notes = ResolvedNotes(h, implementation, sourced)
      OBVIOUS
    <3>4. AList(notes) /\ Notes(notes)
      BY <3>3, ResolvedShape
    <3>5. h \in DOMAIN Behind /\ Published[Behind[h].implementation] = "nowhere" => WarnsOf(notes, h)
      BY <2>2, <3>1, <3>2, <3>3, NowhereIsWarned
    <3> QED
      BY <3>2, <3>3, <3>4, <3>5
  <2> QED
    BY <2>1, <2>2
<1>5. PICK notes : /\ Goes(c, "next", Others(c), notes) /\ AList(notes) /\ Notes(notes)
                   /\ /\ h \in DOMAIN Behind
                      /\ Published[Behind[h].implementation] = "nowhere"
                      => WarnsOf(notes, h)
  BY <1>4
<1>6. Whole /\ Only(c) /\ q = [at |-> "next", left |-> Tail(p.left), said |-> p.said \o notes]
  BY <1>1, <1>3, <1>5, GoesIs
<1>7. q.at \notin {"begin", "ended"} /\ q.left = Tail(p.left) /\ q.said = p.said \o notes
  BY <1>6
<1>8. ShapeFits(q)
  BY <1>3, <1>5, <1>7, ShapeGoesOn
<1>9. ProxyFits(q, ListOf(c))
  <2>1. ProxyFits(p, ListOf(c))
    BY <1>0, <1>1, <1>3 DEF Fits
  <2> QED
    BY <1>3, <1>5, <1>7, <2>1, ProxyGoesOn
<1>10. c \notin Scanners /\ c # "logs" /\ c \notin Tools
  BY <1>0 DEF Scanners, Tools
<1>11. Fits(c)'
  BY <1>1, <1>2, <1>8, <1>9, <1>10, OwnFits
<1>12. World /\ compilers' \in [Compilers -> Installs]
       /\ analysed' = analysed /\ compilers' = compilers /\ directories' = directories
  BY <1>2, QuietWorld
<1> QED
  BY <1>2, <1>6, <1>11, <1>12, StepKeeps
-----------------------------------------------------------------------------
IsTold(notes, em, abi, implementation) ==
  notes = [i \in DOMAIN em |-> Described(em[i], abi, implementation)]

\* What a contract has emitted, as the notes about it say it.
LEMMA EventsAreTold ==
  ASSUME NEW logs, AList(logs), NEW c, NEW abi, NEW implementation, NEW notes, NEW em,
         em = EmittedBy(logs, c), IsTold(notes, em, abi, implementation)
  PROVE  /\ AList(notes) /\ Notes(notes) /\ Abouts(notes) = em
         /\ \A n \in 1..Len(notes) : notes[n].about.from = c
<1>1. PICK S : S = {n \in DOMAIN logs : logs[n].from = c /\ ~Dull(logs[n])}
  OBVIOUS
<1>2. em = Picked(logs, S) /\ S \subseteq DOMAIN logs
  BY <1>1 DEF EmittedBy
<1>3. AList(em) /\ \A k \in 1..Len(em) : \E n \in S : em[k] = logs[n]
  BY <1>2, PickedFrom
<1>4. \A n \in S : logs[n].from = c
  BY <1>1
<1>5. \A k \in 1..Len(em) : em[k].from = c
  BY <1>3, <1>4
<1>6. PICK L : L = Len(em)
  OBVIOUS
<1>7. L \in Nat /\ DOMAIN em = 1..L
  BY <1>3, <1>6, AListIs
<1>8. notes = [i \in 1..L |-> Described(em[i], abi, implementation)]
  BY <1>7 DEF IsTold
<1>9. notes = [k \in 1..L |-> notes[k]]
  BY <1>8
<1>10. AList(notes) /\ Len(notes) = L
  BY <1>7, <1>9, FunctionIsList
<1>11. ASSUME NEW k \in 1..L
       PROVE  /\ notes[k].about = em[k]
              /\ notes[k] = Note(notes[k].about, notes[k].what, notes[k].level)
  <2>1. notes[k] = Described(em[k], abi, implementation)
    BY <1>8
  <2>2. PICK w : Described(em[k], abi, implementation) = Note(em[k], w, "info")
    BY DEF Described
  <2> QED
    BY <2>1, <2>2 DEF Note
<1>12. DOMAIN notes = 1..L
  BY <1>8
<1>13. PICK u : u = Abouts(notes)
  OBVIOUS
<1>14. u = [k \in 1..L |-> notes[k].about]
  BY <1>12, <1>13 DEF Abouts
<1>15. u = [k \in 1..L |-> u[k]]
  BY <1>14
<1>16. AList(u) /\ Len(u) = L
  BY <1>7, <1>15, FunctionIsList
<1>17. \A k \in 1..L : u[k] = em[k]
  BY <1>11, <1>14
<1>18. u = em
  BY <1>3, <1>6, <1>16, <1>17, SameList
<1>19. Notes(notes)
  BY <1>10, <1>11 DEF Notes
<1>20. \A n \in 1..Len(notes) : notes[n].about.from = c
  BY <1>5, <1>6, <1>10, <1>11
<1> QED
  BY <1>10, <1>13, <1>18, <1>19, <1>20

LEMMA DescribeKeepsInv ==
  ASSUME ContractInv, DescribeLogs
  PROVE  ContractInv'
<1>0. PICK c \in ContractChecks : c = "logs"
  BY DEF ContractChecks
<1>1. PICK p, q, h, logs, list :
        /\ p = progress[c] /\ q = progress'[c] /\ h = Current(c) /\ logs = simulation.logs
        /\ list = ListOf(c)
  OBVIOUS
<1>2. Stands(c, "next") /\ Aside /\ NoTool
  BY <1>0 DEF DescribeLogs
<1>3. /\ p.at = "next" /\ p.left # <<>> /\ AList(p.left) /\ AList(Tail(p.left)) /\ AList(p.said)
      /\ h = Head(p.left) /\ Others(c) = Tail(p.left) /\ ShapeFits(p) /\ Fits(c)
  BY <1>1, <1>2, StandsAt
<1>4. PICK em : em = LogsOf(h)
  OBVIOUS
<1>5. em = EmittedBy(logs, h)
  BY <1>1, <1>4 DEF LogsOf, EmittedBy
<1>6. \E abi, implementation :
        Goes(c, "next", Others(c), [i \in DOMAIN em |-> Described(em[i], abi, implementation)])
  BY <1>0, <1>1, <1>4 DEF DescribeLogs
<1>7. \E notes, abi, implementation :
        IsTold(notes, em, abi, implementation) /\ Goes(c, "next", Others(c), notes)
  BY <1>6 DEF IsTold
<1>8. PICK notes, abi, implementation :
        IsTold(notes, em, abi, implementation) /\ Goes(c, "next", Others(c), notes)
  BY <1>7
<1>9. /\ AList(list) /\ AList(logs)
      /\ \A j, k \in 1..Len(list) : j < k => list[j] # list[k]
  BY <1>0, <1>1, ListsAre DEF ContractInv
<1>10. /\ AList(notes) /\ Notes(notes) /\ Abouts(notes) = em
       /\ \A n \in 1..Len(notes) : notes[n].about.from = h
  BY <1>5, <1>8, <1>9, EventsAreTold
<1>11. Whole /\ Only(c) /\ q = [at |-> "next", left |-> Tail(p.left), said |-> p.said \o notes]
  BY <1>1, <1>3, <1>8, GoesIs
<1>12. q.at \notin {"begin", "ended"} /\ q.left = Tail(p.left) /\ q.said = p.said \o notes
  BY <1>11
<1>13. ShapeFits(q)
  BY <1>3, <1>10, <1>12, ShapeGoesOn
<1>14. LogFits(q, list, logs)
  <2>1. LogFits(p, list, logs)
    BY <1>0, <1>1, <1>3 DEF Fits
  <2>2. Abouts(notes) = EmittedBy(logs, Head(p.left))
        /\ \A n \in 1..Len(notes) : notes[n].about.from = Head(p.left)
    BY <1>3, <1>5, <1>10
  <2>3. AList(notes)
    BY <1>10
  <2> QED
    BY <1>3, <1>9, <1>12, <2>1, <2>2, <2>3, LogGoesOn
<1>15. c \notin Scanners /\ c # "proxies" /\ c \notin Tools
  BY <1>0 DEF Scanners, Tools
<1>16. Fits(c)'
  BY <1>1, <1>2, <1>13, <1>14, <1>15, OwnFits
<1>17. World /\ compilers' \in [Compilers -> Installs]
       /\ analysed' = analysed /\ compilers' = compilers /\ directories' = directories
  BY <1>2, QuietWorld
<1> QED
  BY <1>2, <1>11, <1>16, <1>17, StepKeeps
-----------------------------------------------------------------------------
(* The tools.                                                              *)

\* A tool moves within its contract and says nothing, or nothing conclusive.
LEMMA ToolMoves ==
  ASSUME ContractInv, Aside, World, compilers' \in [Compilers -> Installs],
         NEW c \in Tools, NEW from, NEW to, Stands(c, from),
         from \in {"next", "source", "compiler", "running"},
         to \in {"source", "compiler", "running"},
         Goes(c, to, progress[c].left, <<>>),
         to = "compiler" => managed,
         directories' \subseteq directories \cup {c}, to # "running" => c \notin directories'
  PROVE  ContractInv'
<1>0. c \in ContractChecks /\ c \notin Scanners /\ c # "proxies" /\ c # "logs"
  BY DEF ContractChecks, Tools, Scanners
<1>1. PICK p, q : p = progress[c] /\ q = progress'[c]
  OBVIOUS
<1>2. p.at = from /\ p.left # <<>> /\ AList(p.left) /\ AList(p.said) /\ ShapeFits(p) /\ Fits(c)
  BY <1>0, <1>1, StandsAt
<1>3. /\ Whole /\ Only(c) /\ q = [at |-> to, left |-> p.left, said |-> p.said]
  <2>1. PICK rest : rest = p.left
    OBVIOUS
  <2>2. Goes(c, to, rest, <<>>)
    BY <1>1, <2>1
  <2>3. /\ Whole /\ Only(c)
        /\ progress'[c] = [at |-> to, left |-> rest, said |-> progress[c].said \o <<>>]
    <3>1. c \in ContractChecks
      BY <1>0
    <3> QED
      BY <2>2, <3>1, GoesIs
  <2>4. p.said \o <<>> = p.said
    BY <1>2, AppendNothing
  <2> QED
    BY <1>1, <2>1, <2>3, <2>4
<1>4. ShapeFits(q)
  BY <1>2, <1>3 DEF ShapeFits
<1>5. PICK list : list = ListOf(c)
  OBVIOUS
<1>6. ToolFits(c, p, list, analysed, compilers, managed, directories)
  BY <1>1, <1>2, <1>5 DEF Fits
<1>7. Reports(c, p.said, analysed', compilers', managed)
  BY <1>6, ReportsKeep DEF ToolFits, World
<1>8. Follows(Picked(p.said, Concluding(p.said)), p.left, list)
  BY <1>2, <1>6 DEF ToolFits
<1>9. ToolFits(c, q, list, analysed', compilers', managed, directories')
  BY <1>3, <1>7, <1>8 DEF ToolFits
<1>10. Fits(c)'
  BY <1>0, <1>1, <1>4, <1>5, <1>9, OwnFits
<1> QED
  BY <1>0, <1>3, <1>10, StepKeeps

\* A tool comes to a conclusion about its contract.
LEMMA ToolEndsOne ==
  ASSUME ContractInv, Aside, World, compilers' \in [Compilers -> Installs],
         NEW c \in Tools, NEW from, Stands(c, from),
         from \in {"next", "source", "compiler", "running"},
         NEW w \in Conclusive, NEW v, Goes(c, "next", Others(c), <<Note(Current(c), w, v)>>),
         w = "report" => \/ <<c, Current(c)>> \in analysed'
                         \/ /\ c = "slither" /\ managed
                            /\ compilers'[Version[Current(c)]] = "complaint",
         directories' \subseteq directories \cup {c}, c \notin directories'
  PROVE  ContractInv'
<1>0. c \in ContractChecks /\ c \notin Scanners /\ c # "proxies" /\ c # "logs"
  BY DEF ContractChecks, Tools, Scanners
<1>1. PICK p, q, h : p = progress[c] /\ q = progress'[c] /\ h = Current(c)
  OBVIOUS
<1>2. /\ p.at = from /\ p.left # <<>> /\ AList(p.left) /\ AList(Tail(p.left)) /\ AList(p.said)
      /\ h = Head(p.left) /\ Others(c) = Tail(p.left) /\ ShapeFits(p) /\ Fits(c)
  BY <1>0, <1>1, StandsAt
<1>3. PICK note : note = Note(h, w, v)
  OBVIOUS
<1>4. note.about = h /\ note.what = w
  BY <1>3 DEF Note
<1>5. Whole /\ Only(c) /\ q = [at |-> "next", left |-> Tail(p.left), said |-> p.said \o <<note>>]
  <2>1. PICK rest, notes : rest = Others(c) /\ notes = <<note>>
    OBVIOUS
  <2>2. Goes(c, "next", rest, notes) /\ c \in ContractChecks
    BY <1>0, <1>1, <1>3, <2>1
  <2>3. /\ Whole /\ Only(c)
        /\ progress'[c] = [at |-> "next", left |-> rest, said |-> progress[c].said \o notes]
    BY <2>2, GoesIs
  <2> QED
    BY <1>1, <1>2, <2>1, <2>3
<1>6. ShapeFits(q)
  <2>1. AList(<<note>>) /\ Notes(<<note>>)
    BY <1>3, OneNote
  <2>2. q.at \notin {"begin", "ended"} /\ q.left = Tail(p.left) /\ q.said = p.said \o <<note>>
    BY <1>5
  <2> QED
    BY <1>2, <2>1, <2>2, ShapeGoesOn
<1>7. PICK list : list = ListOf(c)
  OBVIOUS
<1>8. ToolFits(c, p, list, analysed, compilers, managed, directories)
  BY <1>1, <1>2, <1>7 DEF Fits
<1>9. Follows(Picked(p.said, Concluding(p.said)), p.left, list)
  BY <1>2, <1>8 DEF ToolFits
<1>10. Follows(Picked(p.said \o <<note>>, Concluding(p.said \o <<note>>)), Tail(p.left), list)
  BY <1>2, <1>4, <1>9, ToolConcludes
<1>11. h \in DOMAIN Version
  <2>1. AList(Picked(p.said, Concluding(p.said)))
    BY <1>2, ConclusionsList
  <2>2. AList(list) /\ \A n \in 1..Len(list) : list[n] \in DOMAIN Version
    BY <1>0, <1>7, ListsAre DEF ContractInv
  <2> QED
    BY <1>2, <1>9, <2>1, <2>2, HeadIsListed
<1>12. Reports(c, p.said \o <<note>>, analysed', compilers', managed)
  <2>1. Reports(c, p.said, analysed', compilers', managed)
    BY <1>8, ReportsKeep DEF ToolFits, World
  <2> QED
    BY <1>1, <1>2, <1>4, <1>11, <2>1, ReportsMore
<1>13. ToolFits(c, q, list, analysed', compilers', managed, directories')
  BY <1>5, <1>10, <1>12 DEF ToolFits
<1>14. Fits(c)'
  BY <1>0, <1>1, <1>6, <1>7, <1>13, OwnFits
<1> QED
  BY <1>0, <1>5, <1>14, StepKeeps

LEMMA NotRunning ==
  ASSUME ContractInv, NEW c \in Tools, NEW from, Stands(c, from), from # "running"
  PROVE  c \notin directories
<1>1. c \in ContractChecks
  BY DEF ContractChecks
<1>2. Fits(c) /\ progress[c].at = from
  BY <1>1 DEF ContractInv, Stands
<1> QED
  BY <1>2 DEF Fits, ToolFits

LEMMA ConcludesIs ==
  ASSUME NEW c \in Tools, NEW outcome, Concludes(c, outcome)
  PROVE  \E w, v : /\ Goes(c, "next", Others(c), <<Note(Current(c), w, v)>>)
                    /\ w \in Conclusive /\ w = Verdict(c, outcome)
<1>1. Verdict(c, outcome) \in Conclusive
  BY DEF Verdict, SolcVerdict, SlitherVerdict, Conclusive
<1> QED
  BY <1>1 DEF Concludes

\* Slither goes on with what it was told to.
LEMMA ToolOverrides ==
  ASSUME ContractInv, Aside, World, compilers' \in [Compilers -> Installs],
         NEW c \in Tools, Stands(c, "next"), NEW h,
         Goes(c, "source", progress[c].left, <<Note(h, "override", "warning")>>),
         directories' = directories
  PROVE  ContractInv'
<1>0. c \in ContractChecks /\ c \notin Scanners /\ c # "proxies" /\ c # "logs"
  BY DEF ContractChecks, Tools, Scanners
<1>1. PICK p, q, note : p = progress[c] /\ q = progress'[c] /\ note = Note(h, "override", "warning")
  OBVIOUS
<1>2. /\ p.at = "next" /\ p.left # <<>> /\ AList(p.left) /\ AList(p.said) /\ ShapeFits(p) /\ Fits(c)
  BY <1>0, <1>1, StandsAt
<1>3. note.what \notin Conclusive /\ note.what # "report"
  BY <1>1 DEF Note, Conclusive
<1>4. Whole /\ Only(c) /\ q = [at |-> "source", left |-> p.left, said |-> p.said \o <<note>>]
  BY <1>0, <1>1, GoesIs
<1>5. ShapeFits(q)
  <2>1. AList(<<note>>) /\ Notes(<<note>>)
    BY <1>1, OneNote
  <2>2. q.at \notin {"begin", "ended"} /\ q.left = p.left /\ q.said = p.said \o <<note>>
    BY <1>4
  <2> QED
    BY <1>2, <2>1, <2>2, ShapeGoesOn
<1>6. PICK list : list = ListOf(c)
  OBVIOUS
<1>7. ToolFits(c, p, list, analysed, compilers, managed, directories)
  BY <1>1, <1>2, <1>6 DEF Fits
<1>8. Follows(Picked(p.said, Concluding(p.said)), p.left, list)
  BY <1>2, <1>7 DEF ToolFits
<1>9. Picked(p.said \o <<note>>, Concluding(p.said \o <<note>>)) = Picked(p.said, Concluding(p.said))
  BY <1>2, <1>3, OneConclusion
<1>10. Reports(c, p.said \o <<note>>, analysed', compilers', managed)
  <2>1. Reports(c, p.said, analysed', compilers', managed)
    BY <1>7, ReportsKeep DEF ToolFits, World
  <2> QED
    BY <1>2, <1>3, <2>1, ReportsMore
<1>11. c \notin directories
  BY <1>2, <1>7 DEF ToolFits
<1>12. ToolFits(c, q, list, analysed', compilers', managed, directories')
  BY <1>4, <1>8, <1>9, <1>10, <1>11 DEF ToolFits
<1>13. Fits(c)'
  BY <1>0, <1>1, <1>5, <1>6, <1>12, OwnFits
<1> QED
  BY <1>0, <1>4, <1>13, StepKeeps

LEMMA VerifyKeepsInv ==
  ASSUME ContractInv, Verify
  PROVE  ContractInv'
<1>0. PICK c \in Tools : c = "slither"
  BY DEF Tools
<1>1. Stands(c, "next") /\ Aside /\ NoTool
  BY <1>0 DEF Verify
<1>2. World /\ compilers' \in [Compilers -> Installs]
      /\ analysed' = analysed /\ compilers' = compilers /\ directories' = directories
  BY <1>1, QuietWorld
<1>3. c \notin directories
  BY <1>1, NotRunning
<1>4. PICK h : h = Current(c)
  OBVIOUS
<1>5. \/ Goes(c, "source", progress[c].left, <<>>)
      \/ Goes(c, "source", progress[c].left, <<Note(h, "override", "warning")>>)
      \/ Goes(c, "next", Others(c), <<Note(h, "not analysed", "info")>>)
  BY <1>0, <1>4 DEF Verify
<1>6. CASE Goes(c, "source", progress[c].left, <<>>)
  BY <1>1, <1>2, <1>3, <1>6, ToolMoves
<1>7. CASE Goes(c, "source", progress[c].left, <<Note(h, "override", "warning")>>)
  BY <1>1, <1>2, <1>3, <1>7, ToolOverrides
<1>8. CASE Goes(c, "next", Others(c), <<Note(h, "not analysed", "info")>>)
  <2>1. PICK w, v : w = "not analysed" /\ v = "info"
    OBVIOUS
  <2>2. w \in Conclusive /\ w # "report" /\ Goes(c, "next", Others(c), <<Note(Current(c), w, v)>>)
    BY <1>4, <1>8, <2>1 DEF Conclusive
  <2> QED
    BY <1>1, <1>2, <1>3, <2>2, ToolEndsOne
<1> QED
  BY <1>5, <1>6, <1>7, <1>8

LEMMA CompileKeepsInv ==
  ASSUME ContractInv, Compile
  PROVE  ContractInv'
<1>0. PICK c \in Tools : c = "solc"
  BY DEF Tools
<1>1. Stands(c, "next") /\ Aside /\ NoTool /\ Goes(c, "source", progress[c].left, <<>>)
  BY <1>0 DEF Compile
<1>2. World /\ compilers' \in [Compilers -> Installs]
      /\ analysed' = analysed /\ compilers' = compilers /\ directories' = directories
  BY <1>1, QuietWorld
<1>3. c \notin directories /\ c \notin directories'
  BY <1>1, <1>2, NotRunning
<1>4. PICK from, to : from = "next" /\ to = "source"
  OBVIOUS
<1>5. /\ from \in {"next", "source", "compiler", "running"}
      /\ to \in {"source", "compiler", "running"} /\ to # "compiler"
      /\ directories' \subseteq directories \cup {c}
  BY <1>2, <1>4
<1>6. Stands(c, from) /\ Aside /\ Goes(c, to, progress[c].left, <<>>)
  BY <1>1, <1>4
<1>7. World /\ compilers' \in [Compilers -> Installs] /\ c \notin directories'
  BY <1>2, <1>3
<1> QED
  BY <1>5, <1>6, <1>7, ToolMoves

LEMMA SourceKeepsInv ==
  ASSUME ContractInv, NEW c \in Tools, GetSource(c)
  PROVE  ContractInv'
<1>1. Stands(c, "source") /\ Aside /\ NoTool
  BY DEF GetSource
<1>2. World /\ compilers' \in [Compilers -> Installs]
      /\ analysed' = analysed /\ compilers' = compilers /\ directories' = directories
  BY <1>1, QuietWorld
<1>3. c \notin directories
  BY <1>1, NotRunning
<1>4. \/ Goes(c, "running", progress[c].left, <<>>)
      \/ managed /\ Goes(c, "compiler", progress[c].left, <<>>)
      \/ Concludes(c, "no source")
  BY DEF GetSource
<1>5. CASE Goes(c, "running", progress[c].left, <<>>)
  <2>1. "source" \in {"next", "source", "compiler", "running"}
        /\ "running" \in {"source", "compiler", "running"}
    OBVIOUS
  <2>2. directories' \subseteq directories \cup {c}
    BY <1>2
  <2> QED
    BY <1>1, <1>2, <1>5, <2>1, <2>2, ToolMoves, SMTT(30)
<1>6. CASE managed /\ Goes(c, "compiler", progress[c].left, <<>>)
  <2>1. "source" \in {"next", "source", "compiler", "running"}
        /\ "compiler" \in {"source", "compiler", "running"}
    OBVIOUS
  <2>2. directories' \subseteq directories \cup {c} /\ c \notin directories'
    BY <1>2, <1>3
  <2> QED
    BY <1>1, <1>2, <1>6, <2>1, <2>2, ToolMoves
<1>7. CASE Concludes(c, "no source")
  <2>1. PICK w, v : /\ w \in Conclusive /\ Goes(c, "next", Others(c), <<Note(Current(c), w, v)>>)
                    /\ w = Verdict(c, "no source")
    BY <1>7, ConcludesIs
  <2>2. w # "report"
    BY <2>1 DEF Verdict, SolcVerdict, SlitherVerdict
  <2> QED
    BY <1>1, <1>2, <1>3, <2>1, <2>2, ToolEndsOne
<1> QED
  BY <1>4, <1>5, <1>6, <1>7

\* The tool's own version is among those whose installation is kept.
LEMMA VersionIsKept ==
  ASSUME ContractInv, NEW c \in Tools, NEW from, Stands(c, from),
         from \in {"next", "source", "compiler", "running"}
  PROVE  Current(c) \in DOMAIN Version /\ Version[Current(c)] \in Compilers
<1>0. c \in ContractChecks
  BY DEF ContractChecks
<1>1. PICK p, list : p = progress[c] /\ list = ListOf(c)
  OBVIOUS
<1>2. /\ p.at = from /\ p.left # <<>> /\ AList(p.left) /\ AList(p.said)
      /\ Current(c) = Head(p.left) /\ Fits(c)
  BY <1>0, <1>1, StandsAt
<1>3. Follows(Picked(p.said, Concluding(p.said)), p.left, list)
  BY <1>1, <1>2 DEF Fits, ToolFits
<1>4. AList(Picked(p.said, Concluding(p.said)))
  BY <1>2, ConclusionsList
<1>5. AList(list) /\ \A n \in 1..Len(list) : list[n] \in DOMAIN Version
  BY <1>0, <1>1, ListsAre DEF ContractInv
<1>6. Current(c) \in DOMAIN Version
  BY <1>2, <1>3, <1>4, <1>5, HeadIsListed
<1> QED
  BY <1>6 DEF Compilers

LEMMA UseKeepsInv ==
  ASSUME ContractInv, NEW c \in Tools, UseCompiler(c)
  PROVE  ContractInv'
<1>1. /\ Stands(c, "compiler") /\ Aside /\ compilers' = compilers /\ analysed' = analysed
  BY DEF UseCompiler
<1>2. World /\ compilers' \in [Compilers -> Installs]
  BY <1>1 DEF World, ContractInv
<1>3. c \notin directories
  BY <1>1, NotRunning
<1>4. PICK v, o : v = Version[Current(c)] /\ o = compilers[v]
  OBVIOUS
<1>5. o \in {"installed", "complaint", "crash"}
  <2>1. o \in Installs
    BY <1>1, <1>4, VersionIsKept DEF ContractInv
  <2>2. o # "absent" /\ o # "installing"
    BY <1>4 DEF UseCompiler
  <2> QED
    BY <2>1, <2>2 DEF Installs
<1>6. CASE o = "installed"
  <2>1. Goes(c, "running", progress[c].left, <<>>) /\ directories' = directories \cup {c}
    BY <1>4, <1>6 DEF UseCompiler
  <2> QED
    BY <1>1, <1>2, <2>1, ToolMoves
<1>7. CASE o # "installed"
  <2>1. Concludes(c, o) /\ directories' = directories
    BY <1>4, <1>7 DEF UseCompiler
  <2>2. PICK w, l : /\ w \in Conclusive /\ Goes(c, "next", Others(c), <<Note(Current(c), w, l)>>)
                    /\ w = Verdict(c, o)
    BY <2>1, ConcludesIs
  <2>3. w = "report" => c = "slither" /\ o = "complaint"
    BY <1>5, <1>7, <2>2 DEF Verdict, SolcVerdict, SlitherVerdict, Tools
  <2>4. managed
    <3>1. c \in ContractChecks
      BY DEF ContractChecks
    <3>2. Fits(c) /\ progress[c].at = "compiler"
      BY <1>1, <3>1 DEF ContractInv, Stands
    <3> QED
      BY <3>2 DEF Fits, ToolFits
  <2>5. w = "report" => c = "slither" /\ managed /\ compilers'[Version[Current(c)]] = "complaint"
    BY <1>1, <1>4, <2>3, <2>4
  <2> QED
    BY <1>1, <1>2, <1>3, <2>1, <2>2, <2>5, ToolEndsOne
<1> QED
  BY <1>6, <1>7

LEMMA ToolEndKeepsInv ==
  ASSUME ContractInv, NEW c \in Tools, ToolEnds(c)
  PROVE  ContractInv'
<1>1. /\ Stands(c, "running") /\ Aside /\ compilers' = compilers /\ directories' = directories \ {c}
  BY DEF ToolEnds
<1>2. \/ \E outcome : Concludes(c, outcome) /\ analysed' = analysed \cup {<<c, Current(c)>>}
      \/ Concludes(c, "unsafe path") /\ analysed' = analysed
  BY DEF ToolEnds
<1>3. World /\ compilers' \in [Compilers -> Installs]
  BY <1>1, <1>2 DEF World, ContractInv
<1>4. directories' \subseteq directories \cup {c} /\ c \notin directories'
  BY <1>1
<1>5. CASE \E outcome : Concludes(c, outcome) /\ analysed' = analysed \cup {<<c, Current(c)>>}
  <2>1. PICK outcome : Concludes(c, outcome) /\ analysed' = analysed \cup {<<c, Current(c)>>}
    BY <1>5
  <2>2. PICK w, l : w \in Conclusive /\ Goes(c, "next", Others(c), <<Note(Current(c), w, l)>>)
    BY <2>1, ConcludesIs
  <2>3. <<c, Current(c)>> \in analysed'
    BY <2>1
  <2> QED
    BY <1>1, <1>3, <1>4, <2>2, <2>3, ToolEndsOne
<1>6. CASE Concludes(c, "unsafe path") /\ analysed' = analysed
  <2>1. PICK w, l : /\ w \in Conclusive /\ Goes(c, "next", Others(c), <<Note(Current(c), w, l)>>)
                    /\ w = Verdict(c, "unsafe path")
    BY <1>6, ConcludesIs
  <2>2. w # "report"
    BY <2>1 DEF Verdict, SolcVerdict, SlitherVerdict
  <2> QED
    BY <1>1, <1>3, <1>4, <2>1, <2>2, ToolEndsOne
<1> QED
  BY <1>2, <1>5, <1>6

\* Installations only go on.
LEMMA InstallsKeepInv ==
  ASSUME ContractInv, Aside, UNCHANGED <<progress, directories, analysed>>,
         compilers' \in [Compilers -> Installs], World
  PROVE  ContractInv'
<1>1. ASSUME NEW k \in ContractChecks PROVE Fits(k)'
  <2>1. Fits(k) /\ progress'[k] = progress[k] /\ (k \in directories' => k \in directories)
    BY DEF ContractInv
  <2> QED
    BY <2>1, OthersFit
<1>2. simulation' \in Simulations /\ code' \in Codings
  BY DEF ContractInv, Aside
<1>3. progress' = [c \in ContractChecks |-> progress'[c]]
  BY DEF ContractInv
<1> QED
  BY <1>1, <1>2, <1>3 DEF ContractInv, Compilers

LEMMA InstallsGoOn ==
  ASSUME ContractInv, NEW v, NEW o \in Installs, compilers[v] # "complaint",
         compilers' = [compilers EXCEPT ![v] = o], analysed' = analysed
  PROVE  compilers' \in [Compilers -> Installs] /\ World
<1>1. compilers \in [Compilers -> Installs]
  BY DEF ContractInv
<1>2. compilers' \in [Compilers -> Installs]
  BY <1>1
<1>3. ASSUME NEW c \in DOMAIN Version, compilers[Version[c]] = "complaint"
      PROVE  compilers'[Version[c]] = "complaint"
  <2>1. Version[c] \in Compilers /\ Version[c] # v
    BY <1>3 DEF Compilers
  <2> QED
    BY <1>1, <1>3, <2>1
<1> QED
  BY <1>2, <1>3 DEF World

LEMMA ContractNextKeepsInv == ContractInv /\ [ContractNext]_contractVars => ContractInv'
<1> SUFFICES ASSUME ContractInv, [ContractNext]_contractVars PROVE ContractInv'
  OBVIOUS
<1>1. ASSUME NEW c \in Tools, StartInstall(c) PROVE ContractInv'
  <2>1. PICK v : v = Version[Current(c)]
    OBVIOUS
  <2>2. /\ compilers[v] = "absent" /\ compilers' = [compilers EXCEPT ![v] = "installing"]
        /\ UNCHANGED <<progress, directories, analysed>> /\ Aside
    BY <1>1, <2>1 DEF StartInstall
  <2>3. "installing" \in Installs
    BY DEF Installs
  <2>4. compilers' \in [Compilers -> Installs] /\ World
    BY <2>2, <2>3, InstallsGoOn
  <2> QED
    BY <2>2, <2>4, InstallsKeepInv
<1>2. ASSUME NEW v, EndInstall(v) PROVE ContractInv'
  <2>1. PICK o \in {"installed", "complaint", "crash"} : compilers' = [compilers EXCEPT ![v] = o]
    BY <1>2 DEF EndInstall
  <2>2. /\ compilers[v] = "installing" /\ UNCHANGED <<progress, directories, analysed>> /\ Aside
    BY <1>2 DEF EndInstall
  <2>3. o \in Installs
    BY DEF Installs
  <2>4. compilers' \in [Compilers -> Installs] /\ World
    BY <2>1, <2>2, <2>3, InstallsGoOn
  <2> QED
    BY <2>2, <2>4, InstallsKeepInv
<1>3. CASE UNCHANGED contractVars
  <2>1. Aside /\ UNCHANGED <<progress, directories, analysed>> /\ compilers' = compilers
    BY <1>3 DEF contractVars, Aside
  <2>2. compilers' \in [Compilers -> Installs] /\ World
    BY <2>1 DEF ContractInv, World
  <2> QED
    BY <2>1, <2>2, InstallsKeepInv
<1>4. ASSUME NEW c \in ContractChecks,
             BeginCheck(c) \/ RequestThrows(c) \/ ScanCode(c) \/ EndCheck(c)
      PROVE  ContractInv'
  BY <1>4, BeginKeepsInv, ThrowKeepsInv, ScanKeepsInv, EndKeepsContractInv
<1>5. ASSUME NEW c \in Tools, GetSource(c) \/ UseCompiler(c) \/ ToolEnds(c) PROVE ContractInv'
  BY <1>5, SourceKeepsInv, UseKeepsInv, ToolEndKeepsInv
<1> QED
  BY <1>1, <1>2, <1>3, <1>4, <1>5, ResolveKeepsInv, DescribeKeepsInv, VerifyKeepsInv, CompileKeepsInv
     DEF ContractNext
-----------------------------------------------------------------------------
LEMMA ContractInvHolds == ContractSpec => []ContractInv
<1>1. ContractInit => ContractInv
  BY ContractStarts
<1>2. ContractInv /\ [ContractNext]_contractVars => ContractInv'
  BY ContractNextKeepsInv
<1> QED
  BY <1>1, <1>2, PTL DEF ContractSpec

LEMMA CodeTold == ContractInv => CodeIsTold
<1> SUFFICES ASSUME ContractInv PROVE CodeIsTold
  OBVIOUS
<1>1. ASSUME NEW c \in ContractChecks, Ended(c)
      PROVE  Fits(c) /\ progress[c].at = "ended" /\ progress[c].left = <<>>
             /\ AList(progress[c].said) /\ AList(ListOf(c))
  <2>1. Fits(c) /\ progress[c].at = "ended" /\ AList(ListOf(c))
    BY <1>1, ListsAre DEF ContractInv, Ended
  <2> QED
    BY <2>1 DEF Fits, ShapeFits
<1>2. ASSUME NEW check \in Scanners, Ended(check)
      PROVE  /\ [i \in DOMAIN progress[check].said |-> progress[check].said[i].about] = ListOf(check)
             /\ \A note \in Said(check) : TellsCode(note, code, simulation.bridges)
  <2>1. check \in ContractChecks
    BY DEF ContractChecks
  <2>2. PICK s, list : s = progress[check].said /\ list = ListOf(check)
    OBVIOUS
  <2>3. Fits(check) /\ progress[check].at = "ended" /\ progress[check].left = <<>>
        /\ AList(s) /\ AList(list)
    BY <1>1, <1>2, <2>1, <2>2
  <2>4. Follows(s, <<>>, list) /\ \A n \in 1..Len(s) : TellsCode(s[n], code, simulation.bridges)
    BY <2>2, <2>3 DEF Fits, ScanFits
  <2>5. [i \in DOMAIN s |-> s[i].about] = list
    BY <2>3, <2>4, FollowsToEnd
  <2>6. Said(check) = {s[n] : n \in 1..Len(s)}
    BY <2>2, <2>3, AListIs DEF Said, ToSet
  <2> QED
    BY <2>2, <2>4, <2>5, <2>6
<1>3. ASSUME Ended("proxies"), NEW c \in ToSet(ListOf("proxies")) \cap DOMAIN Behind,
             Published[Behind[c].implementation] = "nowhere"
      PROVE  \E note \in Said("proxies") : note.about = c /\ note.level = "warning"
  <2>1. "proxies" \in ContractChecks
    BY DEF ContractChecks
  <2>2. PICK s, list : s = progress["proxies"].said /\ list = ListOf("proxies")
    OBVIOUS
  <2>3. Fits("proxies") /\ progress["proxies"].at = "ended" /\ progress["proxies"].left = <<>>
        /\ AList(s) /\ AList(list)
    BY <1>1, <1>3, <2>1, <2>2
  <2>4. PICK k \in 1..Len(list) : c = list[k]
    BY <2>2, <2>3, AListIs DEF ToSet
  <2>5. PICK e : e = <<>>
    OBVIOUS
  <2>6. Len(e) = 0
    BY <2>5, NoneOf
  <2>7. WarnsOf(s, c)
    <3>1. ProxyFits(progress["proxies"], list)
      BY <2>2, <2>3 DEF Fits
    <3>2. progress["proxies"].left = e
      BY <2>3, <2>5
    <3> QED
      BY <1>3, <2>2, <2>3, <2>4, <2>6, <3>1, <3>2 DEF ProxyFits
  <2>8. PICK n \in 1..Len(s) : s[n].about = c /\ s[n].level = "warning"
    BY <2>7 DEF WarnsOf
  <2>9. s[n] \in Said("proxies")
    BY <2>2, <2>3, <2>8, AListIs DEF Said, ToSet
  <2> QED
    BY <2>8, <2>9
<1>4. ASSUME Ended("logs"), NEW c \in ToSet(ListOf("logs"))
      PROVE  [i \in DOMAIN ToldOf(c) |-> ToldOf(c)[i].about] = LogsOf(c)
  <2>1. "logs" \in ContractChecks
    BY DEF ContractChecks
  <2>2. PICK s, list, logs : s = progress["logs"].said /\ list = ListOf("logs") /\ logs = simulation.logs
    OBVIOUS
  <2>3. Fits("logs") /\ progress["logs"].at = "ended" /\ progress["logs"].left = <<>>
        /\ AList(s) /\ AList(list)
    BY <1>1, <1>4, <2>1, <2>2
  <2>4. PICK k \in 1..Len(list) : c = list[k]
    BY <2>2, <2>3, AListIs DEF ToSet
  <2>5. PICK e : e = <<>>
    OBVIOUS
  <2>6. Len(e) = 0
    BY <2>5, NoneOf
  <2>7. LogFits(progress["logs"], list, logs) /\ progress["logs"].left = e
    BY <2>2, <2>3, <2>5 DEF Fits
  <2>8. k <= Len(list) - 0
    BY <2>3, AListIs
  <2>9. Abouts(ToldBy(s, c)) = EmittedBy(logs, c)
    BY <2>2, <2>3, <2>4, <2>6, <2>7, <2>8 DEF LogFits
  <2>10. ToldBy(s, c) = ToldOf(c)
    BY <2>2 DEF ToldBy, ToldOf
  <2>11. EmittedBy(logs, c) = LogsOf(c)
    BY <2>2 DEF EmittedBy, LogsOf
  <2> QED
    BY <2>9, <2>10, <2>11 DEF Abouts
<1>5. ASSUME NEW tool \in Tools
      PROVE  /\ Fits(tool) /\ AList(progress[tool].said)
             /\ ToolFits(tool, progress[tool], ListOf(tool), analysed, compilers, managed, directories)
  <2>1. tool \in ContractChecks
    BY DEF ContractChecks
  <2>2. Fits(tool)
    BY <2>1 DEF ContractInv
  <2> QED
    BY <2>2 DEF Fits, ShapeFits
<1>6. ASSUME NEW tool \in Tools, Ended(tool)
      PROVE  [i \in DOMAIN Conclusions(tool) |-> Conclusions(tool)[i].about] = ListOf(tool)
  <2>1. tool \in ContractChecks
    BY DEF ContractChecks
  <2>2. PICK s, u, list : /\ s = progress[tool].said /\ u = Conclusions(tool) /\ list = ListOf(tool)
    OBVIOUS
  <2>3. u = Picked(s, Concluding(s))
    BY <2>2 DEF Conclusions, Concluding
  <2>4. progress[tool].at = "ended" /\ progress[tool].left = <<>> /\ AList(s) /\ AList(list)
    BY <1>1, <1>6, <2>1, <2>2
  <2>5. AList(u)
    BY <2>3, <2>4, ConclusionsList
  <2>6. Follows(u, <<>>, list)
    BY <1>5, <2>2, <2>3, <2>4 DEF ToolFits
  <2>7. [i \in DOMAIN u |-> u[i].about] = list
    BY <2>4, <2>5, <2>6, FollowsToEnd
  <2> QED
    BY <2>2, <2>7
<1>7. ASSUME NEW tool \in Tools, NEW note \in Said(tool), note.what = "report"
      PROVE  \/ <<tool, note.about>> \in analysed
             \/ tool = "slither" /\ managed /\ compilers[Version[note.about]] = "complaint"
  <2>1. PICK s : s = progress[tool].said
    OBVIOUS
  <2>2. Reports(tool, s, analysed, compilers, managed) /\ AList(s)
    BY <1>5, <2>1 DEF ToolFits
  <2>3. PICK n \in 1..Len(s) : note = s[n]
    BY <1>7, <2>1, <2>2, AListIs DEF Said, ToSet
  <2> QED
    BY <1>7, <2>2, <2>3 DEF Reports
<1>8. ASSUME NEW tool \in Tools, progress[tool].at # "running" PROVE tool \notin directories
  BY <1>5, <1>8 DEF ToolFits
<1>9. ASSUME NEW check \in Scanners, Ended(check)
      PROVE \A note \in Said(check) : note.about \notin Own =>
            LET bytes == code[note.about] IN
            /\ "SELFDESTRUCT" \in Executable(bytes) => note.level = "error"
            /\ note.level = "error" =>
                 \E i \in Instructions(bytes) : bytes[i] = "SELFDESTRUCT"
            /\ "DELEGATECALL" \in Executable(bytes) =>
                 \/ note.level \in {"warning", "error"}
                 \/ note.about \in simulation.bridges \cup {Placeholder}
  BY <1>2, <1>9 DEF TellsCode
<1> QED
  BY <1>2, <1>3, <1>4, <1>6, <1>7, <1>8, <1>9 DEF CodeIsTold

\* Whatever a check of code ends with, it has told of all that it had to: of every
\* contract in its turn, of code that can destroy itself or delegate, of proxies
\* with an unpublished implementation, of every event once and in order, and of
\* no report that a tool did not make.  (checks/check-targets-no-selfdestruct.ts,
\* check-proxy-resolution.ts, check-logs.ts, check-solc.ts, check-slither.ts)
THEOREM ContractCodeIsTold == ContractSpec => []CodeIsTold
<1>1. ContractInv => CodeIsTold
  BY CodeTold
<1> QED
  BY <1>1, ContractInvHolds, PTL
-----------------------------------------------------------------------------
(* CallMatching: what stands where in a concatenation of lists.            *)

\* N lists, one by one.
Listed(N, lists) ==
  N \in Nat /\ lists = [k \in 1..N |-> lists[k]] /\ \A k \in 1..N : AList(lists[k])

\* Lists put in a list are a list.
LEMMA ListedIs ==
  ASSUME NEW N, NEW lists, Listed(N, lists)
  PROVE  AList(lists) /\ Len(lists) = N
<1>1. PICK f : f = [k \in 1..N |-> lists[k]]
  OBVIOUS
<1>2. N \in Nat /\ lists = f
  BY <1>1 DEF Listed
<1>3. AList([k \in 1..N |-> lists[k]]) /\ Len([k \in 1..N |-> lists[k]]) = N
  BY <1>2, FunctionIsList
<1> QED
  BY <1>1, <1>2, <1>3

\* Nothing in front of a list leaves the list.
LEMMA BehindNothing ==
  ASSUME NEW S, NEW s \in Seq(S)
  PROVE  <<>> \o s = s
OBVIOUS

\* The concatenation grows by a list at a time.
GrowsTo(C, lists, N, e) ==
  C = e[N] /\ e[0] = <<>> /\ \A k \in 1..N : e[k] = e[k - 1] \o lists[k]

\* FlattenSeq is such a concatenation.
LEMMA FlattenedIs ==
  ASSUME NEW N, NEW lists, Listed(N, lists)
  PROVE  \E e : GrowsTo(FlattenSeq(lists), lists, N, e)
<1>0. N \in Nat /\ AList(lists) /\ Len(lists) = N /\ \A k \in 1..N : AList(lists[k])
  BY ListedIs DEF Listed
<1>1. PICK U : U = UNION {{lists[k][j] : j \in 1..Len(lists[k])} : k \in 1..N}
  OBVIOUS
<1>2. ASSUME NEW k \in 1..N PROVE lists[k] \in Seq(U)
  <2>1. PICK l, S : l = lists[k] /\ l \in Seq(S)
    BY <1>0 DEF AList
  <2>2. \A j \in 1..Len(l) : l[j] \in U
    BY <1>1, <2>1
  <2> QED
    BY <2>1, <2>2
<1>3. PICK t : t = [n \in 1..N |-> [s \in Seq(U) |-> s \o lists[n]]]
  OBVIOUS
<1>4. \A n \in 1..N : t[n] \in [Seq(U) -> Seq(U)]
  <2>1. ASSUME NEW n \in 1..N, NEW s \in Seq(U) PROVE s \o lists[n] \in Seq(U)
    BY <1>2
  <2> QED
    BY <1>3, <2>1
<1>5. <<>> \in Seq(U)
  OBVIOUS
<1>6. PICK f \in [0..N -> Seq(U)] : Loop(f, <<>>, t, N)
  BY <1>0, <1>4, <1>5, LoopExists
<1>7. f[0] = <<>> /\ \A k \in 1..N : f[k] = f[k - 1] \o lists[k]
  <2>1. ASSUME NEW k \in 1..N PROVE f[k] = f[k - 1] \o lists[k]
    <3>1. k \in 0..N /\ k # 0 /\ k - 1 \in 0..N
      BY <1>0
    <3>2. f[k] = t[k][f[k - 1]]
      BY <1>6, <3>1 DEF Loop
    <3>3. f[k - 1] \in Seq(U)
      BY <1>6, <3>1
    <3> QED
      BY <1>3, <3>2, <3>3
  <2>2. 0 \in 0..N
    BY <1>0
  <2> QED
    BY <1>6, <2>1, <2>2 DEF Loop
<1>8. CASE N = 0
  <2>1. Len(lists) = 0
    BY <1>0, <1>8
  <2>2. FlattenSeq(lists) = lists
    BY <2>1 DEF FlattenSeq
  <2>3. lists = <<>>
    BY <1>0, <2>1, AListIs
  <2> QED
    BY <1>7, <1>8, <2>2, <2>3 DEF GrowsTo
<1>9. CASE N # 0
  <2>1. PICK g : g = [k \in 1..N |-> f[k]]
    OBVIOUS
  <2>2. g = [k \in 1..N |-> IF k = 1 THEN lists[k] ELSE g[k - 1] \o lists[k]]
    <3>1. ASSUME NEW k \in 1..N
          PROVE  f[k] = IF k = 1 THEN lists[k] ELSE g[k - 1] \o lists[k]
      <4>1. CASE k = 1
        <5>1. 1 \in 1..N /\ 1 - 1 = 0
          BY <4>1
        <5>2. f[1] = f[1 - 1] \o lists[1] /\ lists[1] \in Seq(U)
          BY <1>2, <1>7, <5>1
        <5>3. f[1] = <<>> \o lists[1]
          BY <1>7, <5>1, <5>2
        <5>4. <<>> \o lists[1] = lists[1]
          BY <5>2, BehindNothing
        <5> QED
          BY <4>1, <5>3, <5>4
      <4>2. CASE k # 1
        <5>1. k - 1 \in 1..N
          BY <1>0, <4>2
        <5> QED
          BY <1>7, <2>1, <4>2, <5>1
      <4> QED
        BY <4>1, <4>2
    <3> QED
      BY <2>1, <3>1
  <2> DEFINE h == CHOOSE h : h = [i \in 1..Len(lists) |->
                                    IF i = 1 THEN lists[i] ELSE h[i - 1] \o lists[i]]
  <2>3. FlattenSeq(lists) = h[N]
    BY <1>0, <1>9 DEF FlattenSeq
  <2>4. g = [i \in 1..Len(lists) |-> IF i = 1 THEN lists[i] ELSE g[i - 1] \o lists[i]]
    BY <1>0, <2>2
  <2>5. h = [i \in 1..Len(lists) |-> IF i = 1 THEN lists[i] ELSE h[i - 1] \o lists[i]]
    BY <2>4, Zenon
  <2> HIDE DEF h
  <2>6. \A i \in 1..N : h[i] = IF i = 1 THEN lists[i] ELSE h[i - 1] \o lists[i]
    BY <1>0, <2>5
  <2>7. PICK e : e = [k \in 0..N |-> IF k = 0 THEN <<>> ELSE h[k]]
    OBVIOUS
  <2>8. e[0] = <<>> /\ e[N] = h[N] /\ \A k \in 1..N : e[k] = h[k]
    BY <1>0, <1>9, <2>7
  <2>9. ASSUME NEW k \in 1..N PROVE e[k] = e[k - 1] \o lists[k]
    <3>1. CASE k = 1
      <4>1. e[1] = lists[1] /\ lists[1] \in Seq(U)
        BY <1>2, <2>6, <2>8, <3>1
      <4>2. <<>> \o lists[1] = lists[1]
        BY <4>1, BehindNothing
      <4>3. e[k - 1] = <<>>
        BY <2>8, <3>1
      <4> QED
        BY <3>1, <4>1, <4>2, <4>3
    <3>2. CASE k # 1
      <4>1. k - 1 \in 1..N
        BY <1>0, <3>2
      <4> QED
        BY <2>6, <2>8, <3>2, <4>1
    <3> QED
      BY <3>1, <3>2
  <2> QED
    BY <2>3, <2>8, <2>9 DEF GrowsTo
<1> QED
  BY <1>8, <1>9

\* Every list is found in the concatenation behind the others, and nothing else.
StandsBehind(C, lists, N, off) ==
  /\ off[0] = 0 /\ \A k \in 1..N : off[k] = off[k - 1] + Len(lists[k])
  /\ \A k, l \in 0..N : k <= l => off[k] <= off[l]
  /\ AList(C) /\ Len(C) = off[N]
  /\ \A k \in 1..N : \A j \in 1..Len(lists[k]) : C[off[k - 1] + j] = lists[k][j]
  /\ \A m \in 1..off[N] : \E k \in 1..N : \E j \in 1..Len(lists[k]) : m = off[k - 1] + j

\* There are places at which the lists stand.
LEMMA ConcatenationHas ==
  ASSUME NEW N \in Nat, NEW lists, Listed(N, lists)
  PROVE  \E off \in [0..N -> Nat] : StandsBehind(FlattenSeq(lists), lists, N, off)
<1>0. PICK e : GrowsTo(FlattenSeq(lists), lists, N, e)
  BY FlattenedIs
<1>1. /\ FlattenSeq(lists) = e[N] /\ e[0] = <<>>
      /\ \A k \in 1..N : e[k] = e[k - 1] \o lists[k]
  BY <1>0 DEF GrowsTo
<1>2. PICK off : off = [k \in 0..N |-> Len(e[k])]
  OBVIOUS
<1>3. ASSUME NEW k \in 1..N PROVE AList(lists[k]) /\ Len(lists[k]) \in Nat
  BY AListIs DEF Listed
<1>4. \A k \in 0..N : AList(e[k])
  <2>1. PICK T : T = {k \in 0..N : AList(e[k])}
    OBVIOUS
  <2>2. 0 \in T
    BY <1>1, <2>1, NoneOf
  <2>3. ASSUME NEW k \in 1..N, k - 1 \in T PROVE k \in T
    <3>1. PICK a, b : a = e[k - 1] /\ b = lists[k]
      OBVIOUS
    <3>2. AList(a) /\ AList(b)
      BY <1>3, <2>1, <2>3, <3>1
    <3>3. AList(a \o b)
      BY <3>2, Joined
    <3>4. k \in 0..N /\ e[k] = a \o b
      <4>1. e[k] = e[k - 1] \o lists[k]
        BY <1>1
      <4>2. k \in 0..N
        OBVIOUS
      <4> QED
        BY <3>1, <4>1, <4>2, Zenon
    <3>5. AList(e[k])
      BY <3>3, <3>4
    <3> QED
      BY <2>1, <3>4, <3>5
  <2> QED
    BY <2>1, <2>2, <2>3, UpTo
<1>5. off \in [0..N -> Nat]
  BY <1>2, <1>4, AListIs
<1>6. off[0] = 0
  BY <1>1, <1>2, NoneOf
<1>7. ASSUME NEW k \in 1..N
      PROVE  /\ off[k] = off[k - 1] + Len(lists[k])
             /\ \A m \in 1..off[k - 1] : e[k][m] = e[k - 1][m]
             /\ \A j \in 1..Len(lists[k]) : e[k][off[k - 1] + j] = lists[k][j]
             /\ off[k - 1] \in Nat /\ off[k] \in Nat /\ off[k - 1] <= off[k]
  <2>1. PICK a, b : a = e[k - 1] /\ b = lists[k]
    OBVIOUS
  <2>2. k \in 0..N /\ k - 1 \in 0..N
    OBVIOUS
  <2>3. AList(a) /\ AList(b) /\ Len(a) = off[k - 1] /\ Len(b) \in Nat
    BY <1>2, <1>3, <1>4, <2>1, <2>2
  <2>4. /\ Len(a \o b) = Len(a) + Len(b) /\ \A n \in 1..Len(a) : (a \o b)[n] = a[n]
        /\ \A n \in 1..Len(b) : (a \o b)[Len(a) + n] = b[n]
    BY <2>3, Joined
  <2>5. e[k] = a \o b /\ off[k] = Len(e[k]) /\ off[k - 1] \in Nat
    BY <1>1, <1>2, <1>5, <2>1, <2>2
  <2>6. off[k] = off[k - 1] + Len(lists[k])
    BY <2>1, <2>3, <2>4, <2>5
  <2>7. \A m \in 1..off[k - 1] : e[k][m] = e[k - 1][m]
    BY <2>1, <2>3, <2>4, <2>5
  <2>8. \A j \in 1..Len(lists[k]) : e[k][off[k - 1] + j] = lists[k][j]
    BY <2>1, <2>3, <2>4, <2>5
  <2>9. off[k] \in Nat /\ off[k - 1] <= off[k]
    BY <2>1, <2>3, <2>5, <2>6
  <2> QED
    BY <2>5, <2>6, <2>7, <2>8, <2>9
<1>8. \A l \in 0..N : \A k \in 0..N : k <= l =>
        /\ off[k] <= off[l] /\ \A m \in 1..off[k] : e[l][m] = e[k][m]
  <2> DEFINE P(l) == \A k \in 0..N : k <= l =>
                       /\ off[k] <= off[l] /\ \A m \in 1..off[k] : e[l][m] = e[k][m]
  <2>1. PICK T : T = {l \in 0..N : P(l)}
    OBVIOUS
  <2>2. 0 \in T
    <3>1. ASSUME NEW k \in 0..N, k <= 0 PROVE k = 0
      BY <3>1
    <3> QED
      BY <1>5, <2>1, <3>1
  <2>3. ASSUME NEW l \in 1..N, l - 1 \in T PROVE l \in T
    <3>1. SUFFICES ASSUME NEW k \in 0..N, k <= l
                   PROVE  off[k] <= off[l] /\ \A m \in 1..off[k] : e[l][m] = e[k][m]
      BY <2>1
    <3>2. CASE k = l
      BY <1>5, <3>2
    <3>3. CASE k # l
      <4>1. k <= l - 1
        BY <3>1, <3>3
      <4>2. off[k] <= off[l - 1] /\ \A m \in 1..off[k] : e[l - 1][m] = e[k][m]
        BY <2>1, <2>3, <4>1
      <4>3. off[k] \in Nat
        BY <1>5
      <4>4. off[l - 1] <= off[l] /\ off[l - 1] \in Nat /\ off[l] \in Nat
            /\ \A m \in 1..off[l - 1] : e[l][m] = e[l - 1][m]
        BY <1>7
      <4> QED
        BY <4>2, <4>3, <4>4
    <3> QED
      BY <3>2, <3>3
  <2>4. \A l \in 0..N : l \in T
    <3> HIDE DEF P
    <3> QED
      BY <2>2, <2>3, UpTo
  <2> QED
    BY <2>1, <2>4
<1>9. ASSUME NEW k \in 1..N, NEW j \in 1..Len(lists[k]) PROVE e[N][off[k - 1] + j] = lists[k][j]
  <2>1. off[k] = off[k - 1] + Len(lists[k]) /\ off[k - 1] \in Nat
        /\ e[k][off[k - 1] + j] = lists[k][j]
    BY <1>7
  <2>2. off[k - 1] + j \in 1..off[k]
    BY <1>3, <2>1
  <2>3. k \in 0..N /\ N \in 0..N /\ k <= N
    OBVIOUS
  <2> QED
    BY <1>8, <2>1, <2>2, <2>3
<1>10. ASSUME NEW m \in 1..off[N]
       PROVE  \E k \in 1..N : \E j \in 1..Len(lists[k]) : m = off[k - 1] + j
  <2>1. PICK T : T = {k \in 0..N : m <= off[k]}
    OBVIOUS
  <2>2. N \in 0..N /\ off[N] \in Nat
    BY <1>5
  <2>3. N \in T /\ T \subseteq Nat
    BY <2>1, <2>2
  <2>4. PICK k \in T : \A l \in T : k <= l
    BY <2>3, LeastNumber
  <2>5. k # 0
    BY <1>6, <2>1, <2>4
  <2>6. k \in 1..N /\ k - 1 \in 0..N /\ ~(k <= k - 1)
    BY <2>1, <2>5
  <2>7. off[k - 1] < m /\ m <= off[k]
    <3>1. k - 1 \notin T
      BY <2>4, <2>6
    <3>2. off[k - 1] \in Nat
      BY <1>5, <2>6
    <3> QED
      BY <2>1, <2>6, <3>1, <3>2
  <2>8. off[k] = off[k - 1] + Len(lists[k]) /\ off[k - 1] \in Nat /\ Len(lists[k]) \in Nat
    BY <1>3, <1>7, <2>6
  <2>9. m - off[k - 1] \in 1..Len(lists[k]) /\ m = off[k - 1] + (m - off[k - 1])
    BY <2>7, <2>8
  <2> QED
    BY <2>6, <2>9
<1>11. N \in 0..N /\ AList(e[N]) /\ Len(e[N]) = off[N]
  BY <1>2, <1>4
<1>12. \A k \in 1..N : off[k] = off[k - 1] + Len(lists[k])
  BY <1>7
<1>13. \A k, l \in 0..N : k <= l => off[k] <= off[l]
  BY <1>8
<1>14. PICK C : C = FlattenSeq(lists)
  OBVIOUS
<1>15. C = e[N]
  BY <1>1, <1>14
<1>16. /\ AList(C) /\ Len(C) = off[N]
       /\ \A k \in 1..N : \A j \in 1..Len(lists[k]) : C[off[k - 1] + j] = lists[k][j]
  BY <1>9, <1>11, <1>15
<1>17. StandsBehind(C, lists, N, off)
  BY <1>6, <1>10, <1>12, <1>13, <1>16 DEF StandsBehind
<1> QED
  BY <1>5, <1>14, <1>17

\* Places that rise are met in their order.
LEMMA RisingPlaces ==
  ASSUME NEW N \in Nat, NEW p \in [1..N -> Nat], \A j, k \in 1..N : j < k => p[j] < p[k],
         NEW S, S = {p[k] : k \in 1..N}
  PROVE  /\ S \subseteq Nat /\ IsFiniteSet(S) /\ Cardinality(S) = N
         /\ \A k \in 1..N : Place(S, k) = p[k]
<1>1. \A j, k \in 1..N : p[j] = p[k] => j = k
  <2>1. ASSUME NEW j \in 1..N, NEW k \in 1..N, p[j] = p[k] PROVE ~(j < k) /\ ~(k < j)
    <3>1. p[j] \in Nat /\ p[k] \in Nat
      OBVIOUS
    <3> QED
      BY <2>1, <3>1
  <2> QED
    BY <2>1
<1>2. ASSUME NEW n \in 0..N
      PROVE  IsFiniteSet({p[k] : k \in 1..n}) /\ Cardinality({p[k] : k \in 1..n}) = n
  <2>1. PICK R, g : R = {p[k] : k \in 1..n} /\ g = [k \in 1..n |-> p[k]]
    OBVIOUS
  <2>2. g \in Bijection(1..n, R)
    BY <1>1, <2>1 DEF Bijection, Injection, Surjection, IsInjective
  <2>3. IsFiniteSet(1..n) /\ Cardinality(1..n) = n
    <3>1. Cardinality(1..n) = IF 1 > n THEN 0 ELSE n - 1 + 1
      BY FS_Interval
    <3> QED
      BY <3>1, FS_Interval
  <2>4. ExistsBijection(1..n, R)
    BY <2>2 DEF ExistsBijection
  <2> QED
    BY <2>1, <2>3, <2>4, FS_Bijection
<1>3. S \subseteq Nat /\ IsFiniteSet(S) /\ Cardinality(S) = N
  <2>1. N \in 0..N
    OBVIOUS
  <2> QED
    BY <1>2, <2>1
<1>4. ASSUME NEW k \in 1..N PROVE Place(S, k) = p[k]
  <2>1. Below(S, p[k]) = {p[j] : j \in 1..(k - 1)}
    <3>1. ASSUME NEW j \in 1..N PROVE p[j] < p[k] <=> j < k
      <4>1. p[j] \in Nat /\ p[k] \in Nat
        OBVIOUS
      <4>2. j < k \/ j = k \/ k < j
        OBVIOUS
      <4> QED
        BY <4>1, <4>2
    <3>2. ASSUME NEW m \in Below(S, p[k]) PROVE m \in {p[j] : j \in 1..(k - 1)}
      <4>1. PICK j \in 1..N : m = p[j] /\ p[j] < p[k]
        BY DEF Below
      <4>2. j \in 1..(k - 1)
        BY <3>1, <4>1
      <4> QED
        BY <4>1, <4>2
    <3>3. ASSUME NEW j \in 1..(k - 1) PROVE p[j] \in Below(S, p[k])
      <4>1. j \in 1..N /\ j < k
        OBVIOUS
      <4> QED
        BY <3>1, <4>1 DEF Below
    <3> QED
      BY <3>2, <3>3
  <2>2. k - 1 \in 0..N /\ k \in Int /\ p[k] \in S
    OBVIOUS
  <2>3. Cardinality(Below(S, p[k])) = k - 1
    BY <1>2, <2>1, <2>2
  <2>4. p[k] = Nth(S, k)
    BY <1>3, <2>2, <2>3, Nths
  <2> QED
    BY <2>4 DEF Place, Nth, Below
<1> QED
  BY <1>3, <1>4
-----------------------------------------------------------------------------
(* CallMatching: a trace holds each executed action once, in their order.  *)

\* The call that executes an action.
CallFor(i) ==
  [from |-> Timelock, to |-> actions[i].target, input |-> actions[i].data,
   value |-> actions[i].value]

\* The timelock's calls are those of the first actions, in their order.
TraceFits ==
  /\ AList(trace)
  /\ \E n \in 0..Len(actions) : \E p \in [1..n -> 1..Len(trace)] :
       /\ \A j, k \in 1..n : j < k => p[j] < p[k]
       /\ \A k \in 1..n : trace[p[k]] = CallFor(k)
       /\ \A m \in 1..Len(trace) : trace[m].from = Timelock => \E k \in 1..n : m = p[k]

\* What an action's call makes in turn is not the timelock's.
LEMMA InnerIsAList ==
  ASSUME NEW inner \in Inner
  PROVE  AList(inner) /\ \A j \in 1..Len(inner) : inner[j].from # Timelock
<1>1. PICK R : R = [from : STRING \ {Timelock}, to : STRING, input : DOMAIN SelectorOf, value : Nat]
  OBVIOUS
<1>2. inner \in Seq(R)
  BY <1>1, CallAssumption
<1>3. \A j \in 1..Len(inner) : inner[j] \in R
  BY <1>2
<1> QED
  BY <1>1, <1>2, <1>3 DEF AList

\* Any execution that the check may start from has such a trace.
LEMMA TraceStarts ==
  ASSUME CallInit
  PROVE  TraceFits /\ AList(actions)
<1>1. AList(actions)
  BY CallAssumption DEF CallInit, AList
<1>2. Len(actions) \in Nat
  BY <1>1, AListIs
<1>3. PICK n \in 0..Len(actions) : \E inner \in [1..n -> Inner] : trace = TraceOf(actions, n, inner)
  BY DEF CallInit
<1>4. PICK inner \in [1..n -> Inner] : trace = TraceOf(actions, n, inner)
  BY <1>3
<1>5. PICK lists : lists = [i \in 1..n |-> <<CallFor(i)>> \o inner[i]]
  OBVIOUS
<1>6. trace = FlattenSeq(lists)
  BY <1>4, <1>5 DEF TraceOf, CallFor
<1>7. ASSUME NEW k \in 1..n
      PROVE  /\ AList(lists[k]) /\ Len(lists[k]) \in Nat \ {0} /\ lists[k][1] = CallFor(k)
             /\ \A j \in 2..Len(lists[k]) : lists[k][j].from # Timelock
  <2>1. PICK a, b : a = <<CallFor(k)>> /\ b = inner[k]
    OBVIOUS
  <2>2. AList(a) /\ Len(a) = 1 /\ a[1] = CallFor(k)
    BY <2>1, OneOf
  <2>3. b \in Inner
    BY <2>1
  <2>4. AList(b) /\ \A j \in 1..Len(b) : b[j].from # Timelock
    BY <2>3, InnerIsAList
  <2>5. Len(b) \in Nat
    BY <2>4, AListIs
  <2>6. /\ AList(a \o b) /\ Len(a \o b) = Len(a) + Len(b)
        /\ \A j \in 1..Len(a) : (a \o b)[j] = a[j]
        /\ \A j \in 1..Len(b) : (a \o b)[Len(a) + j] = b[j]
    <3>1. AList(a) /\ AList(b)
      BY <2>2, <2>4
    <3> QED
      BY <3>1, Joined
  <2>7. PICK l : l = lists[k] /\ l = a \o b
    BY <1>5, <2>1
  <2>8. Len(l) = 1 + Len(b) /\ l[1] = CallFor(k) /\ \A j \in 1..Len(b) : l[1 + j] = b[j]
    <3>1. 1 \in 1..Len(a)
      BY <2>2
    <3> QED
      BY <2>2, <2>6, <2>7, <3>1
  <2>9. ASSUME NEW j \in 2..Len(l) PROVE l[j].from # Timelock
    <3>1. j - 1 \in 1..Len(b) /\ 1 + (j - 1) = j
      BY <2>5, <2>8
    <3> QED
      BY <2>4, <2>8, <3>1
  <2> QED
    BY <2>5, <2>6, <2>7, <2>8, <2>9
<1>8. n \in Nat
  OBVIOUS
<1>9. PICK off \in [0..n -> Nat] : StandsBehind(trace, lists, n, off)
  <2>1. \A k \in 1..n : AList(lists[k])
    BY <1>7
  <2>2. Listed(n, lists)
    BY <1>5, <1>8, <2>1 DEF Listed
  <2>3. \E off \in [0..n -> Nat] : StandsBehind(FlattenSeq(lists), lists, n, off)
    BY <1>8, <2>2, ConcatenationHas
  <2> QED
    BY <1>6, <2>3
<1>10. PICK p : p = [k \in 1..n |-> off[k - 1] + 1]
  OBVIOUS
<1>11. ASSUME NEW k \in 1..n
       PROVE  /\ p[k] = off[k - 1] + 1 /\ off[k - 1] \in Nat /\ off[k] \in Nat
              /\ p[k] <= off[k] /\ off[k] <= off[n] /\ off[n] \in Nat
              /\ trace[p[k]] = CallFor(k)
  <2>1. k - 1 \in 0..n /\ k \in 0..n /\ n \in 0..n /\ k <= n
    OBVIOUS
  <2>2. off[k - 1] \in Nat /\ off[k] \in Nat /\ off[n] \in Nat /\ off[k] <= off[n]
    BY <1>9, <2>1 DEF StandsBehind
  <2>3. off[k] = off[k - 1] + Len(lists[k]) /\ Len(lists[k]) \in Nat \ {0}
    BY <1>7, <1>9 DEF StandsBehind
  <2>4. 1 \in 1..Len(lists[k])
    BY <2>3
  <2>5. trace[off[k - 1] + 1] = lists[k][1]
    BY <1>9, <2>4 DEF StandsBehind
  <2>6. p[k] = off[k - 1] + 1
    BY <1>10
  <2> QED
    BY <1>7, <2>2, <2>3, <2>5, <2>6
<1>12. p \in [1..n -> 1..Len(trace)]
  <2>1. \A k \in 1..n : p[k] \in 1..Len(trace)
    <3>1. Len(trace) = off[n]
      BY <1>9 DEF StandsBehind
    <3>2. ASSUME NEW k \in 1..n PROVE p[k] \in 1..off[n]
      BY <1>11
    <3> QED
      BY <3>1, <3>2
  <2> QED
    BY <1>10, <2>1
<1>13. ASSUME NEW j \in 1..n, NEW k \in 1..n, j < k PROVE p[j] < p[k]
  <2>1. j \in 0..n /\ k - 1 \in 0..n /\ j <= k - 1
    BY <1>13
  <2>2. off[j] <= off[k - 1]
    BY <1>9, <2>1 DEF StandsBehind
  <2> QED
    BY <1>11, <2>2
<1>14. ASSUME NEW m \in 1..Len(trace), trace[m].from = Timelock PROVE \E k \in 1..n : m = p[k]
  <2>1. PICK k \in 1..n : \E j \in 1..Len(lists[k]) : m = off[k - 1] + j
    BY <1>9 DEF StandsBehind
  <2>2. PICK j \in 1..Len(lists[k]) : m = off[k - 1] + j
    BY <2>1
  <2>3. trace[m] = lists[k][j]
    BY <1>9, <2>2 DEF StandsBehind
  <2>4. j \notin 2..Len(lists[k])
    BY <1>7, <1>14, <2>3
  <2>5. j = 1
    BY <1>7, <2>4
  <2> QED
    BY <1>11, <2>2, <2>5
<1>15. \A k \in 1..n : trace[p[k]] = CallFor(k)
  BY <1>11
<1>16. AList(trace)
  BY <1>9 DEF StandsBehind
<1> QED
  BY <1>1, <1>12, <1>13, <1>14, <1>15, <1>16 DEF TraceFits
-----------------------------------------------------------------------------
(* A strict match.                                                         *)

\* Rising places, and a set that the places of some numbers make.
Rising(n, p) == n \in Nat /\ p \in [1..n -> Nat] /\ \A j, k \in 1..n : j < k => p[j] < p[k]
MadeOf(S, J, n, p) == J \subseteq 1..n /\ (\A j \in J : p[j] \in S) /\ \A m \in S : \E j \in J : m = p[j]

\* A number has the rank of its place.
LEMMA RanksOfSome ==
  ASSUME NEW n, NEW p, Rising(n, p), NEW J, NEW S, MadeOf(S, J, n, p), NEW k \in J
  PROVE  Cardinality(Below(S, p[k])) = Cardinality(Below(J, k))
<1> USE DEF Rising, MadeOf
<1>1. PICK A, B, g : /\ A = Below(J, k) /\ B = Below(S, p[k]) /\ g = [j \in A |-> p[j]]
  OBVIOUS
<1>2. A \subseteq 1..n
  BY <1>1 DEF Below
<1>3. ASSUME NEW j \in 1..n, NEW l \in 1..n PROVE (p[j] < p[l] <=> j < l) /\ (p[j] = p[l] => j = l)
  <2>1. p[j] \in Nat /\ p[l] \in Nat
    OBVIOUS
  <2>2. j < l \/ j = l \/ l < j
    OBVIOUS
  <2> QED
    BY <2>1, <2>2
<1>4. \A j \in A : g[j] = p[j] /\ p[j] \in B
  <2>1. ASSUME NEW j \in A PROVE p[j] \in B
    <3>1. j \in J /\ j < k /\ j \in 1..n /\ k \in 1..n
      BY <1>1 DEF Below
    <3>2. p[j] < p[k]
      BY <1>3, <3>1
    <3> QED
      BY <1>1, <3>1, <3>2 DEF Below
  <2> QED
    BY <1>1, <2>1
<1>5. \A b \in B : \E j \in A : g[j] = b
  <2>1. ASSUME NEW b \in B PROVE \E j \in A : g[j] = b
    <3>1. PICK j \in J : b = p[j] /\ p[j] < p[k]
      BY <1>1 DEF Below
    <3>2. j < k
      BY <1>3, <3>1
    <3>3. j \in A
      BY <1>1, <3>1, <3>2 DEF Below
    <3> QED
      BY <1>4, <3>1, <3>3
  <2> QED
    BY <2>1
<1>6. \A j, l \in A : g[j] = g[l] => j = l
  BY <1>2, <1>3, <1>4
<1>7. g \in [A -> B]
  BY <1>1, <1>4
<1>8. g \in Bijection(A, B)
  BY <1>5, <1>6, <1>7 DEF Bijection, Injection, Surjection, IsInjective
<1>9. IsFiniteSet(A)
  <2>1. IsFiniteSet(1..n)
    BY FS_Interval
  <2> QED
    BY <1>2, <2>1, FS_Subset
<1>10. ExistsBijection(A, B)
  BY <1>8 DEF ExistsBijection
<1>11. Cardinality(A) = Cardinality(B)
  BY <1>9, <1>10, FS_Bijection
<1> QED
  BY <1>1, <1>11

\* A call that is found at a rank has that rank.
LEMMA CallAtIs ==
  ASSUME NEW S, S \subseteq Nat, IsFiniteSet(S), NEW n, CallAt(S, n) # <<>>
  PROVE  /\ n \in 1..Cardinality(S) /\ Place(S, n) \in S
         /\ Cardinality(Below(S, Place(S, n))) = n - 1 /\ CallAt(S, n) = <<trace[Place(S, n)]>>
<1>1. n \in 1..Cardinality(S) /\ CallAt(S, n) = <<trace[Place(S, n)]>>
  BY DEF CallAt
<1>2. Place(S, n) = Nth(S, n)
  BY DEF Place, Nth, Below
<1> QED
  BY <1>1, <1>2, Nths

\* Numbers of the same rank are the same.
LEMMA SameRank ==
  ASSUME NEW S, S \subseteq Nat, IsFiniteSet(S), NEW j \in S, NEW k \in S,
         Cardinality(Below(S, j)) = Cardinality(Below(S, k))
  PROVE  j = k
<1>1. PICK a, b : a = Cardinality(Below(S, j)) /\ b = Cardinality(Below(S, k))
  OBVIOUS
<1>2. a \in Int /\ a = b
  <2>1. a \in 0..(Cardinality(S) - 1)
    BY <1>1, BelowIsSmall
  <2> QED
    BY <1>1, <2>1
<1>3. ~(j < k)
  <2>1. j < k => a < b
    BY <1>1, BelowRises
  <2> QED
    BY <1>2, <2>1
<1>4. ~(k < j)
  <2>1. k < j => b < a
    BY <1>1, BelowRises
  <2> QED
    BY <1>2, <2>1
<1>5. j \in Nat /\ k \in Nat
  OBVIOUS
<1> QED
  BY <1>3, <1>4, <1>5

\* What is found is found by one of the searches.
LEMMA FoundBySearch ==
  ASSUME NEW s, FirstFound(s) # <<>>
  PROVE  \E k \in 1..5 : s[k][2] # <<>> /\ FirstFound(s) = <<s[k][1], s[k][2][1]>>
<1>1. PICK F, k : F = {n \in 1..5 : s[n][2] # <<>>} /\ k = Place(F, 1)
  OBVIOUS
<1>2. F # {} /\ FirstFound(s) = <<s[k][1], s[k][2][1]>>
  BY <1>1 DEF FirstFound
<1>3. F \subseteq Nat /\ IsFiniteSet(F)
  <2>1. PICK z \in Int : z = 5
    OBVIOUS
  <2>2. F \subseteq 1..5 /\ F \subseteq Nat
    BY <1>1
  <2>3. IsFiniteSet(1..z)
    BY FS_Interval
  <2> QED
    BY <2>1, <2>2, <2>3, FS_Subset
<1>4. 1 \in 1..Cardinality(F)
  <2>1. Cardinality(F) \in Nat /\ Cardinality(F) # 0
    BY <1>2, <1>3, FS_CardinalityType, FS_EmptySet
  <2> QED
    BY <2>1
<1>5. k \in F
  <2>1. k = Nth(F, 1)
    BY <1>1 DEF Place, Nth, Below
  <2> QED
    BY <1>3, <1>4, <2>1, Nths
<1> QED
  BY <1>1, <1>2, <1>5

\* A strict match is the call that the action has made itself.
LEMMA StrictIsOwn ==
  ASSUME TraceFits, AList(actions), NEW i \in 1..Len(actions),
         Match(i) # <<>>, Match(i)[1] = "strict"
  PROVE  Match(i)[2] = CallFor(i) /\ \E m \in 1..Len(trace) : trace[m] = CallFor(i)
<1>1. PICK n \in 0..Len(actions) : \E p \in [1..n -> 1..Len(trace)] :
        /\ \A j, k \in 1..n : j < k => p[j] < p[k]
        /\ \A k \in 1..n : trace[p[k]] = CallFor(k)
        /\ \A m \in 1..Len(trace) : trace[m].from = Timelock => \E k \in 1..n : m = p[k]
  BY DEF TraceFits
<1>2. PICK p \in [1..n -> 1..Len(trace)] :
        /\ \A j, k \in 1..n : j < k => p[j] < p[k]
        /\ \A k \in 1..n : trace[p[k]] = CallFor(k)
        /\ \A m \in 1..Len(trace) : trace[m].from = Timelock => \E k \in 1..n : m = p[k]
  BY <1>1
<1>3. AList(trace) /\ Len(trace) \in Nat /\ DOMAIN trace = 1..Len(trace) /\ Len(actions) \in Nat
  BY AListIs DEF TraceFits
<1>4. PICK S : S = {m \in DOMAIN trace : trace[m].from = Timelock}
                     \cap {m \in DOMAIN trace : trace[m].to = actions[i].target}
                     \cap {m \in DOMAIN trace :
                             Selector(trace[m].input) = Selector(actions[i].data)}
  OBVIOUS
<1>5. PICK own : own = CallAt(S, Ordinal(i))
  OBVIOUS
<1>6. own # <<>> /\ own[1].input = actions[i].data /\ Match(i)[2] = own[1]
  <2>1. PICK s : s = Searches(i)
    OBVIOUS
  <2>2. PICK k \in 1..5 : s[k][2] # <<>> /\ Match(i) = <<s[k][1], s[k][2][1]>>
    BY <2>1, FoundBySearch DEF Match
  <2>3. /\ s[1] = <<"strict", IF own # <<>> /\ own[1].input = actions[i].data THEN own ELSE <<>>>>
        /\ s[2][1] # "strict" /\ s[3][1] # "strict" /\ s[4][1] # "strict" /\ s[5][1] # "strict"
    BY <1>4, <1>5, <2>1 DEF Searches
  <2>4. s[k][1] = "strict" /\ Match(i)[2] = s[k][2][1]
    BY <2>2
  <2>5. k = 1
    BY <2>3, <2>4
  <2>6. s[1][2] # <<>> /\ s[1][2] = IF own # <<>> /\ own[1].input = actions[i].data THEN own ELSE <<>>
    BY <2>2, <2>3, <2>5
  <2> QED
    BY <2>4, <2>5, <2>6
<1>7. PICK K : K = {k \in 1..Len(actions) : /\ actions[k].target = actions[i].target
                                           /\ Selector(actions[k].data) = Selector(actions[i].data)}
  OBVIOUS
<1>8. K \subseteq Nat /\ IsFiniteSet(K) /\ i \in K
  <2>1. K \subseteq 1..Len(actions) /\ IsFiniteSet(1..Len(actions))
    BY <1>3, <1>7, FS_Interval
  <2> QED
    BY <1>7, <2>1, FS_Subset
<1>9. Ordinal(i) - 1 = Cardinality(Below(K, i)) /\ Ordinal(i) \in Nat
  <2>1. PICK O, B : /\ O = {k \in 1..i : /\ actions[k].target = actions[i].target
                                        /\ Selector(actions[k].data) = Selector(actions[i].data)}
                    /\ B = Below(K, i)
    OBVIOUS
  <2>2. O = B \cup {i} /\ i \notin B
    BY <1>3, <1>7, <2>1 DEF Below
  <2>3. IsFiniteSet(B)
    <3>1. B \subseteq K
      BY <2>1 DEF Below
    <3> QED
      BY <1>8, <3>1, FS_Subset
  <2>4. Cardinality(O) = Cardinality(B) + 1 /\ Cardinality(B) \in Nat
    BY <2>2, <2>3, FS_AddElement, FS_CardinalityType
  <2>5. Ordinal(i) = Cardinality(O)
    BY <2>1 DEF Ordinal
  <2>6. PICK o, b : o = Ordinal(i) /\ b = Cardinality(B)
    OBVIOUS
  <2>7. o = b + 1 /\ b \in Nat
    BY <2>4, <2>5, <2>6
  <2>8. o - 1 = b /\ o \in Nat
    BY <2>7
  <2> QED
    BY <2>1, <2>6, <2>8
<1>10. PICK J : J = {k \in K : k <= n}
  OBVIOUS
<1>11. S = {p[k] : k \in J}
  <2>1. ASSUME NEW m \in S PROVE m \in {p[k] : k \in J}
    <3>1. /\ m \in 1..Len(trace) /\ trace[m].from = Timelock /\ trace[m].to = actions[i].target
          /\ Selector(trace[m].input) = Selector(actions[i].data)
      BY <1>3, <1>4
    <3>2. PICK k \in 1..n : m = p[k]
      BY <1>2, <3>1
    <3>3. trace[m] = CallFor(k)
      BY <1>2, <3>2
    <3>4. actions[k].target = actions[i].target /\ Selector(actions[k].data) = Selector(actions[i].data)
      BY <3>1, <3>3 DEF CallFor
    <3>5. k \in 1..Len(actions) /\ k <= n
      BY <1>3
    <3> QED
      BY <1>7, <1>10, <3>2, <3>4, <3>5
  <2>2. ASSUME NEW k \in J PROVE p[k] \in S
    <3>1. k \in 1..n /\ actions[k].target = actions[i].target
          /\ Selector(actions[k].data) = Selector(actions[i].data)
      BY <1>3, <1>7, <1>10
    <3>2. trace[p[k]] = CallFor(k) /\ p[k] \in DOMAIN trace
      BY <1>2, <1>3, <3>1
    <3> QED
      BY <1>4, <3>1, <3>2 DEF CallFor
  <2> QED
    BY <2>1, <2>2
<1>12. S \subseteq Nat /\ IsFiniteSet(S)
  <2>1. S \subseteq 1..Len(trace) /\ S \subseteq Nat
    BY <1>3, <1>4
  <2>2. IsFiniteSet(1..Len(trace))
    BY <1>3, FS_Interval
  <2> QED
    BY <2>1, <2>2, FS_Subset
<1>13. PICK m : m = Place(S, Ordinal(i))
  OBVIOUS
<1>14. m \in S /\ Cardinality(Below(S, m)) = Ordinal(i) - 1 /\ own = <<trace[m]>>
  <2>1. PICK o : o = Ordinal(i)
    OBVIOUS
  <2>2. CallAt(S, o) # <<>>
    BY <1>5, <1>6, <2>1
  <2> QED
    BY <1>5, <1>12, <1>13, <2>1, <2>2, CallAtIs
<1>15. PICK k \in J : m = p[k]
  BY <1>11, <1>14
<1>16. k \in K /\ k \in 1..n /\ J \subseteq 1..n
  BY <1>3, <1>7, <1>10
<1>17. Cardinality(Below(S, p[k])) = Cardinality(Below(J, k))
  <2>1. n \in Nat /\ p \in [1..n -> Nat]
    BY <1>3
  <2>2. \A j, l \in 1..n : j < l => p[j] < p[l]
    BY <1>2
  <2>3. J \subseteq 1..n /\ k \in J /\ MadeOf(S, J, n, p)
    BY <1>11, <1>16 DEF MadeOf
  <2>4. Rising(n, p)
    BY <2>1, <2>2 DEF Rising
  <2> QED
    BY <2>3, <2>4, RanksOfSome
<1>18. Below(J, k) = Below(K, k)
  <2>1. \A j \in K : j < k => j <= n
    <3>1. k <= n /\ k \in Nat /\ n \in Nat
      BY <1>3, <1>16
    <3> QED
      BY <1>8, <3>1
  <2> QED
    BY <1>10, <2>1 DEF Below
<1>19. k = i
  <2>1. Cardinality(Below(K, k)) = Cardinality(Below(K, i))
    BY <1>9, <1>14, <1>15, <1>17, <1>18
  <2> QED
    BY <1>8, <1>16, <2>1, SameRank
<1>20. trace[m] = CallFor(i) /\ m \in 1..Len(trace)
  BY <1>2, <1>15, <1>16, <1>19
<1> QED
  BY <1>6, <1>14, <1>20
-----------------------------------------------------------------------------
(* What the list of descriptions says.                                     *)

\* An item that has been described as it should be.
Told(i, match, call, telling, warned, advised) ==
  /\ telling = [item |-> i, call |-> call, source |-> telling.source]
  /\ AList(warned) /\ AList(advised)
  /\ \/ \E x : advised = <<[item |-> i, advisory |-> x]>>
     \/ /\ advised = <<>>
        /\ \/ match # <<>> /\ match[1] = "strict"
           \/ match = <<>> /\ (EthTransfer(call) \/ \E m \in 1..Len(warned) : warned[m].item = i)

\* The line before an entry is an advisory for its item.
Advised(listing, i, n) == n > 1 /\ IsAdvisory(listing[n - 1]) /\ listing[n - 1].item = i

\* What stands in the list for an item: its advisory, if any, and its description.
Entry(i, d, a, l) ==
  /\ AList(l) /\ Len(l) \in {1, 2} /\ l[Len(l)] = d /\ ~IsAdvisory(d)
  /\ (Len(l) = 1 => a = <<>>)
  /\ (Len(l) = 2 => IsAdvisory(l[1]) /\ l[1].item = i)

\* An item that is told has such an entry.
LEMMA EntryIs ==
  ASSUME NEW i, NEW match, NEW call, NEW d, NEW warned, NEW a, Told(i, match, call, d, warned, a)
  PROVE  Entry(i, d, a, a \o <<d>>)
<1>0. PICK l : l = a \o <<d>>
  OBVIOUS
<1>1. d = [item |-> i, call |-> call, source |-> d.source] /\ AList(a)
  BY DEF Told
<1>2. ~IsAdvisory(d)
  <2>1. DOMAIN d = {"item", "call", "source"}
    BY <1>1 DEF Entry
  <2> QED
    BY <2>1 DEF IsAdvisory
<1>3. PICK o : o = <<d>>
  OBVIOUS
<1>4. AList(o) /\ Len(o) = 1 /\ o[1] = d
  BY <1>3, OneOf
<1>5. AList(l) /\ Len(l) = Len(a) + 1 /\ (\A n \in 1..Len(a) : l[n] = a[n]) /\ l[Len(a) + 1] = d
  <2>1. AList(a) /\ AList(o)
    BY <1>1, <1>4
  <2>0. l = a \o o
    BY <1>0, <1>3
  <2>2. /\ AList(l) /\ Len(l) = Len(a) + Len(o) /\ \A n \in 1..Len(a) : l[n] = a[n]
        /\ \A n \in 1..Len(o) : l[Len(a) + n] = o[n]
    BY <2>0, <2>1, Joined
  <2>3. 1 \in 1..Len(o)
    BY <1>4
  <2> QED
    BY <1>4, <2>2, <2>3
<1>6. CASE \E x : a = <<[item |-> i, advisory |-> x]>>
  <2>1. PICK x : a = <<[item |-> i, advisory |-> x]>>
    BY <1>6
  <2>2. PICK e : e = [item |-> i, advisory |-> x]
    OBVIOUS
  <2>3. Len(a) = 1 /\ a[1] = e
    BY <2>1, <2>2, OneOf
  <2>4. IsAdvisory(e) /\ e.item = i
    BY <2>2 DEF IsAdvisory
  <2>5. 1 \in 1..Len(a)
    BY <2>3
  <2>6. l[1] = e /\ l[2] = d /\ Len(l) = 2
    BY <1>5, <2>3, <2>5
  <2> QED
    BY <1>0, <1>2, <1>5, <2>3, <2>4, <2>6 DEF Entry
<1>7. CASE a = <<>>
  <2>1. Len(a) = 0
    BY <1>7
  <2> QED
    BY <1>0, <1>2, <1>5, <1>7, <2>1 DEF Entry
<1> QED
  BY <1>6, <1>7 DEF Told

\* The list of N items, and what a reader finds in it.
AllTold(N, match, call, d, warned, a) ==
  \A i \in 1..N : Told(i, match[i], call[i], d[i], warned[i], a[i])
DescribedList(N, d, a) == FlattenSeq([i \in 1..N |-> a[i] \o <<d[i]>>])
Unadvisory(listing) == {n \in DOMAIN listing : ~IsAdvisory(listing[n])}
Reads(N, d, a, listing) ==
  /\ Cardinality(Unadvisory(listing)) = N
  /\ \A i \in 1..N : listing[Place(Unadvisory(listing), i)] = d[i]
  /\ \A n \in DOMAIN listing : ~IsAdvisory(listing[n]) =>
       \E i \in 1..N : listing[n] = d[i] /\ (a[i] = <<>> \/ Advised(listing, i, n))

\* One description for each item, in their order, each behind its advisory.
LEMMA ListTells ==
  ASSUME NEW N \in Nat, NEW match, NEW call, NEW d, NEW warned, NEW a,
         AllTold(N, match, call, d, warned, a)
  PROVE  Reads(N, d, a, DescribedList(N, d, a))
<1>a. PICK lists : lists = [i \in 1..N |-> a[i] \o <<d[i]>>]
  OBVIOUS
<1>b. PICK listing : listing = FlattenSeq(lists)
  OBVIOUS
<1>c. PICK S : S = {n \in DOMAIN listing : ~IsAdvisory(listing[n])}
  OBVIOUS
<1>1. ASSUME NEW i \in 1..N
      PROVE  Entry(i, d[i], a[i], lists[i])
  <2>1. Told(i, match[i], call[i], d[i], warned[i], a[i])
    BY DEF AllTold
  <2>2. lists[i] = a[i] \o <<d[i]>>
    BY <1>a
  <2>3. Entry(i, d[i], a[i], a[i] \o <<d[i]>>)
    BY <2>1, EntryIs, Zenon
  <2> QED
    BY <2>2, <2>3
<1>2. PICK off \in [0..N -> Nat] : StandsBehind(listing, lists, N, off)
  <2>1. \A k \in 1..N : AList(lists[k])
    BY <1>1 DEF Entry
  <2> QED
    <3>1. Listed(N, lists)
      BY <1>a, <2>1 DEF Listed
    <3>2. \E off \in [0..N -> Nat] : StandsBehind(FlattenSeq(lists), lists, N, off)
      BY <3>1, ConcatenationHas
    <3> QED
      BY <1>b, <3>2
<1>3. PICK p : p = [i \in 1..N |-> off[i]]
  OBVIOUS
<1>4. ASSUME NEW i \in 1..N
      PROVE  /\ off[i] = off[i - 1] + Len(lists[i]) /\ off[i - 1] \in Nat /\ off[i] \in Nat
             /\ off[i] \in 1..off[N] /\ listing[off[i]] = d[i]
  <2>1. i - 1 \in 0..N /\ i \in 0..N /\ N \in 0..N /\ i <= N
    OBVIOUS
  <2>2. off[i - 1] \in Nat /\ off[i] \in Nat /\ off[N] \in Nat
    BY <2>1
  <2>3. off[i] = off[i - 1] + Len(lists[i]) /\ off[i] <= off[N]
    BY <1>2, <2>1 DEF StandsBehind
  <2>4. Len(lists[i]) \in {1, 2}
    BY <1>1 DEF Entry
  <2>5. Len(lists[i]) \in 1..Len(lists[i])
    <3>1. PICK L : L = Len(lists[i])
      OBVIOUS
    <3>2. L \in {1, 2}
      BY <2>4, <3>1
    <3>3. L \in 1..L
      BY <3>2
    <3> QED
      BY <3>1, <3>3
  <2>6. listing[off[i - 1] + Len(lists[i])] = lists[i][Len(lists[i])]
    BY <1>2, <2>5 DEF StandsBehind
  <2>7. off[i] \in 1..off[N]
    BY <2>2, <2>3, <2>4
  <2> QED
    BY <1>1, <2>2, <2>3, <2>6, <2>7 DEF Entry
<1>5. AList(listing) /\ Len(listing) = off[N] /\ DOMAIN listing = 1..off[N]
  BY <1>2, AListIs DEF StandsBehind
<1>6. ASSUME NEW n \in DOMAIN listing, ~IsAdvisory(listing[n])
      PROVE  \E i \in 1..N : n = off[i]
  <2>1. PICK i \in 1..N : \E j \in 1..Len(lists[i]) : n = off[i - 1] + j
    <3>1. n \in 1..off[N]
      BY <1>5
    <3>2. \A m \in 1..off[N] : \E k \in 1..N : \E j \in 1..Len(lists[k]) : m = off[k - 1] + j
      BY <1>2 DEF StandsBehind
    <3> QED
      BY <3>1, <3>2, Zenon
  <2>2. PICK j \in 1..Len(lists[i]) : n = off[i - 1] + j
    BY <2>1
  <2>3. listing[n] = lists[i][j]
    BY <1>2, <2>2 DEF StandsBehind
  <2>4. j = Len(lists[i])
    <3>1. SUFFICES ASSUME j # Len(lists[i]) PROVE FALSE
      OBVIOUS
    <3>2. Len(lists[i]) = 2 /\ j = 1
      <4>1. PICK L : L = Len(lists[i])
        OBVIOUS
      <4>2. L \in {1, 2}
        BY <1>1, <4>1 DEF Entry
      <4>3. j \in 1..L /\ j # L
        BY <2>2, <3>1, <4>1
      <4> QED
        <5>1. L = 2 /\ j = 1
          BY <4>2, <4>3
        <5> QED
          BY <4>1, <5>1
    <3>3. IsAdvisory(lists[i][1])
      BY <1>1, <3>2 DEF Entry
    <3> QED
      BY <1>6, <2>3, <3>2, <3>3
  <2> QED
    BY <1>4, <2>2, <2>4
<1>7. p \in [1..N -> Nat] /\ \A i \in 1..N : p[i] = off[i]
  BY <1>3, <1>4
<1>8. ASSUME NEW i \in 1..N, NEW k \in 1..N, i < k PROVE p[i] < p[k]
  <2>1. i \in 0..N /\ k - 1 \in 0..N /\ i <= k - 1
    BY <1>8
  <2>2. off[i] <= off[k - 1]
    BY <1>2, <2>1 DEF StandsBehind
  <2>3. off[k] = off[k - 1] + Len(lists[k]) /\ off[k - 1] \in Nat /\ off[i] \in Nat
        /\ Len(lists[k]) \in {1, 2}
    BY <1>1, <1>4 DEF Entry
  <2>4. PICK u, v, w, L : u = off[i] /\ v = off[k - 1] /\ w = off[k] /\ L = Len(lists[k])
    OBVIOUS
  <2>5. u \in Nat /\ v \in Nat /\ L \in {1, 2} /\ w = v + L /\ u <= v
    BY <2>2, <2>3, <2>4
  <2>6. u < w
    BY <2>5
  <2> QED
    BY <1>7, <2>4, <2>6
<1>9. S = {p[i] : i \in 1..N}
  <2>1. ASSUME NEW n \in S PROVE \E i \in 1..N : n = p[i]
    BY <1>c, <1>6, <1>7
  <2>2. ASSUME NEW i \in 1..N PROVE p[i] \in S
    <3>1. p[i] = off[i] /\ off[i] \in DOMAIN listing
      BY <1>4, <1>5, <1>7
    <3>2. listing[off[i]] = d[i] /\ ~IsAdvisory(d[i])
      BY <1>1, <1>4 DEF Entry
    <3> QED
      BY <1>c, <3>1, <3>2
  <2> QED
    BY <2>1, <2>2
<1>10. Cardinality(S) = N /\ \A i \in 1..N : Place(S, i) = p[i]
  BY <1>7, <1>8, <1>9, RisingPlaces
<1>11. ASSUME NEW n \in DOMAIN listing, ~IsAdvisory(listing[n])
       PROVE  \E i \in 1..N : listing[n] = d[i] /\ (a[i] = <<>> \/ Advised(listing, i, n))
  <2>1. PICK i \in 1..N : n = off[i]
    BY <1>6, <1>11
  <2>2. listing[n] = d[i]
    BY <1>4, <2>1
  <2>3. CASE Len(lists[i]) = 1
    BY <1>1, <2>2, <2>3 DEF Entry
  <2>4. CASE Len(lists[i]) = 2
    <3>1. off[i - 1] \in Nat /\ n = off[i - 1] + 2
      BY <1>4, <2>1, <2>4
    <3>2. n > 1 /\ n - 1 = off[i - 1] + 1
      BY <3>1
    <3>3. 1 \in 1..Len(lists[i])
      BY <2>4
    <3>4. listing[off[i - 1] + 1] = lists[i][1]
      BY <1>2, <3>3 DEF StandsBehind
    <3>5. IsAdvisory(lists[i][1]) /\ lists[i][1].item = i
      BY <1>1, <2>4 DEF Entry
    <3> QED
      BY <2>2, <3>2, <3>4, <3>5 DEF Advised
  <2> QED
    <3>1. Len(lists[i]) \in {1, 2}
      BY <1>1 DEF Entry
    <3> QED
      BY <2>3, <2>4, <3>1
<1>12. \A i \in 1..N : listing[Place(S, i)] = d[i]
  <2>1. ASSUME NEW i \in 1..N PROVE listing[Place(S, i)] = d[i]
    <3>1. Place(S, i) = p[i] /\ p[i] = off[i]
      BY <1>7, <1>10
    <3>2. listing[off[i]] = d[i]
      BY <1>4
    <3> QED
      BY <3>1, <3>2
  <2> QED
    BY <2>1
<1>13. Reads(N, d, a, listing)
  BY <1>c, <1>10, <1>11, <1>12 DEF Reads, Unadvisory
<1> QED
  BY <1>a, <1>b, <1>13 DEF DescribedList
-----------------------------------------------------------------------------
(* What a description adds.                                                *)

\* What an item is matched with is a matter of the proposal and its trace.
LEMMA SameWords ==
  ASSUME SameProposal, onMainnet
  PROVE  \A i : Match(i)' = Match(i) /\ CallOf(i)' = CallOf(i)
<1>1. actions' = actions /\ trace' = trace /\ onMainnet' = onMainnet
  BY DEF SameProposal
<1>2. ASSUME NEW i PROVE Searches(i)' = Searches(i)
  BY <1>1 DEF Searches, Ordinal, CallAt, LastCall, CallAtOrLast, Selector
<1>3. ASSUME NEW i PROVE Match(i)' = Match(i)
  BY <1>2 DEF Match
<1> QED
  BY <1>1, <1>3 DEF CallOf


\* The description of an item that is matched.
LEMMA DescribedIsTold ==
  ASSUME onMainnet, NEW i \in 1..Len(actions), NEW w, NEW source, NEW failures, AList(failures),
         Describe(w, i, source, failures),
         localWarnings = [k \in 1..Len(actions) |-> localWarnings[k]],
         localAdvisories = [k \in 1..Len(actions) |-> localAdvisories[k]]
  PROVE  Told(i, Match(i), CallOf(i), descriptions'[i], localWarnings'[i], localAdvisories'[i])
<1>1. PICK m : m = Match(i)
  OBVIOUS
<1>2. PICK c : c = CallOf(i)
  OBVIOUS
<1>3. PICK unmatched \in BOOLEAN : unmatched <=> (m = <<>> /\ ~EthTransfer(c))
  OBVIOUS
<1>4. PICK readable \in BOOLEAN : readable <=> (source \in {"abi", "signature", "token"})
  OBVIOUS
<1>5. PICK more : more = IF unmatched /\ ~readable THEN <<[item |-> i, what |-> "no matching call"]>>
                         ELSE <<>>
  OBVIOUS
<1>6. descriptions'[i] = [item |-> i, call |-> c, source |-> source]
  BY <1>2 DEF Describe
<1>7. localWarnings'[i] = failures \o more
  BY <1>1, <1>2, <1>3, <1>4, <1>5 DEF Describe
<1>8. localAdvisories'[i] =
        IF unmatched /\ readable THEN <<[item |-> i, advisory |-> "no exact trace match"]>>
        ELSE IF m # <<>> /\ m[1] # "strict" THEN <<[item |-> i, advisory |-> m[1]]>> ELSE <<>>
  BY <1>1, <1>2, <1>3, <1>4 DEF Describe
<1>9. AList(more)
  BY <1>5, OneOf, NoneOf
<1>10. AList(localWarnings'[i])
  BY <1>7, <1>9, Joined
<1>11. AList(localAdvisories'[i])
  BY <1>8, OneOf, NoneOf
<1>15. descriptions'[i] =
         [item |-> i, call |-> CallOf(i), source |-> descriptions'[i].source]
  <2>1. PICK t : t = descriptions'[i]
    OBVIOUS
  <2>2. t = [item |-> i, call |-> c, source |-> t.source]
    BY <1>6, <2>1
  <2> QED
    BY <1>2, <2>1, <2>2
<1>12. CASE unmatched /\ ~readable
  <2>1. PICK e : e = [item |-> i, what |-> "no matching call"]
    OBVIOUS
  <2>2. more = <<e>>
    BY <1>5, <1>12, <2>1
  <2>3. Len(more) = 1 /\ more[1] = e
    BY <2>2, OneOf
  <2>4. /\ Len(failures \o more) = Len(failures) + Len(more)
        /\ \A n \in 1..Len(more) : (failures \o more)[Len(failures) + n] = more[n]
    BY <1>9, Joined
  <2>5. Len(failures) \in Nat
    BY AListIs
  <2>6. (failures \o more)[Len(failures) + 1] = e /\ Len(failures) + 1 \in 1..Len(failures \o more)
    BY <2>3, <2>4, <2>5
  <2>7. e.item = i
    BY <2>1
  <2>8. \E n \in 1..Len(localWarnings'[i]) : localWarnings'[i][n].item = i
    BY <1>7, <2>6, <2>7
  <2>9. localAdvisories'[i] = <<>>
    BY <1>3, <1>8, <1>12
  <2> QED
    BY <1>1, <1>2, <1>3, <1>6, <1>10, <1>11, <1>12, <2>8, <2>9 DEF Told
<1>13. CASE unmatched /\ readable
  <2>1. \E x : localAdvisories'[i] = <<[item |-> i, advisory |-> x]>>
    BY <1>8, <1>13
  <2> QED
    BY <1>15, <1>10, <1>11, <2>1 DEF Told
<1>14. CASE ~unmatched
  <2>1. CASE m # <<>> /\ m[1] # "strict"
    <3>1. \E x : localAdvisories'[i] = <<[item |-> i, advisory |-> x]>>
      BY <1>8, <1>14, <2>1
    <3> QED
      BY <1>15, <1>10, <1>11, <3>1 DEF Told
  <2>2. CASE ~(m # <<>> /\ m[1] # "strict")
    <3>1. localAdvisories'[i] = <<>>
      BY <1>8, <1>14, <2>2
    <3>2. (m # <<>> /\ m[1] = "strict") \/ (m = <<>> /\ EthTransfer(c))
      BY <1>3, <1>14, <2>2
    <3> QED
      BY <1>1, <1>2, <1>15, <1>10, <1>11, <3>1, <3>2 DEF Told
  <2> QED
    BY <2>1, <2>2
<1> QED
  BY <1>12, <1>13, <1>14
-----------------------------------------------------------------------------
(* The whole list.                                                         *)

\* What ActionsAreDescribed asks of a list and its warnings.
DescribedBy(listing, warnings) ==
  LET telling == {n \in DOMAIN listing : ~IsAdvisory(listing[n])} IN
  /\ Cardinality(telling) = Len(actions)
  /\ \A n \in DOMAIN actions : listing[Place(telling, n)].item = n
  /\ \A n \in DOMAIN listing : ~IsAdvisory(listing[n]) =>
       LET call == listing[n].call  i == listing[n].item
           advised == n > 1 /\ IsAdvisory(listing[n - 1]) /\ listing[n - 1].item = i IN
       /\ advised \/ [target |-> call.to, data |-> call.input, value |-> call.value] = Proposed(i)
       /\ \/ advised \/ EthTransfer(call)
          \/ \E m \in DOMAIN trace : trace[m] = call
          \/ \E m \in DOMAIN warnings : warnings[m].item = i

\* An item of the check that has been described as it should be.
ItemTold(i) ==
  Told(i, Match(i), CallOf(i), descriptions[i], localWarnings[i], localAdvisories[i])

\* A description without advisory speaks of what its action sends.
LEMMA UnadvisedIsOwn ==
  ASSUME TraceFits, AList(actions), onMainnet, NEW i \in 1..Len(actions), ItemTold(i),
         localAdvisories[i] = <<>>
  PROVE  /\ [target |-> CallOf(i).to, data |-> CallOf(i).input, value |-> CallOf(i).value]
              = Proposed(i)
         /\ \/ EthTransfer(CallOf(i))
            \/ \E m \in DOMAIN trace : trace[m] = CallOf(i)
            \/ \E m \in 1..Len(localWarnings[i]) : localWarnings[i][m].item = i
<1>1. ~\E x : localAdvisories[i] = <<[item |-> i, advisory |-> x]>>
  <2>1. SUFFICES ASSUME NEW x, localAdvisories[i] = <<[item |-> i, advisory |-> x]>> PROVE FALSE
    OBVIOUS
  <2>2. PICK e : e = [item |-> i, advisory |-> x]
    OBVIOUS
  <2>3. Len(<<e>>) = 1 /\ Len(<<>>) = 0
    BY OneOf
  <2> QED
    BY <2>1, <2>2, <2>3
<1>2. \/ Match(i) # <<>> /\ Match(i)[1] = "strict"
      \/ /\ Match(i) = <<>>
         /\ EthTransfer(CallOf(i)) \/ \E m \in 1..Len(localWarnings[i]) : localWarnings[i][m].item = i
  BY <1>1 DEF ItemTold, Told
<1>3. CASE Match(i) # <<>> /\ Match(i)[1] = "strict"
  <2>1. Match(i)[2] = CallFor(i) /\ \E m \in 1..Len(trace) : trace[m] = CallFor(i)
    BY <1>3, StrictIsOwn
  <2>2. CallOf(i) = CallFor(i)
    BY <1>3, <2>1 DEF CallOf
  <2>3. DOMAIN trace = 1..Len(trace)
    BY AListIs DEF TraceFits
  <2>4. [target |-> CallOf(i).to, data |-> CallOf(i).input, value |-> CallOf(i).value] = Proposed(i)
    BY <2>2 DEF CallFor, Proposed
  <2> QED
    BY <2>1, <2>2, <2>3, <2>4
<1>4. CASE Match(i) = <<>>
  <2>1. CallOf(i) = CallFor(i)
    BY <1>4 DEF CallOf, CallFor
  <2>2. [target |-> CallOf(i).to, data |-> CallOf(i).input, value |-> CallOf(i).value] = Proposed(i)
    BY <2>1 DEF CallFor, Proposed
  <2> QED
    BY <1>2, <1>4, <2>2
<1> QED
  BY <1>2, <1>3, <1>4

\* Once every item is told, the list says of each what it should.
LEMMA GatheredTells ==
  ASSUME TraceFits, AList(actions), onMainnet, \A i \in 1..Len(actions) : ItemTold(i),
         NEW listing,
         listing = FlattenSeq([i \in 1..Len(actions) |-> localAdvisories[i] \o <<descriptions[i]>>]),
         localWarnings = [i \in 1..Len(actions) |-> localWarnings[i]],
         NEW warnings, warnings = FlattenSeq(localWarnings)
  PROVE  DescribedBy(listing, warnings)
<1>0. PICK N : N = Len(actions)
  OBVIOUS
<1>1. N \in Nat /\ DOMAIN actions = 1..N
  BY <1>0, AListIs
<1>2. PICK match : match = [i \in 1..N |-> Match(i)]
  OBVIOUS
<1>3. PICK call : call = [i \in 1..N |-> CallOf(i)]
  OBVIOUS
<1>5. PICK S : S = Unadvisory(listing)
  OBVIOUS
<1>6. AllTold(N, match, call, descriptions, localWarnings, localAdvisories)
  BY <1>0, <1>2, <1>3 DEF ItemTold, AllTold
<1>7. listing = DescribedList(N, descriptions, localAdvisories)
  BY <1>0 DEF DescribedList
<1>8. /\ Cardinality(S) = N /\ \A i \in 1..N : listing[Place(S, i)] = descriptions[i]
      /\ \A n \in DOMAIN listing : ~IsAdvisory(listing[n]) =>
           \E i \in 1..N : listing[n] = descriptions[i]
                           /\ (localAdvisories[i] = <<>> \/ Advised(listing, i, n))
  <2>1. Reads(N, descriptions, localAdvisories, listing)
    BY <1>1, <1>6, <1>7, ListTells
  <2> QED
    BY <1>5, <2>1 DEF Reads
<1>9. ASSUME NEW i \in 1..N
      PROVE  descriptions[i].item = i /\ descriptions[i].call = CallOf(i) /\ AList(localWarnings[i])
  <2>1. descriptions[i] = [item |-> i, call |-> CallOf(i), source |-> descriptions[i].source]
        /\ AList(localWarnings[i])
    BY <1>0 DEF ItemTold, Told
  <2> QED
    BY <2>1
<1>10. PICK off \in [0..N -> Nat] : StandsBehind(warnings, localWarnings, N, off)
  <2>1. \A k \in 1..N : AList(localWarnings[k])
    BY <1>9
  <2>2. \E off \in [0..N -> Nat] :
          StandsBehind(FlattenSeq(localWarnings), localWarnings, N, off)
    <3>1. Listed(N, localWarnings)
      BY <1>0, <1>1, <2>1 DEF Listed
    <3> QED
      BY <1>1, <3>1, ConcatenationHas
  <2> QED
    BY <1>0, <2>2
<1>11. ASSUME NEW i \in 1..N, NEW m \in 1..Len(localWarnings[i]), localWarnings[i][m].item = i
       PROVE  \E k \in DOMAIN warnings : warnings[k].item = i
  <2>1. i - 1 \in 0..N /\ i \in 0..N /\ N \in 0..N /\ i <= N
    BY <1>1
  <2>2. off[i - 1] \in Nat /\ off[i] \in Nat /\ off[N] \in Nat
    BY <2>1
  <2>3. off[i] = off[i - 1] + Len(localWarnings[i]) /\ off[i] <= off[N]
    BY <1>10, <2>1 DEF StandsBehind
  <2>4. Len(localWarnings[i]) \in Nat
    BY <1>9, AListIs
  <2>5. off[i - 1] + m \in 1..off[N]
    <3>1. PICK x, y, z, l : x = off[i - 1] /\ y = off[i] /\ z = off[N] /\ l = Len(localWarnings[i])
      OBVIOUS
    <3>2. x \in Nat /\ y \in Nat /\ z \in Nat /\ l \in Nat /\ y = x + l /\ y <= z /\ m \in 1..l
      BY <2>2, <2>3, <2>4, <3>1
    <3>3. x + m \in 1..z
      BY <3>2
    <3> QED
      BY <3>1, <3>3
  <2>6. AList(warnings) /\ Len(warnings) = off[N]
    BY <1>10 DEF StandsBehind
  <2>7. DOMAIN warnings = 1..off[N]
    BY <2>6, AListIs
  <2>8. warnings[off[i - 1] + m] = localWarnings[i][m]
    BY <1>10 DEF StandsBehind
  <2> QED
    BY <1>11, <2>5, <2>7, <2>8
<1>12. ASSUME NEW n \in DOMAIN listing, ~IsAdvisory(listing[n])
       PROVE  LET call1 == listing[n].call  i == listing[n].item
                  advised == n > 1 /\ IsAdvisory(listing[n - 1]) /\ listing[n - 1].item = i IN
              /\ advised \/ [target |-> call1.to, data |-> call1.input, value |-> call1.value] = Proposed(i)
              /\ \/ advised \/ EthTransfer(call1)
                 \/ \E m \in DOMAIN trace : trace[m] = call1
                 \/ \E m \in DOMAIN warnings : warnings[m].item = i
  <2>1. PICK i \in 1..N : listing[n] = descriptions[i]
                          /\ (localAdvisories[i] = <<>> \/ Advised(listing, i, n))
    BY <1>8, <1>12
  <2>2. listing[n].item = i /\ listing[n].call = CallOf(i)
    BY <1>9, <2>1
  <2>3. CASE Advised(listing, i, n)
    BY <2>2, <2>3 DEF Advised
  <2>4. CASE localAdvisories[i] = <<>>
    <3>1. i \in 1..Len(actions) /\ ItemTold(i)
      BY <1>0
    <3>2. /\ [target |-> CallOf(i).to, data |-> CallOf(i).input, value |-> CallOf(i).value]
              = Proposed(i)
          /\ \/ EthTransfer(CallOf(i))
             \/ \E m \in DOMAIN trace : trace[m] = CallOf(i)
             \/ \E m \in 1..Len(localWarnings[i]) : localWarnings[i][m].item = i
      BY <2>4, <3>1, UnadvisedIsOwn
    <3>3. \/ EthTransfer(CallOf(i))
          \/ \E m \in DOMAIN trace : trace[m] = CallOf(i)
          \/ \E m \in DOMAIN warnings : warnings[m].item = i
      BY <1>11, <3>2
    <3> QED
      BY <2>2, <3>2, <3>3
  <2> QED
    BY <2>1, <2>3, <2>4
<1>13. ASSUME NEW n \in DOMAIN actions PROVE listing[Place(S, n)].item = n
  <2>1. n \in 1..N /\ listing[Place(S, n)] = descriptions[n]
    BY <1>1, <1>8
  <2> QED
    BY <1>9, <2>1
<1> QED
  BY <1>0, <1>5, <1>8, <1>12, <1>13 DEF DescribedBy, Unadvisory
-----------------------------------------------------------------------------
(* The check keeps what it has described, and loses no item.               *)

\* A worker looks up what it needs for an item.
Busy(w, i) == worker[w].at # "idle" /\ worker[w].item = i

\* A worker is at an item that has been taken.
WorkersFit ==
  /\ worker = [w \in Describers |-> worker[w]]
  /\ \A w \in Describers : worker[w] = [at |-> worker[w].at, item |-> worker[w].item]
  /\ \A w \in Describers : worker[w].at # "idle" => worker[w].item \in 1..(nextIndex - 1)

\* An item that has been taken is described or being described.
NoneLost ==
  \A i \in 1..(nextIndex - 1) : i \in DOMAIN descriptions \/ \E w \in Describers : Busy(w, i)

\* The inductive invariant: what has been described is described as it should be.
TellingInv ==
  /\ nextIndex \in 1..(Len(actions) + 1)
  /\ localWarnings = [i \in 1..Len(actions) |-> localWarnings[i]]
  /\ localAdvisories = [i \in 1..Len(actions) |-> localAdvisories[i]]
  /\ WorkersFit /\ NoneLost
  /\ \A i \in DOMAIN descriptions : ItemTold(i)

CallInv ==
  /\ onMainnet => AList(actions) /\ TraceFits /\ TellingInv
  /\ ActionsAreDescribed

\* Nothing is asked of a check that has not finished.
LEMMA PendingIsDescribed ==
  verdict.state # "done" => ActionsAreDescribed
BY DEF ActionsAreDescribed

\* The check starts with nothing taken.
LEMMA CallStarts ==
  ASSUME CallInit
  PROVE  CallInv
<1>1. TraceFits /\ AList(actions)
  BY TraceStarts
<1>2. verdict.state # "done"
  BY DEF CallInit, Pending
<1>3. ASSUME onMainnet PROVE TellingInv
  <2>1. Items = Len(actions)
    BY <1>3 DEF Items
  <2>2. Len(actions) \in Nat
    BY <1>1, AListIs
  <2>3. nextIndex = 1 /\ nextIndex \in 1..(Len(actions) + 1)
    BY <2>2 DEF CallInit
  <2>4. localWarnings = [i \in 1..Len(actions) |-> <<>>]
        /\ localAdvisories = [i \in 1..Len(actions) |-> <<>>]
    BY <2>1 DEF CallInit
  <2>5. WorkersFit
    <3>1. worker = [w \in Describers |-> Idle]
      BY DEF CallInit
    <3> QED
      BY <3>1 DEF WorkersFit, Idle
  <2>6. NoneLost
    BY <2>3 DEF NoneLost
  <2>7. DOMAIN descriptions = {}
    BY DEF CallInit
  <2>8. localWarnings = [i \in 1..Len(actions) |-> localWarnings[i]]
        /\ localAdvisories = [i \in 1..Len(actions) |-> localAdvisories[i]]
    BY <2>4
  <2> QED
    BY <2>3, <2>5, <2>6, <2>7, <2>8 DEF TellingInv
<1> QED
  BY <1>1, <1>2, <1>3, PendingIsDescribed DEF CallInv

\* What holds of the proposal and its trace goes on holding.
LEMMA ProposalKeeps ==
  ASSUME SameProposal, AList(actions), TraceFits
  PROVE  AList(actions)' /\ TraceFits' /\ onMainnet' = onMainnet
<1>1. actions' = actions /\ trace' = trace /\ onMainnet' = onMainnet
  BY DEF SameProposal
<1>2. AList(actions)'
  BY <1>1 DEF AList
<1>3. TraceFits'
  BY <1>1 DEF TraceFits, AList, CallFor
<1> QED
  BY <1>1, <1>2, <1>3

\* A worker goes to its next lookup.
LEMMA MoveKeeps ==
  ASSUME onMainnet, SameProposal, TellingInv, NEW w \in Describers, NEW place,
         worker[w].at # "idle", place # "idle", Move(w, place), Silently, nextIndex' = nextIndex
  PROVE  TellingInv'
<1>1. actions' = actions
  BY DEF SameProposal
<1>2. /\ descriptions' = descriptions /\ localWarnings' = localWarnings
      /\ localAdvisories' = localAdvisories
  BY DEF Silently
<1>3. PICK s : s = worker[w]
  OBVIOUS
<1>4. s = [at |-> s.at, item |-> s.item] /\ worker = [v \in Describers |-> worker[v]]
  BY <1>3 DEF TellingInv, WorkersFit
<1>5. worker' = [worker EXCEPT ![w] = [worker[w] EXCEPT !.at = place]]
  BY DEF Move
<1>6. PICK t : t = [s EXCEPT !.at = place]
  OBVIOUS
<1>7. t = [at |-> place, item |-> s.item] /\ t.at = place /\ t.item = s.item
  BY <1>4, <1>6
<1>8. worker' = [v \in Describers |-> IF v = w THEN t ELSE worker[v]]
  BY <1>3, <1>4, <1>5, <1>6
<1>9. worker'[w] = t /\ \A v \in Describers : v # w => worker'[v] = worker[v]
  BY <1>8
<1>10. WorkersFit'
  <2>1. worker' = [v \in Describers |-> worker'[v]]
    BY <1>8
  <2>2. ASSUME NEW v \in Describers
        PROVE  /\ worker'[v] = [at |-> worker'[v].at, item |-> worker'[v].item]
               /\ worker'[v].at # "idle" => worker'[v].item \in 1..(nextIndex - 1)
    <3>1. CASE v = w
      BY <1>3, <1>7, <1>9, <3>1 DEF TellingInv, WorkersFit
    <3>2. CASE v # w
      BY <1>9, <3>2 DEF TellingInv, WorkersFit
    <3> QED
      BY <3>1, <3>2
  <2> QED
    BY <2>1, <2>2 DEF WorkersFit
<1>11. NoneLost'
  <2>1. ASSUME NEW i \in 1..(nextIndex - 1), NEW v \in Describers, Busy(v, i)
        PROVE  worker'[v].at # "idle" /\ worker'[v].item = i
    <3>1. CASE v = w
      BY <1>3, <1>7, <1>9, <2>1, <3>1 DEF Busy
    <3>2. CASE v # w
      BY <1>9, <2>1, <3>2 DEF Busy
    <3> QED
      BY <3>1, <3>2
  <2>2. \A i \in 1..(nextIndex - 1) : i \in DOMAIN descriptions \/ \E v \in Describers : Busy(v, i)
    BY DEF TellingInv, NoneLost
  <2> QED
    BY <1>2, <2>1, <2>2 DEF NoneLost, Busy
<1>12. ASSUME NEW i \in DOMAIN descriptions PROVE ItemTold(i)'
  <2>1. Match(i)' = Match(i) /\ CallOf(i)' = CallOf(i)
    BY SameWords
  <2>2. ItemTold(i)
    BY DEF TellingInv
  <2> QED
    BY <1>2, <2>1, <2>2 DEF ItemTold
<1>13. \A i \in DOMAIN descriptions' : ItemTold(i)'
  BY <1>2, <1>12
<1> QED
  BY <1>1, <1>2, <1>10, <1>11, <1>13 DEF TellingInv

\* A worker describes an item, the one it is at or the next one.
LEMMA DescribeKeeps ==
  ASSUME onMainnet, SameProposal, TellingInv, AList(actions), NEW w \in Describers,
         NEW i \in 1..Len(actions), NEW source, NEW failures, AList(failures),
         Describe(w, i, source, failures),
         \/ worker[w].at # "idle" /\ i = worker[w].item /\ nextIndex' = nextIndex
         \/ worker[w].at = "idle" /\ i = nextIndex /\ nextIndex' = nextIndex + 1
  PROVE  TellingInv'
<1>1. actions' = actions
  BY DEF SameProposal
<1>2. nextIndex \in 1..(Len(actions) + 1) /\ Len(actions) \in Nat
  BY AListIs DEF TellingInv
<1>3. worker' = [worker EXCEPT ![w] = Idle]
      /\ descriptions' = [k \in DOMAIN descriptions \cup {i} |->
           IF k = i THEN [item |-> i, call |-> CallOf(i), source |-> source] ELSE descriptions[k]]
  BY DEF Describe
<1>4. worker = [v \in Describers |-> worker[v]]
  BY DEF TellingInv, WorkersFit
<1>5. worker' = [v \in Describers |-> IF v = w THEN Idle ELSE worker[v]]
  BY <1>3, <1>4
<1>6. worker'[w] = Idle /\ \A v \in Describers : v # w => worker'[v] = worker[v]
  BY <1>5
<1>7. nextIndex' \in 1..(Len(actions) + 1) /\ nextIndex <= nextIndex'
      /\ \A k \in 1..(nextIndex' - 1) : k = i \/ k \in 1..(nextIndex - 1)
  BY <1>2
<1>8. WorkersFit'
  <2>1. worker' = [v \in Describers |-> worker'[v]]
    BY <1>5
  <2>2. ASSUME NEW v \in Describers
        PROVE  /\ worker'[v] = [at |-> worker'[v].at, item |-> worker'[v].item]
               /\ worker'[v].at # "idle" => worker'[v].item \in 1..(nextIndex' - 1)
    <3>1. CASE v = w
      BY <1>6, <3>1 DEF Idle
    <3>2. CASE v # w
      <4>1. worker[v].at # "idle" => worker[v].item \in 1..(nextIndex - 1)
        BY DEF TellingInv, WorkersFit
      <4>2. worker[v] = [at |-> worker[v].at, item |-> worker[v].item]
        BY DEF TellingInv, WorkersFit
      <4>3. worker[v].at # "idle" => worker[v].item \in 1..(nextIndex' - 1)
        BY <1>2, <1>7, <4>1
      <4> QED
        BY <1>6, <3>2, <4>2, <4>3
    <3> QED
      BY <3>1, <3>2
  <2> QED
    BY <2>1, <2>2 DEF WorkersFit
<1>9. NoneLost'
  <2>1. ASSUME NEW k \in 1..(nextIndex - 1), k # i
        PROVE  k \in DOMAIN descriptions' \/ \E v \in Describers : worker'[v].at # "idle" /\ worker'[v].item = k
    <3>1. k \in DOMAIN descriptions \/ \E v \in Describers : Busy(v, k)
      BY DEF TellingInv, NoneLost
    <3>2. ASSUME NEW v \in Describers, Busy(v, k)
          PROVE  worker'[v].at # "idle" /\ worker'[v].item = k
      <4>1. v # w
        BY <2>1, <3>2 DEF Busy
      <4> QED
        BY <1>6, <3>2, <4>1 DEF Busy
    <3> QED
      BY <1>3, <3>1, <3>2
  <2>2. i \in DOMAIN descriptions'
    BY <1>3
  <2>3. ASSUME NEW k \in 1..(nextIndex' - 1)
        PROVE  k \in DOMAIN descriptions' \/ \E v \in Describers : worker'[v].at # "idle" /\ worker'[v].item = k
    BY <1>7, <2>1, <2>2
  <2> QED
    BY <2>3 DEF NoneLost, Busy
<1>10. localWarnings = [k \in 1..Len(actions) |-> localWarnings[k]]
       /\ localAdvisories = [k \in 1..Len(actions) |-> localAdvisories[k]]
  BY DEF TellingInv
<1>11. PICK x, y : localWarnings' = [localWarnings EXCEPT ![i] = x]
                   /\ localAdvisories' = [localAdvisories EXCEPT ![i] = y]
  BY DEF Describe
<1>12. localWarnings' = [k \in 1..Len(actions) |-> IF k = i THEN x ELSE localWarnings[k]]
       /\ localAdvisories' = [k \in 1..Len(actions) |-> IF k = i THEN y ELSE localAdvisories[k]]
  BY <1>10, <1>11
<1>13. localWarnings' = [k \in 1..Len(actions) |-> localWarnings'[k]]
       /\ localAdvisories' = [k \in 1..Len(actions) |-> localAdvisories'[k]]
  BY <1>12
<1>14. Told(i, Match(i), CallOf(i), descriptions'[i], localWarnings'[i], localAdvisories'[i])
  BY <1>10, DescribedIsTold
<1>15. ASSUME NEW k \in DOMAIN descriptions' PROVE ItemTold(k)'
  <2>1. Match(k)' = Match(k) /\ CallOf(k)' = CallOf(k)
    BY SameWords
  <2>2. CASE k = i
    BY <1>14, <2>1, <2>2 DEF ItemTold
  <2>3. CASE k # i
    <3>1. k \in DOMAIN descriptions /\ descriptions'[k] = descriptions[k]
      BY <1>3, <2>3
    <3>2. localWarnings'[k] = localWarnings[k] /\ localAdvisories'[k] = localAdvisories[k]
      BY <1>10, <1>11, <2>3
    <3>3. ItemTold(k)
      BY <3>1 DEF TellingInv
    <3> QED
      BY <2>1, <3>1, <3>2, <3>3 DEF ItemTold
  <2> QED
    BY <2>2, <2>3
<1> QED
  BY <1>1, <1>7, <1>8, <1>9, <1>13, <1>15 DEF TellingInv

\* Nothing is asked of a check that does not finish in a step.
LEMMA UnfinishedIsDescribed ==
  ASSUME verdict'.state # "done"
  PROVE  ActionsAreDescribed'
BY DEF ActionsAreDescribed

\* What a worker that is at a lookup knows.
LEMMA AtALookup ==
  ASSUME onMainnet, AList(actions), TellingInv, NEW w \in Describers, worker[w].at # "idle"
  PROVE  worker[w].item \in 1..Len(actions)
<1>1. nextIndex \in 1..(Len(actions) + 1) /\ Len(actions) \in Nat
  BY AListIs DEF TellingInv
<1>2. worker[w].item \in 1..(nextIndex - 1)
  BY DEF TellingInv, WorkersFit
<1> QED
  BY <1>1, <1>2

\* A lookup has found what describes the item.
LEMMA DescribesItsItem ==
  ASSUME onMainnet, SameProposal, TellingInv, AList(actions), NEW w \in Describers,
         worker[w].at # "idle", NEW source, NEW failures, AList(failures),
         Describe(w, worker[w].item, source, failures), nextIndex' = nextIndex
  PROVE  TellingInv'
<1>1. PICK i : i = worker[w].item
  OBVIOUS
<1>2. i \in 1..Len(actions)
  BY <1>1, AtALookup
<1>3. Describe(w, i, source, failures)
  BY <1>1
<1> QED
  BY <1>1, <1>2, <1>3, DescribeKeeps

\* A worker takes the next item.
LEMMA TakeKeeps ==
  ASSUME onMainnet, TellingInv, AList(actions), NEW w \in Describers, Take(w)
  PROVE  TellingInv'
<1>1. nextIndex \in 1..(Len(actions) + 1) /\ Len(actions) \in Nat
  BY AListIs DEF TellingInv
<1>2. Items = Len(actions)
  BY DEF Items
<1>3. worker[w].at = "idle" /\ nextIndex \in 1..Len(actions) /\ nextIndex' = nextIndex + 1
      /\ SameProposal
  BY <1>1, <1>2 DEF Take, At
<1>4. CASE EthTransfer(CallOf(nextIndex))
  <2>1. Describe(w, nextIndex, "eth-transfer", <<>>)
    BY <1>4 DEF Take
  <2>2. PICK i : i = nextIndex
    OBVIOUS
  <2>3. PICK f : f = <<>>
    OBVIOUS
  <2>4. AList(f) /\ Describe(w, i, "eth-transfer", f) /\ i \in 1..Len(actions)
    BY <1>3, <2>1, <2>2, <2>3, NoneOf
  <2> QED
    BY <1>3, <2>2, <2>4, DescribeKeeps
<1>5. CASE ~EthTransfer(CallOf(nextIndex))
  <2>1. worker' = [worker EXCEPT ![w] = [at |-> "abi", item |-> nextIndex]] /\ Silently
    BY <1>5 DEF Take
  <2>2. actions' = actions /\ descriptions' = descriptions /\ localWarnings' = localWarnings
        /\ localAdvisories' = localAdvisories
    BY <1>3, <2>1 DEF SameProposal, Silently
  <2>3. PICK t : t = [at |-> "abi", item |-> nextIndex]
    OBVIOUS
  <2>4. t.at # "idle" /\ t.item = nextIndex /\ t = [at |-> t.at, item |-> t.item]
    BY <2>3
  <2>5. worker = [v \in Describers |-> worker[v]]
    BY DEF TellingInv, WorkersFit
  <2>6. worker' = [v \in Describers |-> IF v = w THEN t ELSE worker[v]]
    BY <2>1, <2>3, <2>5
  <2>7. worker'[w] = t /\ \A v \in Describers : v # w => worker'[v] = worker[v]
    BY <2>6
  <2>8. nextIndex' \in 1..(Len(actions) + 1) /\ nextIndex \in 1..(nextIndex' - 1)
        /\ \A k \in 1..(nextIndex' - 1) : k = nextIndex \/ k \in 1..(nextIndex - 1)
    BY <1>1, <1>3
  <2>9. WorkersFit'
    <3>1. worker' = [v \in Describers |-> worker'[v]]
      BY <2>6
    <3>2. ASSUME NEW v \in Describers
          PROVE  /\ worker'[v] = [at |-> worker'[v].at, item |-> worker'[v].item]
                 /\ worker'[v].at # "idle" => worker'[v].item \in 1..(nextIndex' - 1)
      <4>1. CASE v = w
        BY <2>4, <2>7, <2>8, <4>1
      <4>2. CASE v # w
        <5>1. worker[v].at # "idle" => worker[v].item \in 1..(nextIndex - 1)
          BY DEF TellingInv, WorkersFit
        <5>2. worker[v] = [at |-> worker[v].at, item |-> worker[v].item]
          BY DEF TellingInv, WorkersFit
        <5>3. worker[v].at # "idle" => worker[v].item \in 1..(nextIndex' - 1)
          BY <1>1, <1>3, <5>1
        <5> QED
          BY <2>7, <4>2, <5>2, <5>3
      <4> QED
        BY <4>1, <4>2
    <3> QED
      BY <3>1, <3>2 DEF WorkersFit
  <2>10. NoneLost'
    <3>1. ASSUME NEW k \in 1..(nextIndex' - 1)
          PROVE  k \in DOMAIN descriptions
                 \/ \E v \in Describers : worker'[v].at # "idle" /\ worker'[v].item = k
      <4>1. CASE k = nextIndex
        BY <2>4, <2>7, <4>1
      <4>2. CASE k \in 1..(nextIndex - 1)
        <5>1. k \in DOMAIN descriptions \/ \E v \in Describers : Busy(v, k)
          BY <4>2 DEF TellingInv, NoneLost
        <5>2. ASSUME NEW v \in Describers, Busy(v, k)
              PROVE  worker'[v].at # "idle" /\ worker'[v].item = k
          <6>1. v # w
            BY <1>3, <5>2 DEF Busy
          <6> QED
            BY <2>7, <5>2, <6>1 DEF Busy
        <5> QED
          BY <5>1, <5>2
      <4> QED
        BY <2>8, <4>1, <4>2
    <3> QED
      BY <2>2, <3>1 DEF NoneLost, Busy
  <2>11. ASSUME NEW i \in DOMAIN descriptions PROVE ItemTold(i)'
    <3>1. Match(i)' = Match(i) /\ CallOf(i)' = CallOf(i)
      BY <1>3, SameWords
    <3>2. ItemTold(i)
      BY DEF TellingInv
    <3> QED
      BY <2>2, <3>1, <3>2 DEF ItemTold
  <2>12. \A i \in DOMAIN descriptions' : ItemTold(i)'
    BY <2>2, <2>11
  <2>13. localWarnings' = [i \in 1..Len(actions)' |-> localWarnings'[i]]
         /\ localAdvisories' = [i \in 1..Len(actions)' |-> localAdvisories'[i]]
    BY <2>2 DEF TellingInv
  <2> QED
    BY <2>2, <2>8, <2>9, <2>10, <2>12, <2>13 DEF TellingInv
<1> QED
  BY <1>4, <1>5

\* The lookups of a worker, up to its description.
LEMMA LookupKeeps ==
  ASSUME onMainnet, TellingInv, AList(actions), NEW w \in Describers,
         Abi(w) \/ Proxy(w) \/ Implementation(w) \/ Fallback(w) \/ Token(w)
  PROVE  TellingInv' /\ SameProposal /\ verdict = Pending /\ verdict' = verdict
<1>1. SameProposal /\ nextIndex' = nextIndex /\ verdict = Pending /\ verdict' = verdict
      /\ worker[w].at # "idle"
  BY DEF Abi, Proxy, Implementation, Fallback, Token, At
<1>2. PICK f : f = <<>>
  OBVIOUS
<1>3. PICK g : g = <<[item |-> worker[w].item, what |-> "not decoded"]>>
  OBVIOUS
<1>4. AList(f) /\ AList(g)
  BY <1>2, <1>3, NoneOf, OneOf
<1>5. \/ \E place \in {"implementation", "proxy", "fallback", "token"} : Move(w, place) /\ Silently
      \/ \E source : Describe(w, worker[w].item, source, f) \/ Describe(w, worker[w].item, source, g)
  BY <1>2, <1>3 DEF Abi, Proxy, Implementation, Fallback, Token
<1>6. ASSUME NEW place \in {"implementation", "proxy", "fallback", "token"}, Move(w, place), Silently
      PROVE  TellingInv'
  <2>1. place # "idle"
    OBVIOUS
  <2> QED
    BY <1>1, <1>6, <2>1, MoveKeeps
<1>7. ASSUME NEW source, NEW list, AList(list), Describe(w, worker[w].item, source, list)
      PROVE  TellingInv'
  BY <1>1, <1>7, DescribesItsItem
<1>8. TellingInv'
  BY <1>4, <1>5, <1>6, <1>7
<1> QED
  BY <1>1, <1>8

\* The finished list tells of every action.
LEMMA GatherTells ==
  ASSUME CallInv, Gather
  PROVE  ActionsAreDescribed'
<1>1. CASE ~onMainnet
  BY <1>1 DEF ActionsAreDescribed, Gather, SameProposal
<1>2. CASE onMainnet
  <2>1. AList(actions) /\ TraceFits /\ TellingInv
    BY <1>2 DEF CallInv
  <2>2. Items = Len(actions) /\ Len(actions) \in Nat
    BY <1>2, <2>1, AListIs DEF Items
  <2>3. nextIndex = Len(actions) + 1
    <3>1. nextIndex > Items
      BY DEF Gather
    <3>2. nextIndex \in 1..(Len(actions) + 1)
      BY <2>1 DEF TellingInv
    <3> QED
      BY <2>2, <3>1, <3>2
  <2>4. ASSUME NEW i \in 1..Len(actions) PROVE ItemTold(i)
    <3>1. i \in 1..(nextIndex - 1)
      BY <2>2, <2>3
    <3>2. \A w \in Describers : worker[w].at = "idle"
      <4>1. \A w \in Describers : worker[w] = Idle
        BY DEF Gather
      <4> QED
        BY <4>1 DEF Idle
    <3>3. i \in DOMAIN descriptions
      BY <2>1, <3>1, <3>2 DEF TellingInv, NoneLost, Busy
    <3> QED
      BY <2>1, <3>3 DEF TellingInv
  <2>5. PICK listing : listing = FlattenSeq([i \in 1..Len(actions) |-> localAdvisories[i] \o <<descriptions[i]>>])
    OBVIOUS
  <2>6. PICK warnings : warnings = FlattenSeq(localWarnings)
    OBVIOUS
  <2>7. DescribedBy(listing, warnings)
    <3>1. localWarnings = [i \in 1..Len(actions) |-> localWarnings[i]]
      BY <2>1 DEF TellingInv
    <3> QED
      BY <1>2, <2>1, <2>4, <2>5, <2>6, <3>1, GatheredTells
  <2>8. verdict' = [state |-> "done", warnings |-> warnings, info |-> listing]
    BY <1>2, <2>2, <2>5, <2>6 DEF Gather
  <2>9. verdict'.info = listing /\ verdict'.warnings = warnings
    BY <2>8
  <2>10. actions' = actions /\ trace' = trace
    BY DEF Gather, SameProposal
  <2> QED
    BY <2>7, <2>9, <2>10 DEF ActionsAreDescribed, DescribedBy, Proposed
<1> QED
  BY <1>1, <1>2

\* Every step of the check keeps the invariant.
LEMMA CallKeeps ==
  ASSUME CallInv, [CallNext]_callVars
  PROVE  CallInv'
<1>1. ASSUME NEW w \in Describers, Take(w) PROVE CallInv'
  <2>1. SameProposal /\ verdict'.state # "done"
    BY <1>1 DEF Take, At, Pending
  <2>2. ActionsAreDescribed' /\ onMainnet' = onMainnet
    BY <2>1, UnfinishedIsDescribed DEF SameProposal
  <2>3. ASSUME onMainnet PROVE AList(actions)' /\ TraceFits' /\ TellingInv'
    BY <1>1, <2>1, <2>3, ProposalKeeps, TakeKeeps DEF CallInv
  <2> QED
    BY <2>2, <2>3 DEF CallInv
<1>2. ASSUME NEW w \in Describers,
             Abi(w) \/ Proxy(w) \/ Implementation(w) \/ Fallback(w) \/ Token(w)
      PROVE  CallInv'
  <2>1. SameProposal /\ verdict'.state # "done"
    <3>1. SameProposal /\ verdict = Pending /\ verdict' = verdict
      BY <1>2, Zenon DEF Abi, Proxy, Implementation, Fallback, Token, At
    <3> QED
      BY <3>1 DEF Pending
  <2>2. ActionsAreDescribed' /\ onMainnet' = onMainnet
    BY <2>1, UnfinishedIsDescribed DEF SameProposal
  <2>3. ASSUME onMainnet PROVE AList(actions)' /\ TraceFits' /\ TellingInv'
    <3>1. AList(actions) /\ TraceFits /\ TellingInv
      BY <2>3 DEF CallInv
    <3>2. TellingInv'
      BY <1>2, <2>3, <3>1, LookupKeeps
    <3> QED
      BY <2>1, <3>1, <3>2, ProposalKeeps
  <2> QED
    BY <2>2, <2>3 DEF CallInv
<1>3. ASSUME UNCHANGED <<nextIndex, worker, descriptions, localWarnings, localAdvisories>>,
             SameProposal, ActionsAreDescribed'
      PROVE  CallInv'
  <2>1. onMainnet' = onMainnet /\ actions' = actions
    BY <1>3 DEF SameProposal
  <2>2. ASSUME onMainnet PROVE AList(actions)' /\ TraceFits' /\ TellingInv'
    <3>1. AList(actions) /\ TraceFits /\ TellingInv
      BY <2>2 DEF CallInv
    <3>2. \A i : Match(i)' = Match(i) /\ CallOf(i)' = CallOf(i)
      BY <1>3, <2>2, SameWords
    <3>3. \A i \in DOMAIN descriptions : ItemTold(i)'
      BY <1>3, <3>1, <3>2 DEF TellingInv, ItemTold
    <3>4. WorkersFit' /\ NoneLost'
      BY <1>3, <3>1 DEF TellingInv, WorkersFit, NoneLost, Busy
    <3>5. TellingInv'
      BY <1>3, <2>1, <3>1, <3>3, <3>4 DEF TellingInv
    <3> QED
      BY <1>3, <3>1, <3>5, ProposalKeeps
  <2> QED
    BY <1>3, <2>1, <2>2 DEF CallInv
<1>4. ASSUME NEW w \in Describers, TokenThrows(w) PROVE CallInv'
  <2>1. verdict'.state # "done"
    BY <1>4 DEF TokenThrows, Pending
  <2>2. ActionsAreDescribed'
    BY <2>1, UnfinishedIsDescribed
  <2>3. UNCHANGED <<nextIndex, worker, descriptions, localWarnings, localAdvisories>> /\ SameProposal
    BY <1>4 DEF TokenThrows, Silently
  <2> QED
    BY <1>3, <2>2, <2>3
<1>5. CASE Gather
  <2>1. UNCHANGED <<nextIndex, worker, descriptions, localWarnings, localAdvisories>> /\ SameProposal
    BY <1>5 DEF Gather
  <2> QED
    BY <1>3, <1>5, <2>1, GatherTells
<1>6. CASE UNCHANGED callVars
  <2>1. UNCHANGED <<nextIndex, worker, descriptions, localWarnings, localAdvisories>>
        /\ SameProposal /\ verdict' = verdict
    BY <1>6 DEF callVars, SameProposal
  <2>2. ActionsAreDescribed'
    BY <2>1 DEF CallInv, ActionsAreDescribed, Proposed, SameProposal
  <2> QED
    BY <1>3, <2>1, <2>2
<1> QED
  BY <1>1, <1>2, <1>4, <1>5, <1>6 DEF CallNext

\* ActionsAreDescribed: a finished check describes each action of the proposal
\* as it is, or says that it may not (checkDecodeCalldata).
THEOREM ProposalIsDescribed ==
  CallSpec => []ActionsAreDescribed
<1>1. CallInit => CallInv
  BY CallStarts
<1>2. CallInv /\ [CallNext]_callVars => CallInv'
  BY CallKeeps
<1>3. CallInv => ActionsAreDescribed
  BY DEF CallInv
<1> QED
  BY <1>1, <1>2, <1>3, PTL DEF CallSpec
-----------------------------------------------------------------------------
-----------------------------------------------------------------------------
(* StorageEvidence: lists that grow, and sets put in some order.          *)

Grows(s, t) == Len(t) \in Nat /\ Len(s) <= Len(t) /\ \A n \in 1..Len(s) : t[n] = s[n]

\* A list with one more element.
LEMMA OneMore ==
  ASSUME NEW s, AList(s), NEW e
  PROVE  /\ AList(Append(s, e)) /\ Grows(s, Append(s, e)) /\ Len(Append(s, e)) = Len(s) + 1
         /\ Append(s, e)[Len(s) + 1] = e
<1>1. PICK S : s \in Seq(S)
  BY DEF AList
<1>2. PICK T, t : T = S \cup {e} /\ t = Append(s, e)
  OBVIOUS
<1>3. s \in Seq(T) /\ t \in Seq(T) /\ Len(t) = Len(s) + 1 /\ Len(s) \in Nat
  BY <1>1, <1>2
<1>4. t[Len(s) + 1] = e /\ \A n \in 1..Len(s) : t[n] = s[n]
  BY <1>2, <1>3
<1> QED
  BY <1>2, <1>3, <1>4 DEF AList, Grows

\* SetToSeq has every element once, and no other.
LEMMA Ordered ==
  ASSUME NEW S, IsFiniteSet(S)
  PROVE  /\ Cardinality(S) \in Nat /\ SetToSeq(S) \in [1..Cardinality(S) -> S]
         /\ \A x \in S : \E n \in 1..Cardinality(S) : SetToSeq(S)[n] = x
         /\ \A m, n \in 1..Cardinality(S) : SetToSeq(S)[m] = SetToSeq(S)[n] => m = n
<1>1. PICK N : N = Cardinality(S)
  OBVIOUS
<1>2. N \in Nat /\ ExistsBijection(1..N, S)
  BY <1>1, FS_CardinalityType
<1>3. PICK b \in Bijection(1..N, S) : TRUE
  BY <1>2 DEF ExistsBijection
<1>4. b \in [1..N -> S] /\ IsInjective(b)
  BY <1>3 DEF Bijection, Injection, IsInjective
<1>5. PICK f : f = SetToSeq(S)
  OBVIOUS
<1>6. f \in [1..N -> S] /\ IsInjective(f)
  BY <1>1, <1>4, <1>5 DEF SetToSeq
<1>7. f \in Injection(1..N, S)
  BY <1>6 DEF Injection, IsInjective
<1>8. IsFiniteSet(1..N) /\ Cardinality(1..N) = N
  <2>1. N \in Int /\ 1 \in Int
    BY <1>2
  <2>2. IsFiniteSet(1..N) /\ Cardinality(1..N) = IF 1 > N THEN 0 ELSE N - 1 + 1
    BY <2>1, FS_Interval
  <2> QED
    BY <1>2, <2>2
<1>9. f \in Surjection(1..N, S)
  BY <1>1, <1>7, <1>8, FS_Injection
<1>10. \A x \in S : \E n \in 1..N : f[n] = x
  BY <1>9 DEF Surjection
<1>11. \A m, n \in 1..N : f[m] = f[n] => m = n
  BY <1>6 DEF IsInjective
<1> QED
  BY <1>1, <1>2, <1>5, <1>6, <1>10, <1>11

\* There are finitely many words to look at.
LEMMA SlotsAreFinite == IsFiniteSet(Slots)
<1>1. PICK a, b, c : a = "s0" /\ b = MappingSlot("k1") /\ c = MappingSlot("k2")
  OBVIOUS
<1>2. Slots = ({a} \cup {b}) \cup {c}
  BY <1>1 DEF Slots
<1>3. IsFiniteSet({a}) /\ IsFiniteSet({b}) /\ IsFiniteSet({c})
  BY FS_Singleton
<1>4. IsFiniteSet({a} \cup {b})
  BY <1>3, FS_Union
<1>5. IsFiniteSet(({a} \cup {b}) \cup {c})
  BY <1>3, <1>4, FS_Union
<1> QED
  BY <1>2, <1>5
-----------------------------------------------------------------------------
(* The fields that are named for a word.                                   *)

\* The word that some named fields make of an old one.
WordOf(old, fields) ==
  [x \in Parts |-> IF \E f \in fields : f.label = x
                     THEN (CHOOSE f \in fields : f.label = x).new ELSE old[x]]

\* Decoded fields turn the old word into the new one.
LEMMA NamedIsTheWord ==
  ASSUME NEW old \in Word, NEW new \in Word, NEW fields, NEW D,
         D = DecodeStorageWrite(old, new, fields), D # {}
  PROVE  new = WordOf(old, D)
<1>1. PICK changed : changed = {f \in fields : /\ old[f.part] # new[f.part]
                                 /\ Readable(f, old[f.part]) /\ Readable(f, new[f.part])}
  OBVIOUS
<1>2. /\ \A p \in Parts : old[p] # new[p] => \E f \in changed : f.part = p
      /\ D = {[label |-> f.part, old |-> old[f.part], new |-> new[f.part]] : f \in changed}
  BY <1>1 DEF DecodeStorageWrite
<1>3. ASSUME NEW d \in D PROVE d.new = new[d.label]
  <2>1. PICK f \in changed : d = [label |-> f.part, old |-> old[f.part], new |-> new[f.part]]
    BY <1>2
  <2> QED
    BY <2>1
<1>4. ASSUME NEW p \in Parts
      PROVE  new[p] = IF \E f \in D : f.label = p THEN (CHOOSE f \in D : f.label = p).new ELSE old[p]
  <2>1. CASE \E f \in D : f.label = p
    <3>1. PICK d : d = CHOOSE f \in D : f.label = p
      OBVIOUS
    <3>2. d \in D /\ d.label = p
      BY <2>1, <3>1
    <3> QED
      BY <1>3, <2>1, <3>1, <3>2
  <2>2. CASE ~\E f \in D : f.label = p
    <3>1. SUFFICES ASSUME old[p] # new[p] PROVE FALSE
      BY <2>2
    <3>2. PICK f \in changed : f.part = p
      BY <1>2, <3>1
    <3>3. PICK d : d = [label |-> f.part, old |-> old[f.part], new |-> new[f.part]]
      OBVIOUS
    <3>4. d \in D /\ d.label = p
      BY <1>2, <3>2, <3>3
    <3> QED
      BY <2>2, <3>4
  <2> QED
    BY <2>1, <2>2
<1>5. new = [p \in Parts |-> new[p]]
  BY DEF Word
<1> QED
  BY <1>4, <1>5 DEF WordOf

\* Fields are named from the one code's layout, for the word as it is.
LEMMA NamedFits ==
  ASSUME NEW a, NEW s, original[a][s] \in Word, storage[a][s] \in Word, DecodedFields(a, s) # {}
  PROVE  ~Ambiguous(a) /\ storage[a][s] = WordOf(original[a][s], DecodedFields(a, s))
<1>1. PICK old, new : old = original[a][s] /\ new = storage[a][s]
  OBVIOUS
<1>2. PICK D : D = DecodedFields(a, s)
  OBVIOUS
<1>3. HasLayout(a)
  BY DEF DecodedFields
<1>4. \E fields : D = DecodeStorageWrite(old, new, fields)
  BY <1>1, <1>2 DEF DecodedFields, DecodeMappingWrite
<1>5. PICK fields : D = DecodeStorageWrite(old, new, fields)
  BY <1>4
<1>6. new = WordOf(old, D)
  BY <1>1, <1>2, <1>5, NamedIsTheWord
<1> QED
  BY <1>1, <1>2, <1>3, <1>6 DEF HasLayout
-----------------------------------------------------------------------------
(* The lines of one contract.                                              *)

\* What a word's line says of it.
LineSays(l, a, s) ==
  /\ l.slot = s /\ l.old = original[a][s] /\ l.new = storage[a][s]
  /\ l.kind \in {"raw", "named"} /\ l.kind # "contract" /\ (l.kind = "raw" => l.kind # "named")
  /\ l.kind = "named" => /\ DecodedFields(a, s) # {} /\ l.address = a
                         /\ l.code = CodeOf(a) /\ l.fields = DecodedFields(a, s)

\* A line is of its own word, raw or named.
LEMMA LineIs ==
  ASSUME NEW a, NEW s
  PROVE  LineSays(Line(a, s), a, s)
<1>1. PICK l : l = Line(a, s)
  OBVIOUS
<1>2. PICK old, new : old = original[a][s] /\ new = storage[a][s]
  OBVIOUS
<1>3. CASE DecodedFields(a, s) = {}
  <2>1. l = [kind |-> "raw", slot |-> s, old |-> old, new |-> new]
    BY <1>1, <1>2, <1>3 DEF Line
  <2>2. l.kind = "raw" /\ l.slot = s /\ l.old = old /\ l.new = new
    BY <2>1
  <2> QED
    BY <1>1, <1>2, <2>2 DEF LineSays
<1>4. CASE DecodedFields(a, s) # {}
  <2>1. PICK D, c : D = DecodedFields(a, s) /\ c = CodeOf(a)
    OBVIOUS
  <2>2. l = [kind |-> "named", address |-> a, slot |-> s, old |-> old, new |-> new,
             code |-> c, fields |-> D]
    BY <1>1, <1>2, <1>4, <2>1 DEF Line
  <2>3. /\ l.kind = "named" /\ l.slot = s /\ l.old = old /\ l.new = new
        /\ l.address = a /\ l.code = c /\ l.fields = D
    BY <2>2
  <2> QED
    BY <1>1, <1>2, <1>4, <2>1, <2>3 DEF LineSays
<1> QED
  BY <1>3, <1>4

\* A header, then the line of every word that changed.
ContractLines(list, a) ==
  /\ AList(list) /\ 1 \in 1..Len(list) /\ list[1] = [kind |-> "contract", address |-> a]
  /\ \A j \in 2..Len(list) : \E s \in Changed(a) : list[j] = Line(a, s)
  /\ \A s \in Changed(a) : \E j \in 2..Len(list) : list[j] = Line(a, s)

\* LinesOf is such a list.
LEMMA LinesOfIs ==
  ASSUME NEW a
  PROVE  ContractLines(LinesOf(a), a)
<1>1. PICK C, q, N : C = Changed(a) /\ q = SetToSeq(C) /\ N = Cardinality(C)
  OBVIOUS
<1>2. IsFiniteSet(C)
  BY <1>1, SlotsAreFinite, FS_Subset DEF Changed
<1>3. N \in Nat /\ q \in [1..N -> C] /\ \A s \in C : \E n \in 1..N : q[n] = s
  BY <1>1, <1>2, Ordered
<1>4. PICK f : f = [n \in 1..N |-> Line(a, q[n])]
  OBVIOUS
<1>5. PICK words : words = [n \in 1..N |-> f[n]]
  OBVIOUS
<1>6. AList(words) /\ Len(words) = N /\ \A n \in 1..N : words[n] = Line(a, q[n])
  <2>1. AList(words) /\ Len(words) = N /\ \A n \in 1..N : words[n] = f[n]
    BY <1>3, <1>5, FunctionIsList
  <2> QED
    BY <1>4, <2>1
<1>7. PICK h : h = <<[kind |-> "contract", address |-> a]>>
  OBVIOUS
<1>8. AList(h) /\ Len(h) = 1 /\ h[1] = [kind |-> "contract", address |-> a]
  BY <1>7, OneOf
<1>9. LinesOf(a) = h \o words
  <2>1. words = [n \in 1..N |-> Line(a, q[n])]
    BY <1>4, <1>5
  <2>2. words = [i \in 1..Cardinality(Changed(a)) |-> Line(a, SetToSeq(Changed(a))[i])]
    BY <1>1, <2>1
  <2> QED
    BY <1>7, <2>2 DEF LinesOf
<1>10. PICK list : list = LinesOf(a)
  OBVIOUS
<1>11. /\ AList(list) /\ Len(list) = 1 + N /\ list[1] = h[1]
       /\ \A n \in 1..N : list[1 + n] = words[n]
  <2>1. /\ AList(h \o words) /\ Len(h \o words) = Len(h) + Len(words)
        /\ \A n \in 1..Len(h) : (h \o words)[n] = h[n]
        /\ \A n \in 1..Len(words) : (h \o words)[Len(h) + n] = words[n]
    <3>1. AList(h) /\ AList(words)
      BY <1>6, <1>8
    <3> QED
      BY <3>1, Joined
  <2>2. list = h \o words
    BY <1>9, <1>10
  <2>3. AList(list) /\ Len(list) = 1 + N
    BY <1>6, <1>8, <2>1, <2>2
  <2>4. list[1] = h[1]
    BY <1>8, <2>1, <2>2
  <2>5. \A n \in 1..N : list[1 + n] = words[n]
    BY <1>6, <1>8, <2>1, <2>2
  <2> QED
    BY <2>3, <2>4, <2>5
<1>12. ASSUME NEW j \in 2..Len(list) PROVE \E s \in C : list[j] = Line(a, s)
  <2>1. PICK n : n = j - 1
    OBVIOUS
  <2>2. n \in 1..N /\ j = 1 + n
    BY <1>3, <1>11, <2>1
  <2>3. list[j] = Line(a, q[n]) /\ q[n] \in C
    BY <1>3, <1>6, <1>11, <2>2
  <2> QED
    BY <2>3
<1>13. ASSUME NEW s \in C PROVE \E j \in 2..Len(list) : list[j] = Line(a, s)
  <2>1. PICK n \in 1..N : q[n] = s
    BY <1>3
  <2>2. 1 + n \in 2..Len(list) /\ list[1 + n] = Line(a, s)
    BY <1>3, <1>6, <1>11, <2>1
  <2> QED
    BY <2>2
<1>14. 1 \in 1..Len(list)
  BY <1>3, <1>11
<1> QED
  BY <1>1, <1>8, <1>10, <1>11, <1>12, <1>13, <1>14 DEF ContractLines
-----------------------------------------------------------------------------
(* What the lines of one call tell.                                        *)

\* A line behind a contract's header, without a header in between.
Under(list, n, a) ==
  \E h \in DOMAIN list : /\ h < n /\ list[h] = [kind |-> "contract", address |-> a]
                         /\ \A m \in DOMAIN list : h < m /\ m <= n => list[m].kind # "contract"

\* A line names its word rightly.
NamedRightly(l, c) ==
  l.kind = "named" =>
    /\ c.address = l.address /\ c.codes \subseteq {l.code} \cup Libraries[l.code]
    /\ c.new = WordOf(c.old, l.fields)

\* A line of a word is one of the words that changed.
Tells(list, n, c) ==
  SameWord(c, list[n]) /\ NamedRightly(list[n], c) /\ (list[n].kind = "raw" => Under(list, n, c.address))

\* A list fits the words that changed: words in H alone are told, each word once
\* told, unless there is no difference, and no contract has two headers.
CallFits(list, H) ==
  /\ AList(list)
  /\ \A n \in DOMAIN list : list[n].kind \in {"raw", "named"} => \E c \in H : Tells(list, n, c)
  /\ list # NoDiff =>
       \A c \in H : \E n \in DOMAIN list : list[n].kind \in {"raw", "named"} /\ Tells(list, n, c)
  /\ \A n \in DOMAIN list : list[n].kind = "contract" => \E c \in H : c.address = list[n].address
  /\ \A m, n \in DOMAIN list :
       list[m].kind = "contract" /\ list[n].kind = "contract" /\ list[m].address = list[n].address => m = n
  /\ \A c, d \in H : c.address = d.address /\ c.slot = d.slot => c = d

\* Every word is one, and what wrote it is known from the trace; an undone
\* transaction wrote nothing; finitely many contracts were written.
StorageFits ==
  /\ storage \in [Addresses -> [Slots -> Word]] /\ original \in [Addresses -> [Slots -> Word]]
  /\ \A w \in writers : \E n \in StorageCalls(w.address) : frames[n].to = w.code
  /\ frames[1].failed => storage = original
  /\ \E A : IsFiniteSet(A) /\
       \A a \in Addresses : (\E s \in Slots : storage[a][s] # original[a][s]) => a \in A

\* A change is what it is made of.
LEMMA ChangeIs ==
  ASSUME NEW a, NEW s
  PROVE  /\ ChangeOf(a, s).address = a /\ ChangeOf(a, s).slot = s
         /\ ChangeOf(a, s).old = original[a][s] /\ ChangeOf(a, s).new = storage[a][s]
         /\ ChangeOf(a, s).codes = {w.code : w \in {x \in writers : x.address = a}}
<1>1. PICK old, new, codes : /\ old = original[a][s] /\ new = storage[a][s]
                             /\ codes = {w.code : w \in {x \in writers : x.address = a}}
  OBVIOUS
<1>2. ChangeOf(a, s) = [address |-> a, slot |-> s, old |-> old, new |-> new, codes |-> codes]
  BY <1>1 DEF ChangeOf
<1> QED
  BY <1>1, <1>2

\* What a storage difference is made of: a contract's changed slots, one change for each.
LEMMA DifferenceHas ==
  \A c : c \in Difference <=> \E a \in Addresses : \E s \in Changed(a) : c = ChangeOf(a, s)
BY DEF Difference

\* A word has one change.
LEMMA DifferenceIsOne ==
  \A c, d \in Difference : c.address = d.address /\ c.slot = d.slot => c = d
<1> SUFFICES ASSUME NEW c \in Difference, NEW d \in Difference, c.address = d.address, c.slot = d.slot
             PROVE  c = d
  OBVIOUS
<1>1. PICK a, s : c = ChangeOf(a, s)
  BY DifferenceHas
<1>2. PICK b, t : d = ChangeOf(b, t)
  BY DifferenceHas
<1>3. a = b /\ s = t
  BY <1>1, <1>2, ChangeIs
<1> QED
  BY <1>1, <1>2, <1>3

\* The line of a word of this contract.
WordLine(l, a) == \E s \in Changed(a) : l = Line(a, s)

\* A word's line tells its change, and names it rightly.
LEMMA WordLineTells ==
  ASSUME StorageFits, NEW a \in Addresses, NEW s \in Changed(a), NEW l, l = Line(a, s)
  PROVE  /\ l.kind \in {"raw", "named"} /\ l.kind # "contract"
         /\ ChangeOf(a, s) \in Difference /\ ChangeOf(a, s).address = a
         /\ SameWord(ChangeOf(a, s), l) /\ NamedRightly(l, ChangeOf(a, s))
<1>1. LineSays(l, a, s)
  BY LineIs
<1>2. PICK c : c = ChangeOf(a, s)
  OBVIOUS
<1>3. /\ c.address = a /\ c.slot = s /\ c.old = original[a][s] /\ c.new = storage[a][s]
      /\ c.codes = {w.code : w \in {x \in writers : x.address = a}}
  BY <1>2, ChangeIs
<1>4. c \in Difference
  BY <1>2, DifferenceHas
<1>5. SameWord(c, l)
  BY <1>1, <1>3 DEF LineSays, SameWord
<1>6. NamedRightly(l, c)
  <2>1. SUFFICES ASSUME l.kind = "named" PROVE NamedRightly(l, c)
    BY DEF NamedRightly
  <2>2. /\ DecodedFields(a, s) # {} /\ l.address = a /\ l.code = CodeOf(a)
        /\ l.fields = DecodedFields(a, s)
    BY <1>1, <2>1 DEF LineSays
  <2>3. storage[a][s] \in Word /\ original[a][s] \in Word
    <3>1. s \in Slots
      BY DEF Changed
    <3> QED
      BY <3>1 DEF StorageFits
  <2>4. ~Ambiguous(a) /\ storage[a][s] = WordOf(original[a][s], DecodedFields(a, s))
    BY <2>2, <2>3, NamedFits
  <2>5. ASSUME NEW x \in c.codes PROVE x \in {l.code} \cup Libraries[l.code]
    <3>1. PICK w \in writers : w.address = a /\ x = w.code
      BY <1>3, <2>5
    <3>2. PICK n \in StorageCalls(a) : frames[n].to = w.code
      BY <3>1 DEF StorageFits
    <3>3. frames[n].to \in {CodeOf(a)} \cup Libraries[CodeOf(a)]
      BY <2>4 DEF Ambiguous
    <3> QED
      BY <2>2, <3>1, <3>2, <3>3
  <2>6. c.new = WordOf(c.old, l.fields)
    BY <1>3, <2>2, <2>4
  <2> QED
    BY <1>3, <2>2, <2>5, <2>6 DEF NamedRightly
<1> QED
  BY <1>1, <1>2, <1>3, <1>4, <1>5, <1>6 DEF LineSays
-----------------------------------------------------------------------------
(* The list of all contracts.                                              *)

\* N contracts in some order, and their lines behind each other.
TouchedLines(N, q, C, off) ==
  /\ N \in Nat /\ q \in [1..N -> Addresses]
  /\ \A i \in 1..N : Changed(q[i]) # {}
  /\ \A a \in Addresses : Changed(a) # {} => \E i \in 1..N : q[i] = a
  /\ \A i, j \in 1..N : q[i] = q[j] => i = j
  /\ off \in [0..N -> Nat]
  /\ \A k \in 1..N : off[k] = off[k - 1] + Len(LinesOf(q[k]))
  /\ \A k, l \in 0..N : k <= l => off[k] <= off[l]
  /\ AList(C) /\ Len(C) = off[N]
  /\ \A k \in 1..N : \A j \in 1..Len(LinesOf(q[k])) : C[off[k - 1] + j] = LinesOf(q[k])[j]
  /\ \A m \in 1..off[N] : \E k \in 1..N : \E j \in 1..Len(LinesOf(q[k])) : m = off[k - 1] + j

\* A line is a header, or that of a changed word of its contract.
LEMMA LineAt ==
  ASSUME NEW N, NEW q, NEW C, NEW off, TouchedLines(N, q, C, off),
         NEW k \in 1..N, NEW j \in 1..Len(LinesOf(q[k]))
  PROVE  /\ off[k - 1] + j \in DOMAIN C /\ off[k - 1] \in Nat
         /\ (j = 1 => C[off[k - 1] + j] = [kind |-> "contract", address |-> q[k]])
         /\ (j # 1 => WordLine(C[off[k - 1] + j], q[k]))
<1>1. PICK list : list = LinesOf(q[k])
  OBVIOUS
<1>2. ContractLines(list, q[k])
  BY <1>1, LinesOfIs
<1>3. C[off[k - 1] + j] = list[j]
  BY <1>1 DEF TouchedLines
<1>4. AList(list) /\ Len(list) \in Nat /\ j \in 1..Len(list)
  BY <1>1, <1>2, AListIs DEF ContractLines
<1>5. /\ k - 1 \in 0..N /\ k \in 0..N /\ N \in 0..N /\ k <= N /\ off \in [0..N -> Nat]
      /\ off[k] = off[k - 1] + Len(list) /\ off[k] <= off[N]
  <2>1. N \in Nat
    BY DEF TouchedLines
  <2>2. k - 1 \in 0..N /\ k \in 0..N /\ N \in 0..N /\ k <= N
    BY <2>1
  <2> QED
    BY <1>1, <2>2 DEF TouchedLines
<1>6. off[k - 1] \in Nat /\ off[k] \in Nat /\ off[N] \in Nat
  BY <1>5
<1>7. off[k - 1] + j \in 1..off[N]
  BY <1>4, <1>5, <1>6
<1>8. DOMAIN C = 1..off[N]
  BY AListIs DEF TouchedLines
<1>9. ASSUME j = 1 PROVE C[off[k - 1] + j] = [kind |-> "contract", address |-> q[k]]
  BY <1>2, <1>3, <1>9 DEF ContractLines
<1>10. ASSUME j # 1 PROVE WordLine(C[off[k - 1] + j], q[k])
  <2>1. j \in 2..Len(list)
    BY <1>4, <1>10
  <2> QED
    BY <1>2, <1>3, <2>1 DEF ContractLines, WordLine
<1> QED
  BY <1>6, <1>7, <1>8, <1>9, <1>10

\* A word's line stands under its contract's header.
LEMMA HeaderAt ==
  ASSUME NEW N, NEW q, NEW C, NEW off, TouchedLines(N, q, C, off),
         NEW k \in 1..N, NEW j \in 1..Len(LinesOf(q[k])), j # 1
  PROVE  Under(C, off[k - 1] + j, q[k])
<1>1. PICK n, h, o, L : n = off[k - 1] + j /\ h = off[k - 1] + 1 /\ o = off[k - 1]
                        /\ L = Len(LinesOf(q[k]))
  OBVIOUS
<1>2. 1 \in 1..L /\ L \in Nat
  BY <1>1, LinesOfIs, AListIs DEF ContractLines
<1>3. o \in Nat /\ j \in Nat /\ j > 1 /\ n = o + j /\ h = o + 1
  <2>1. off[k - 1] \in Nat
    BY LineAt
  <2> QED
    BY <1>1, <1>2, <2>1
<1>4. h \in DOMAIN C /\ C[h] = [kind |-> "contract", address |-> q[k]] /\ h < n
  <2>1. h \in DOMAIN C /\ C[h] = [kind |-> "contract", address |-> q[k]]
    BY <1>1, <1>2, LineAt
  <2> QED
    BY <1>3, <2>1
<1>5. ASSUME NEW m \in DOMAIN C, h < m, m <= n PROVE C[m].kind # "contract"
  <2>1. PICK i : i = m - o
    OBVIOUS
  <2>2. m \in Int
    <3>1. DOMAIN C = 1..Len(C) /\ Len(C) \in Nat
      BY AListIs DEF TouchedLines
    <3> QED
      BY <3>1
  <2>3. i \in Nat /\ 1 < i /\ i <= j /\ m = o + i
    BY <1>3, <1>5, <2>1, <2>2
  <2>4. i \in 1..Len(LinesOf(q[k])) /\ i # 1 /\ m = off[k - 1] + i
    BY <1>1, <1>2, <2>3
  <2>5. WordLine(C[m], q[k])
    BY <2>4, LineAt
  <2>6. PICK s : C[m] = Line(q[k], s)
    BY <2>5 DEF WordLine
  <2> QED
    BY <2>6, LineIs DEF LineSays
<1> QED
  BY <1>1, <1>4, <1>5 DEF Under

\* Line n is the one of a contract's word that comes at its place of the list.
WordAt(N, q, C, off, k, j, s, n) ==
  /\ k \in 1..N /\ j \in 1..Len(LinesOf(q[k])) /\ j # 1 /\ n = off[k - 1] + j
  /\ s \in Changed(q[k]) /\ C[n] = Line(q[k], s)

\* What a word's line in the list of all contracts tells.
LEMMA WordAtTells ==
  ASSUME StorageFits, NEW N, NEW q, NEW C, NEW off, TouchedLines(N, q, C, off),
         NEW k, NEW j, NEW s, NEW n, WordAt(N, q, C, off, k, j, s, n)
  PROVE  /\ ChangeOf(q[k], s) \in Difference /\ Tells(C, n, ChangeOf(q[k], s))
         /\ C[n].kind \in {"raw", "named"} /\ C[n].kind # "contract"
<1>1. PICK a, l : a = q[k] /\ l = C[n]
  OBVIOUS
<1>2. /\ k \in 1..N /\ j \in 1..Len(LinesOf(q[k])) /\ j # 1
      /\ n = off[k - 1] + j /\ s \in Changed(a) /\ l = Line(a, s)
  BY <1>1 DEF WordAt
<1>3. a \in Addresses
  BY <1>1, <1>2 DEF TouchedLines
<1>4. /\ l.kind \in {"raw", "named"} /\ l.kind # "contract"
      /\ ChangeOf(a, s) \in Difference /\ ChangeOf(a, s).address = a
      /\ SameWord(ChangeOf(a, s), l) /\ NamedRightly(l, ChangeOf(a, s))
  BY <1>2, <1>3, WordLineTells
<1>5. Under(C, n, a)
  BY <1>1, <1>2, HeaderAt
<1> QED
  BY <1>1, <1>4, <1>5 DEF Tells

\* The lines tell of every change, and of no other.
LEMMA ListTellsAll ==
  ASSUME StorageFits, NEW N, NEW q, NEW C, NEW off, TouchedLines(N, q, C, off)
  PROVE  CallFits(C, Difference)
<1>1. /\ N \in Nat /\ q \in [1..N -> Addresses] /\ DOMAIN C = 1..off[N] /\ AList(C)
      /\ \A i \in 1..N : Changed(q[i]) # {}
      /\ \A a \in Addresses : Changed(a) # {} => \E i \in 1..N : q[i] = a
      /\ \A i, j \in 1..N : q[i] = q[j] => i = j
  BY AListIs DEF TouchedLines
<1>2. ASSUME NEW n \in DOMAIN C
      PROVE  \E k \in 1..N : \E j \in 1..Len(LinesOf(q[k])) :
               /\ n = off[k - 1] + j
               /\ C[n].kind = "contract" => j = 1 /\ C[n].address = q[k]
               /\ C[n].kind \in {"raw", "named"} => \E c \in Difference : Tells(C, n, c)
  <2>1. PICK k \in 1..N : \E j \in 1..Len(LinesOf(q[k])) : n = off[k - 1] + j
    BY <1>1 DEF TouchedLines
  <2>2. PICK j \in 1..Len(LinesOf(q[k])) : n = off[k - 1] + j
    BY <2>1
  <2>3. CASE j = 1
    <3>1. C[n] = [kind |-> "contract", address |-> q[k]]
      BY <2>1, <2>2, <2>3, LineAt
    <3>2. C[n].kind = "contract" /\ C[n].address = q[k] /\ C[n].kind \notin {"raw", "named"}
      BY <3>1
    <3> QED
      BY <2>2, <2>3, <3>2
  <2>4. CASE j # 1
    <3>1. WordLine(C[off[k - 1] + j], q[k])
      BY <2>1, <2>2, <2>4, LineAt
    <3>2. PICK s \in Changed(q[k]) : C[off[k - 1] + j] = Line(q[k], s)
      BY <3>1 DEF WordLine
    <3>3. WordAt(N, q, C, off, k, j, s, n)
      BY <2>1, <2>2, <2>4, <3>2 DEF WordAt
    <3>4. /\ ChangeOf(q[k], s) \in Difference /\ Tells(C, n, ChangeOf(q[k], s))
          /\ C[n].kind # "contract"
      BY <3>3, WordAtTells
    <3>5. \E c \in Difference : Tells(C, n, c)
      BY <3>4
    <3> QED
      BY <2>2, <3>4, <3>5
  <2> QED
    BY <2>3, <2>4
<1>3. ASSUME NEW c \in Difference
      PROVE  \E n \in DOMAIN C : C[n].kind \in {"raw", "named"} /\ Tells(C, n, c)
  <2>1. PICK a \in Addresses : \E s \in Changed(a) : c = ChangeOf(a, s)
    BY DifferenceHas
  <2>2. PICK s \in Changed(a) : c = ChangeOf(a, s)
    BY <2>1
  <2>3. PICK k \in 1..N : q[k] = a
    BY <1>1, <2>2
  <2>4. PICK list : list = LinesOf(q[k])
    OBVIOUS
  <2>5. ContractLines(list, a)
    BY <2>3, <2>4, LinesOfIs
  <2>6. PICK j \in 2..Len(list) : list[j] = Line(a, s)
    BY <2>2, <2>5 DEF ContractLines
  <2>7. j \in 1..Len(LinesOf(q[k])) /\ j # 1
    BY <2>4, <2>6
  <2>8. C[off[k - 1] + j] = Line(q[k], s) /\ s \in Changed(q[k])
    BY <2>2, <2>3, <2>4, <2>6, <2>7 DEF TouchedLines
  <2>9. PICK n : n = off[k - 1] + j
    OBVIOUS
  <2>10. n \in DOMAIN C
    BY <2>3, <2>7, <2>9, LineAt
  <2>11. Tells(C, n, ChangeOf(q[k], s)) /\ C[n].kind \in {"raw", "named"}
    <3>1. WordAt(N, q, C, off, k, j, s, n)
      BY <2>3, <2>7, <2>8, <2>9 DEF WordAt
    <3> QED
      BY <3>1, WordAtTells
  <2> QED
    BY <2>2, <2>3, <2>10, <2>11
<1>4. ASSUME NEW n \in DOMAIN C, C[n].kind = "contract"
      PROVE  \E c \in Difference : c.address = C[n].address
  <2>1. PICK k \in 1..N : C[n].address = q[k]
    BY <1>2, <1>4
  <2>2. q[k] \in Addresses /\ Changed(q[k]) # {}
    BY <1>1, <2>1
  <2>3. PICK s \in Changed(q[k]) : TRUE
    BY <2>2
  <2>4. ChangeOf(q[k], s) \in Difference /\ ChangeOf(q[k], s).address = q[k]
    BY <2>2, <2>3, DifferenceHas, ChangeIs
  <2> QED
    BY <2>1, <2>4
<1>5. ASSUME NEW m \in DOMAIN C, NEW n \in DOMAIN C, C[m].kind = "contract", C[n].kind = "contract",
             C[m].address = C[n].address
      PROVE  m = n
  <2>1. PICK k \in 1..N : m = off[k - 1] + 1 /\ C[m].address = q[k]
    BY <1>2, <1>5
  <2>2. PICK l \in 1..N : n = off[l - 1] + 1 /\ C[n].address = q[l]
    BY <1>2, <1>5
  <2>3. k = l
    BY <1>1, <1>5, <2>1, <2>2
  <2> QED
    BY <2>1, <2>2, <2>3
<1> QED
  BY <1>1, <1>2, <1>3, <1>4, <1>5, DifferenceIsOne DEF CallFits

\* A list of one line.
LEMMA OneLineIs ==
  ASSUME NEW k, NEW list, list = <<[kind |-> k]>>
  PROVE  AList(list) /\ \A n \in DOMAIN list : list[n].kind = k
<1>1. AList(list) /\ Len(list) = 1 /\ list[1] = [kind |-> k]
  BY OneOf
<1>2. DOMAIN list = 1..1
  BY <1>1, AListIs
<1> QED
  BY <1>1, <1>2

\* It fits, if it is about no word, when it says so or nothing changed.
LEMMA OneLineFits ==
  ASSUME NEW k, k \notin {"contract", "raw", "named"}, NEW list, list = <<[kind |-> k]>>,
         list = NoDiff \/ Difference = {}
  PROVE  CallFits(list, Difference)
<1>1. AList(list) /\ \A n \in DOMAIN list : list[n].kind = k
  BY OneLineIs
<1> QED
  BY <1>1, DifferenceIsOne DEF CallFits

\* Whatever the check lists fits.
LEMMA LinesFit ==
  ASSUME StorageFits
  PROVE  CallFits(Lines, Difference)
<1>1. PICK S, q, N : /\ S = {a \in Addresses : Changed(a) # {}} /\ q = SetToSeq(S)
                     /\ N = Cardinality(S)
  OBVIOUS
<1>2. IsFiniteSet(S)
  <2>1. PICK A : IsFiniteSet(A) /\
       \A a \in Addresses : (\E s \in Slots : storage[a][s] # original[a][s]) => a \in A
    BY DEF StorageFits
  <2>2. S \subseteq A
    BY <1>1, <2>1 DEF Changed
  <2> QED
    BY <2>1, <2>2, FS_Subset
<1>3. /\ N \in Nat /\ q \in [1..N -> S] /\ \A a \in S : \E i \in 1..N : q[i] = a
      /\ \A i, j \in 1..N : q[i] = q[j] => i = j
  BY <1>1, <1>2, Ordered
<1>4. CASE frames[1].failed
  <2>1. Lines = <<[kind |-> "reverted"]>>
    BY <1>4 DEF Lines
  <2>2. Difference = {}
    <3>1. \A a : Changed(a) = {}
      BY <1>4 DEF Changed, StorageFits
    <3> QED
      BY <3>1, DifferenceHas
  <2> QED
    BY <2>1, <2>2, OneLineFits
<1>5. CASE ~frames[1].failed /\ q = <<>>
  <2>1. Lines = <<[kind |-> "no state changes"]>>
    BY <1>1, <1>5 DEF Lines
  <2>2. S = {}
    <3>1. 1..N = {}
      BY <1>3, <1>5
    <3> QED
      BY <1>3, <3>1
  <2>3. Difference = {}
    BY <1>1, <2>2, DifferenceHas
  <2> QED
    BY <2>1, <2>3, OneLineFits
<1>6. CASE ~frames[1].failed /\ q # <<>>
  <2>1. PICK f, lists : f = [i \in 1..N |-> LinesOf(q[i])] /\ lists = [i \in 1..N |-> f[i]]
    OBVIOUS
  <2>2. Lines = FlattenSeq(lists)
    <3>1. lists = [i \in DOMAIN q |-> LinesOf(q[i])]
      BY <1>3, <2>1
    <3> QED
      BY <1>1, <1>6, <3>1 DEF Lines
  <2>3. \A i \in 1..N : lists[i] = LinesOf(q[i])
    BY <2>1
  <2>4. Listed(N, lists)
    <3>1. lists = [i \in 1..N |-> lists[i]]
      BY <2>1
    <3>2. \A i \in 1..N : AList(lists[i])
      BY <2>3, LinesOfIs DEF ContractLines
    <3> QED
      BY <1>3, <3>1, <3>2 DEF Listed
  <2>5. PICK off \in [0..N -> Nat] : StandsBehind(FlattenSeq(lists), lists, N, off)
    BY <1>3, <2>4, ConcatenationHas
  <2>6. PICK C : C = FlattenSeq(lists)
    OBVIOUS
  <2>7. TouchedLines(N, q, C, off)
    <3>1. N \in Nat /\ q \in [1..N -> Addresses] /\ \A i \in 1..N : Changed(q[i]) # {}
      <4>1. \A i \in 1..N : q[i] \in S
        BY <1>3
      <4>2. \A a \in S : a \in Addresses /\ Changed(a) # {}
        BY <1>1
      <4>3. q \in [1..N -> Addresses]
        BY <1>1, <1>3
      <4> QED
        BY <1>3, <4>1, <4>2, <4>3
    <3>2. /\ \A a \in Addresses : Changed(a) # {} => \E i \in 1..N : q[i] = a
          /\ \A i, j \in 1..N : q[i] = q[j] => i = j
      BY <1>1, <1>3
    <3>3. /\ \A k \in 1..N : off[k] = off[k - 1] + Len(LinesOf(q[k]))
          /\ \A k, l \in 0..N : k <= l => off[k] <= off[l]
          /\ AList(C) /\ Len(C) = off[N]
      BY <2>3, <2>5, <2>6 DEF StandsBehind
    <3>4. \A k \in 1..N : \A j \in 1..Len(LinesOf(q[k])) : C[off[k - 1] + j] = LinesOf(q[k])[j]
      BY <2>3, <2>5, <2>6 DEF StandsBehind
    <3>5. \A m \in 1..off[N] : \E k \in 1..N : \E j \in 1..Len(LinesOf(q[k])) : m = off[k - 1] + j
      BY <2>3, <2>5, <2>6 DEF StandsBehind
    <3> QED
      <4>1. off \in [0..N -> Nat]
        BY <2>5
      <4> QED
        BY <3>1, <3>2, <3>3, <3>4, <3>5, <4>1, Zenon DEF TouchedLines
  <2> QED
    BY <2>2, <2>6, <2>7, ListTellsAll
<1> QED
  BY <1>4, <1>5, <1>6
-----------------------------------------------------------------------------
(* The words of an override.                                               *)

Overriding == [slot : DOMAIN Chain, part : Parts, value : Int]
PackState ==
  [state : {"done", "thrown"}, words : UNION {[D -> Word] : D \in SUBSET DOMAIN Chain}]
PackBegin == [state |-> "done", words |-> <<>>]

\* A step that throws keeps the words; one that does not packs one field.
LEMMA PackIs ==
  ASSUME NEW acc \in PackState, NEW field \in Overriding
  PROVE  /\ PackInto(acc, field) \in PackState
         /\ PackInto(acc, field).state = "done" =>
              /\ acc.state = "done"
              /\ DOMAIN PackInto(acc, field).words = DOMAIN acc.words \cup {field.slot}
              /\ \A s \in DOMAIN acc.words : s # field.slot =>
                   PackInto(acc, field).words[s] = acc.words[s]
              /\ \A p \in Parts : PackInto(acc, field).words[field.slot][p] =
                   IF p = field.part THEN field.value
                   ELSE IF field.slot \in DOMAIN acc.words THEN acc.words[field.slot][p]
                   ELSE Chain[field.slot][p]
<1>1. PICK words, D : D \subseteq DOMAIN Chain /\ words = acc.words /\ words \in [D -> Word]
  BY DEF PackState
<1>2. field.slot \in DOMAIN Chain /\ field.part \in Parts /\ DOMAIN words = D
  BY <1>1 DEF Overriding
<1>3. PICK word : word = IF field.slot \in DOMAIN words THEN words[field.slot] ELSE Chain[field.slot]
  OBVIOUS
<1>4. word \in Word
  <2>1. Chain[field.slot] \in Word
    BY <1>2, StorageAssumption
  <2> QED
    BY <1>1, <1>2, <1>3, <2>1
<1>5. PICK packed : packed = [word EXCEPT ![field.part] = field.value]
  OBVIOUS
<1>6. PICK new : new = [s \in DOMAIN words \cup {field.slot} |->
                          IF s = field.slot THEN packed ELSE words[s]]
  OBVIOUS
<1>7. PICK r : r = PackInto(acc, field)
  OBVIOUS
<1>8. r = IF acc.state = "thrown" \/ field.part = "gap" \/ field.value \notin Values
            THEN [acc EXCEPT !.state = "thrown"] ELSE [acc EXCEPT !.words = new]
  BY <1>1, <1>3, <1>5, <1>6, <1>7 DEF PackInto
<1>9. CASE acc.state = "thrown" \/ field.part = "gap" \/ field.value \notin Values
  <2>1. r = [acc EXCEPT !.state = "thrown"]
    BY <1>8, <1>9
  <2>2. r \in PackState /\ r.state = "thrown"
    BY <2>1 DEF PackState
  <2> QED
    BY <1>7, <2>2
<1>10. CASE ~(acc.state = "thrown" \/ field.part = "gap" \/ field.value \notin Values)
  <2>1. r = [acc EXCEPT !.words = new]
    BY <1>8, <1>10
  <2>2. packed \in Word
    BY <1>4, <1>5, <1>10 DEF Word
  <2>3. PICK E : E = D \cup {field.slot}
    OBVIOUS
  <2>4. new \in [E -> Word] /\ E \subseteq DOMAIN Chain
    BY <1>1, <1>2, <1>6, <2>2, <2>3
  <2>5. r \in PackState
    <3>1. new \in UNION {[F -> Word] : F \in SUBSET DOMAIN Chain}
      BY <2>4
    <3> QED
      BY <2>1, <3>1 DEF PackState
  <2>6. acc.state = "done" /\ r.words = new
    BY <1>10, <2>1 DEF PackState
  <2>7. DOMAIN new = D \cup {field.slot} /\ new[field.slot] = packed
        /\ \A s \in D : s # field.slot => new[s] = words[s]
    BY <1>2, <1>6
  <2>8. \A p \in Parts : packed[p] = IF p = field.part THEN field.value ELSE word[p]
    BY <1>4, <1>5 DEF Word
  <2> QED
    BY <1>1, <1>2, <1>3, <1>7, <2>5, <2>6, <2>7, <2>8
<1> QED
  BY <1>9, <1>10

\* The loop has its states, each the step of the one before it.
PacksTo(e, L) ==
  /\ e \in [0..L -> PackState] /\ e[0] = PackBegin
  /\ \A n \in 1..L : e[n] = PackInto(e[n - 1], overrides[n])

\* encodeRpcState is such a loop.
LEMMA EncodedIs ==
  ASSUME NEW L \in Nat, L = Len(overrides), \A n \in 1..L : overrides[n] \in Overriding, Encode
  PROVE  \E e : PacksTo(e, L) /\ encoded' = e[L]
<1>1. PICK t : t = [n \in 1..L |-> [acc \in PackState |-> PackInto(acc, overrides[n])]]
  OBVIOUS
<1>2. \A n \in 1..L : t[n] \in [PackState -> PackState]
  <2>1. ASSUME NEW n \in 1..L, NEW acc \in PackState PROVE PackInto(acc, overrides[n]) \in PackState
    BY PackIs
  <2> QED
    BY <1>1, <2>1
<1>3. PackBegin \in PackState
  <2>1. PICK none : none = <<>>
    OBVIOUS
  <2>2. none \in [{} -> Word]
    BY <2>1
  <2>3. none \in UNION {[D -> Word] : D \in SUBSET DOMAIN Chain}
    BY <2>2
  <2> QED
    BY <2>1, <2>3 DEF PackState, PackBegin
<1>4. PICK f \in [0..L -> PackState] : Loop(f, PackBegin, t, L)
  BY <1>2, <1>3, LoopExists
<1>5. f = [n \in 0..L |-> IF n = 0 THEN [state |-> "done", words |-> <<>>]
                          ELSE PackInto(f[n - 1], overrides[n])]
  <2>1. ASSUME NEW n \in 0..L, n # 0 PROVE t[n][f[n - 1]] = PackInto(f[n - 1], overrides[n])
    <3>1. n \in 1..L /\ n - 1 \in 0..L
      BY <2>1
    <3>2. f[n - 1] \in PackState
      BY <1>4, <3>1
    <3> QED
      BY <1>1, <3>1, <3>2
  <2> QED
    BY <1>4, <2>1 DEF Loop, PackBegin
<1> DEFINE e == CHOOSE e : e = [n \in 0..Len(overrides) |->
             IF n = 0 THEN [state |-> "done", words |-> <<>>]
             ELSE PackInto(e[n - 1], overrides[n])]
<1>6. encoded' = e[L]
  BY DEF Encode
<1>7. f = [n \in 0..Len(overrides) |-> IF n = 0 THEN [state |-> "done", words |-> <<>>]
                          ELSE PackInto(f[n - 1], overrides[n])]
  BY <1>5
<1>8. e = [n \in 0..Len(overrides) |-> IF n = 0 THEN [state |-> "done", words |-> <<>>]
                          ELSE PackInto(e[n - 1], overrides[n])]
  BY <1>7, Zenon
<1> HIDE DEF e
<1>9. /\ e[0] = PackBegin /\ e = [n \in 0..L |-> e[n]]
      /\ \A n \in 1..L : e[n] = PackInto(e[n - 1], overrides[n])
  <2>1. e = [n \in 0..L |-> IF n = 0 THEN PackBegin ELSE PackInto(e[n - 1], overrides[n])]
    BY <1>8 DEF PackBegin
  <2> HIDE DEF PackBegin
  <2> QED
    BY <2>1
<1>10. \A n \in 0..L : e[n] \in PackState
  <2>1. PICK T : T = {n \in 0..L : e[n] \in PackState}
    OBVIOUS
  <2>2. 0 \in T
    BY <1>3, <1>9, <2>1
  <2>3. ASSUME NEW n \in 1..L, n - 1 \in T PROVE n \in T
    <3>1. e[n - 1] \in PackState /\ overrides[n] \in Overriding
      BY <2>1, <2>3
    <3>2. e[n] \in PackState
      <4>1. PackInto(e[n - 1], overrides[n]) \in PackState
        BY <3>1, PackIs
      <4> QED
        BY <1>9, <4>1
    <3>3. n \in 0..L
      OBVIOUS
    <3> QED
      BY <2>1, <3>2, <3>3
  <2> QED
    BY <2>1, <2>2, <2>3, UpTo
<1>11. e \in [0..L -> PackState]
  BY <1>9, <1>10
<1>12. PacksTo(e, L)
  BY <1>9, <1>11 DEF PacksTo
<1> QED
  BY <1>6, <1>12

\* What a part holds after the first k overrides.
LastUpTo(k, slot, part) ==
  LET mine == {n \in 1..k : overrides[n].slot = slot /\ overrides[n].part = part} IN
  IF mine = {} THEN Chain[slot][part]
  ELSE overrides[CHOOSE n \in mine : \A m \in mine : m <= n].value

\* An override is the last one of its own part.
LEMMA LastGoesOn ==
  ASSUME NEW k \in Nat, k >= 1, NEW s, NEW p
  PROVE  LastUpTo(k, s, p) = IF overrides[k].slot = s /\ overrides[k].part = p
                               THEN overrides[k].value ELSE LastUpTo(k - 1, s, p)
<1>1. PICK mine, old :
        /\ mine = {n \in 1..k : overrides[n].slot = s /\ overrides[n].part = p}
        /\ old = {n \in 1..(k - 1) : overrides[n].slot = s /\ overrides[n].part = p}
  OBVIOUS
<1>2. CASE overrides[k].slot = s /\ overrides[k].part = p
  <2>1. k \in mine /\ \A n \in mine : n \in Nat /\ n <= k
    BY <1>1, <1>2
  <2>2. PICK n : n = CHOOSE last \in mine : \A m \in mine : m <= last
    OBVIOUS
  <2>3. n \in mine /\ \A m \in mine : m <= n
    BY <2>1, <2>2
  <2>4. n = k
    BY <2>1, <2>3
  <2>5. LastUpTo(k, s, p) = overrides[n].value
    BY <1>1, <2>1, <2>2 DEF LastUpTo
  <2> QED
    BY <1>2, <2>4, <2>5
<1>3. CASE ~(overrides[k].slot = s /\ overrides[k].part = p)
  <2>1. mine = old
    BY <1>1, <1>3
  <2>2. LastUpTo(k, s, p) = IF mine = {} THEN Chain[s][p]
                            ELSE overrides[CHOOSE n \in mine : \A m \in mine : m <= n].value
    BY <1>1 DEF LastUpTo
  <2>3. LastUpTo(k - 1, s, p) = IF old = {} THEN Chain[s][p]
                            ELSE overrides[CHOOSE n \in old : \A m \in old : m <= n].value
    BY <1>1 DEF LastUpTo
  <2>4. LastUpTo(k, s, p) = LastUpTo(k - 1, s, p)
    BY <2>1, <2>2, <2>3
  <2> QED
    BY <1>3, <2>4
<1> QED
  BY <1>2, <1>3

\* Each part of an encoded word holds its last value, or the chain's.
PackedSo(W, k) ==
  /\ \A s \in DOMAIN W : \A p \in Parts : W[s][p] = LastUpTo(k, s, p)
  /\ \A m \in 1..k : overrides[m].slot \in DOMAIN W

\* Packing one field more keeps the words as said.
LEMMA PackedGoesOn ==
  ASSUME NEW k \in Nat, k >= 1, NEW acc \in PackState, overrides[k] \in Overriding,
         acc.state = "done" => PackedSo(acc.words, k - 1),
         NEW r, r = PackInto(acc, overrides[k])
  PROVE  r.state = "done" => PackedSo(r.words, k)
<1> SUFFICES ASSUME r.state = "done" PROVE PackedSo(r.words, k)
  OBVIOUS
<1>1. PICK field, old, new : field = overrides[k] /\ old = acc.words /\ new = r.words
  OBVIOUS
<1>2. /\ acc.state = "done" /\ DOMAIN new = DOMAIN old \cup {field.slot}
      /\ \A s \in DOMAIN old : s # field.slot => new[s] = old[s]
      /\ \A p \in Parts : new[field.slot][p] =
           IF p = field.part THEN field.value
           ELSE IF field.slot \in DOMAIN old THEN old[field.slot][p] ELSE Chain[field.slot][p]
  BY <1>1, PackIs
<1>3. PackedSo(old, k - 1)
  BY <1>1, <1>2
<1>4. ASSUME NEW s \in DOMAIN new, NEW p \in Parts PROVE new[s][p] = LastUpTo(k, s, p)
  <2>1. LastUpTo(k, s, p) = IF field.slot = s /\ field.part = p
                              THEN field.value ELSE LastUpTo(k - 1, s, p)
    BY <1>1, LastGoesOn
  <2>2. CASE s # field.slot
    <3>1. s \in DOMAIN old /\ new[s] = old[s]
      BY <1>2, <2>2
    <3> QED
      BY <1>3, <2>1, <2>2, <3>1 DEF PackedSo
  <2>3. CASE s = field.slot /\ s \in DOMAIN old
    BY <1>2, <1>3, <2>1, <2>3 DEF PackedSo
  <2>4. CASE s = field.slot /\ s \notin DOMAIN old
    <3>1. LastUpTo(k - 1, s, p) = Chain[s][p]
      <4>1. PICK mine : mine = {n \in 1..(k - 1) : overrides[n].slot = s /\ overrides[n].part = p}
        OBVIOUS
      <4>2. mine = {}
        BY <1>3, <2>4, <4>1 DEF PackedSo
      <4> QED
        BY <4>1, <4>2 DEF LastUpTo
    <3> QED
      BY <1>2, <2>1, <2>4, <3>1
  <2> QED
    BY <2>2, <2>3, <2>4
<1>5. ASSUME NEW m \in 1..k PROVE overrides[m].slot \in DOMAIN new
  <2>1. CASE m = k
    BY <1>1, <1>2, <2>1
  <2>2. CASE m # k
    <3>1. m \in 1..(k - 1)
      BY <2>2
    <3> QED
      BY <1>2, <1>3, <3>1 DEF PackedSo
  <2> QED
    BY <2>1, <2>2
<1> QED
  BY <1>1, <1>4, <1>5 DEF PackedSo

\* What has been encoded, or has not.
EncodedRightly ==
  encoded.state = "done" =>
    \A s \in DOMAIN encoded.words : \A p \in Parts : encoded.words[s][p] = LastOverride(s, p)

\* All the overrides are packed as said.
LEMMA EncodeIsRight ==
  ASSUME overrides \in Overrides, Encode
  PROVE  EncodedRightly'
<1>1. PICK L : L = Len(overrides)
  OBVIOUS
<1>2. L \in Nat /\ DOMAIN overrides = 1..L /\ \A n \in 1..L : overrides[n] \in Overriding
  <2>1. overrides \in Seq(Overriding)
    BY StorageAssumption DEF Overriding
  <2> QED
    BY <1>1, <2>1
<1>3. PICK e : PacksTo(e, L) /\ encoded' = e[L]
  BY <1>1, <1>2, EncodedIs
<1>4. /\ e \in [0..L -> PackState] /\ e[0] = PackBegin
      /\ \A n \in 1..L : e[n] = PackInto(e[n - 1], overrides[n])
  BY <1>3 DEF PacksTo
<1>5. PICK T : T = {n \in 0..L : e[n].state = "done" => PackedSo(e[n].words, n)}
  OBVIOUS
<1>6. 0 \in T
  <2>1. PackedSo(<<>>, 0)
    BY DEF PackedSo
  <2>2. e[0].words = <<>>
    BY <1>4 DEF PackBegin
  <2> QED
    BY <1>2, <1>5, <2>1, <2>2
<1>7. ASSUME NEW n \in 1..L, n - 1 \in T PROVE n \in T
  <2>1. n \in Nat /\ n >= 1 /\ n \in 0..L /\ n - 1 \in 0..L
    BY <1>2
  <2>2. e[n - 1] \in PackState /\ e[n] = PackInto(e[n - 1], overrides[n])
        /\ overrides[n] \in Overriding
    BY <1>2, <1>4, <2>1
  <2>3. e[n - 1].state = "done" => PackedSo(e[n - 1].words, n - 1)
    BY <1>5, <1>7
  <2>4. e[n].state = "done" => PackedSo(e[n].words, n)
    BY <2>1, <2>2, <2>3, PackedGoesOn
  <2> QED
    BY <1>5, <2>1, <2>4
<1>8. L \in T
  BY <1>2, <1>6, <1>7, UpTo
<1>9. encoded'.state = "done" => PackedSo(encoded'.words, L)
  BY <1>3, <1>5, <1>8
<1>10. overrides' = overrides
  BY DEF Encode
<1>11. ASSUME NEW s, NEW p PROVE LastOverride(s, p)' = LastUpTo(L, s, p)
  BY <1>2, <1>10 DEF LastOverride, LastUpTo
<1> QED
  BY <1>9, <1>11 DEF EncodedRightly, PackedSo
-----------------------------------------------------------------------------
(* What is left of the lines of several calls, and under which header.     *)

\* Every call's lines fit what it changed.
CallsFit ==
  /\ AList(results) /\ DOMAIN history = DOMAIN results
  /\ \A k \in DOMAIN results : CallFits(results[k], history[k])

\* A line has its place by two numbers.
LEMMA PlaceIs ==
  ASSUME CallsFit
  PROVE  /\ \A p \in Places : /\ p[1] \in DOMAIN results /\ p[2] \in DOMAIN results[p[1]]
                              /\ p = <<p[1], p[2]>> /\ p[1] \in Nat /\ p[2] \in Nat
         /\ \A k \in DOMAIN results : \A n \in DOMAIN results[k] :
              <<k, n>> \in Places /\ TheLine(<<k, n>>) = results[k][n] /\ k \in Nat /\ n \in Nat
<1>1. \A k \in DOMAIN results : k \in Nat
  BY AListIs DEF CallsFit
<1>2. \A k \in DOMAIN results : \A n \in DOMAIN results[k] : n \in Nat
  BY AListIs DEF CallsFit, CallFits
<1>3. ASSUME NEW p \in Places
      PROVE  p[1] \in DOMAIN results /\ p[2] \in DOMAIN results[p[1]] /\ p = <<p[1], p[2]>>
  <2>1. PICK k \in DOMAIN results : p \in {k} \X DOMAIN results[k]
    BY DEF Places
  <2>2. PICK n \in DOMAIN results[k] : p = <<k, n>>
    BY <2>1
  <2> QED
    BY <2>2
<1>4. ASSUME NEW k \in DOMAIN results, NEW n \in DOMAIN results[k]
      PROVE  <<k, n>> \in Places /\ TheLine(<<k, n>>) = results[k][n]
  <2>1. <<k, n>> \in {k} \X DOMAIN results[k]
    OBVIOUS
  <2> QED
    BY <2>1 DEF Places, TheLine
<1> QED
  BY <1>1, <1>2, <1>3, <1>4

\* Of equal lines the first one stays.
LEMMA FirstStays ==
  ASSUME CallsFit, NEW p \in Places
  PROVE  \E q \in KeptLines : /\ q \in Places /\ TheLine(q) = TheLine(p)
                              /\ q = p \/ Before(q, p)
<1>1. PICK S : S = {q \in Places : TheLine(q) = TheLine(p)}
  OBVIOUS
<1>2. PICK K : K = {q[1] : q \in S}
  OBVIOUS
<1>3. K \subseteq Nat /\ K # {}
  BY <1>1, <1>2, PlaceIs
<1>4. PICK k \in K : \A j \in K : k <= j
  BY <1>3, LeastNumber
<1>5. PICK R : R = {q[2] : q \in {r \in S : r[1] = k}}
  OBVIOUS
<1>6. R \subseteq Nat /\ R # {}
  BY <1>1, <1>2, <1>4, <1>5, PlaceIs
<1>7. PICK n \in R : \A m \in R : n <= m
  BY <1>6, LeastNumber
<1>8. PICK q \in S : q[1] = k /\ q[2] = n
  BY <1>5, <1>7
<1>9. q \in Places /\ TheLine(q) = TheLine(p) /\ q = <<k, n>> /\ k \in Nat /\ n \in Nat
  BY <1>1, <1>8, PlaceIs
<1>10. ASSUME NEW r \in S PROVE r = q \/ Before(q, r)
  <2>1. r[1] \in Nat /\ r[2] \in Nat /\ r = <<r[1], r[2]>> /\ r[1] \in K
    BY <1>1, <1>2, PlaceIs
  <2>2. k <= r[1] /\ (r[1] = k => n <= r[2])
    BY <1>4, <1>5, <1>7, <2>1
  <2>3. PICK x, y : x = r[1] /\ y = r[2]
    OBVIOUS
  <2>4. k < x \/ (k = x /\ n < y) \/ (k = x /\ n = y)
    BY <1>9, <2>1, <2>2, <2>3
  <2> QED
    BY <1>8, <1>9, <2>1, <2>3, <2>4 DEF Before
<1>11. ASSUME NEW r \in Places, Before(r, q) PROVE TheLine(r) # TheLine(q)
  <2>1. SUFFICES ASSUME r \in S PROVE FALSE
    BY <1>1, <1>9
  <2>2. r[1] \in Nat /\ r[2] \in Nat
    BY PlaceIs
  <2>3. ~Before(q, r) /\ r # q
    BY <1>8, <1>9, <1>11, <2>2 DEF Before
  <2> QED
    BY <1>10, <2>1, <2>3
<1>12. p \in S
  BY <1>1
<1>13. q \in KeptLines
  BY <1>9, <1>11 DEF KeptLines
<1> QED
  BY <1>9, <1>10, <1>12, <1>13

\* The last header before a line, if it stays, is the one it is under.
LEMMA HeaderIs ==
  ASSUME CallsFit, NEW k \in DOMAIN results, NEW n \in DOMAIN results[k],
         NEW h \in DOMAIN results[k], NEW a, h < n,
         results[k][h] = [kind |-> "contract", address |-> a],
         \A m \in DOMAIN results[k] : h < m /\ m <= n => results[k][m].kind # "contract",
         <<k, h>> \in KeptLines
  PROVE  Header(<<k, n>>) = a
<1>1. PICK p, g : p = <<k, n>> /\ g = <<k, h>>
  OBVIOUS
<1>2. k \in Nat /\ n \in Nat /\ h \in Nat /\ TheLine(g) = results[k][h]
  BY <1>1, PlaceIs
<1>3. TheLine(g).kind = "contract" /\ TheLine(g).address = a
  BY <1>2
<1>4. PICK headers : headers = {q \in KeptLines : Before(q, p) /\ TheLine(q).kind = "contract"}
  OBVIOUS
<1>5. Before(g, p)
  BY <1>1, <1>2 DEF Before
<1>6. g \in headers
  BY <1>1, <1>3, <1>4, <1>5
<1>7. ASSUME NEW r \in headers PROVE r = g \/ Before(r, g)
  <2>1. r \in Places /\ Before(r, p) /\ TheLine(r).kind = "contract"
    BY <1>4 DEF KeptLines
  <2>2. PICK x, y : x = r[1] /\ y = r[2]
    OBVIOUS
  <2>3. /\ x \in DOMAIN results /\ y \in DOMAIN results[x] /\ r = <<x, y>>
        /\ x \in Nat /\ y \in Nat
    BY <2>1, <2>2, PlaceIs
  <2>4. TheLine(r) = results[x][y]
    BY <2>3, PlaceIs
  <2>5. x < k \/ (x = k /\ y < n)
    BY <1>1, <2>1, <2>2 DEF Before
  <2>6. ASSUME x = k PROVE y <= h
    <3>1. SUFFICES ASSUME h < y PROVE FALSE
      BY <1>2, <2>3
    <3>2. y \in DOMAIN results[k] /\ y <= n
      BY <1>2, <2>3, <2>5, <2>6
    <3> QED
      BY <2>1, <2>4, <2>6, <3>1, <3>2
  <2>7. x < k \/ (x = k /\ y < h) \/ (x = k /\ y = h)
    BY <1>2, <2>3, <2>5, <2>6
  <2> QED
    BY <1>1, <2>2, <2>3, <2>7 DEF Before
<1>8. PICK q : q = CHOOSE x \in headers : \A r \in headers : r = x \/ Before(r, x)
  OBVIOUS
<1>9. q \in headers /\ \A r \in headers : r = q \/ Before(r, q)
  BY <1>6, <1>7, <1>8
<1>10. q = g
  <2>1. SUFFICES ASSUME Before(g, q), Before(q, g) PROVE FALSE
    BY <1>6, <1>7, <1>9
  <2>2. q[1] \in Nat /\ q[2] \in Nat /\ g[1] = k /\ g[2] = h
    BY <1>1, <1>4, <1>9, PlaceIs DEF KeptLines
  <2> QED
    BY <1>2, <2>1, <2>2 DEF Before
<1>11. Header(p) = TheLine(q).address
  BY <1>4, <1>6, <1>8 DEF Header
<1> QED
  BY <1>1, <1>3, <1>10, <1>11

\* A call with a line about a word has a difference.
LEMMA WordHasDiff ==
  ASSUME CallsFit, NEW k \in DOMAIN results, NEW n \in DOMAIN results[k],
         results[k][n].kind \in {"raw", "named", "contract"}
  PROVE  k \in WithDiff
<1>1. PICK list, none : list = results[k] /\ none = "no state diff"
  OBVIOUS
<1>2. none \notin {"raw", "named", "contract"}
  BY <1>1
<1>3. SUFFICES ASSUME list = NoDiff PROVE FALSE
  BY <1>1 DEF WithDiff
<1>4. list = <<[kind |-> none]>>
  BY <1>1, <1>3 DEF NoDiff
<1>5. list[n].kind = none
  BY <1>1, <1>4, OneLineIs
<1> QED
  BY <1>1, <1>2, <1>5

\* A header that does not stay has another one before it, of an earlier call.
LEMMA HeaderGoes ==
  ASSUME CallsFit, NEW k \in DOMAIN results, NEW h \in DOMAIN results[k], NEW a,
         results[k][h] = [kind |-> "contract", address |-> a], <<k, h>> \notin KeptLines
  PROVE  /\ Len(results) # 1
         /\ \E j \in WithDiff : j < k /\ \E d \in history[j] : d.address = a
<1>1. PICK q \in KeptLines : /\ q \in Places /\ TheLine(q) = TheLine(<<k, h>>)
                             /\ q = <<k, h>> \/ Before(q, <<k, h>>)
  BY FirstStays, PlaceIs
<1>2. PICK j, x : j = q[1] /\ x = q[2]
  OBVIOUS
<1>3. /\ j \in DOMAIN results /\ x \in DOMAIN results[j] /\ q = <<j, x>>
      /\ j \in Nat /\ x \in Nat /\ k \in Nat /\ h \in Nat
  BY <1>1, <1>2, PlaceIs
<1>4. results[j][x] = [kind |-> "contract", address |-> a]
  BY <1>1, <1>3, PlaceIs
<1>5. results[j][x].kind = "contract" /\ results[j][x].address = a
  BY <1>4
<1>6. j < k \/ (j = k /\ x < h)
  <2>1. Before(<<j, x>>, <<k, h>>)
    BY <1>1, <1>3
  <2> QED
    BY <2>1 DEF Before
<1>7. j < k
  <2>1. SUFFICES ASSUME j = k, x < h PROVE FALSE
    BY <1>6
  <2>2. results[k][h].kind = "contract" /\ results[k][h].address = a
    OBVIOUS
  <2>3. x = h
    BY <1>3, <1>5, <2>1, <2>2 DEF CallsFit, CallFits
  <2> QED
    BY <1>3, <2>1, <2>3
<1>8. \E d \in history[j] : d.address = a
  BY <1>3, <1>5 DEF CallsFit, CallFits
<1>9. j \in WithDiff
  BY <1>3, <1>5, WordHasDiff
<1>10. Len(results) # 1
  <2>1. DOMAIN results = 1..Len(results)
    BY AListIs DEF CallsFit
  <2>2. SUFFICES ASSUME Len(results) = 1 PROVE FALSE
    OBVIOUS
  <2> QED
    BY <1>3, <1>7, <2>1, <2>2
<1> QED
  BY <1>7, <1>8, <1>9, <1>10

\* How a line that stays is listed.
ListedAs(p) ==
  [address |-> IF TheLine(p).kind = "raw" THEN Header(p) ELSE TheLine(p).address,
   slot |-> TheLine(p).slot, old |-> TheLine(p).old, new |-> TheLine(p).new]

\* The report lists one change for each line kept that tells of one.
LEMMA ListedHas ==
  /\ \A l \in ListedChanges : \E p \in KeptLines : /\ p \in Places /\ TheLine(p).kind \in {"raw", "named"}
                                                   /\ l = ListedAs(p)
  /\ \A p \in KeptLines : TheLine(p).kind \in {"raw", "named"} => ListedAs(p) \in ListedChanges
BY DEF ListedChanges, ListedAs, KeptLines

\* What the report lists a line as: the word of the line, under the last header for a raw one.
LEMMA ListedFields ==
  ASSUME NEW p
  PROVE  /\ \A c : SameWord(ListedAs(p), c) <=> SameWord(TheLine(p), c)
         /\ TheLine(p).kind = "raw" => ListedAs(p).address = Header(p)
         /\ TheLine(p).kind # "raw" => ListedAs(p).address = TheLine(p).address
<1>1. PICK a, s, o, n : /\ a = IF TheLine(p).kind = "raw" THEN Header(p) ELSE TheLine(p).address
                        /\ s = TheLine(p).slot /\ o = TheLine(p).old /\ n = TheLine(p).new
  OBVIOUS
<1>2. ListedAs(p) = [address |-> a, slot |-> s, old |-> o, new |-> n]
  BY <1>1 DEF ListedAs
<1>3. /\ ListedAs(p).address = a /\ ListedAs(p).slot = s /\ ListedAs(p).old = o
      /\ ListedAs(p).new = n
  BY <1>2
<1> QED
  BY <1>1, <1>3 DEF SameWord

\* A line of a word is that of a change, under its contract or one that an
\* earlier call changed.
LEMMA LineBelongs ==
  ASSUME CallsFit, NEW k \in DOMAIN results, NEW n \in DOMAIN results[k], NEW c,
         results[k][n].kind \in {"raw", "named"}, Tells(results[k], n, c)
  PROVE  /\ SameWord(ListedAs(<<k, n>>), c)
         /\ \/ ListedAs(<<k, n>>).address = c.address
            \/ /\ results[k][n].kind = "raw" /\ Len(results) # 1
               /\ \E j \in WithDiff : j < k /\ \E d \in history[j] : d.address = c.address
<1>1. TheLine(<<k, n>>) = results[k][n]
  BY PlaceIs
<1>2. SameWord(ListedAs(<<k, n>>), c)
  <2>1. SameWord(c, results[k][n])
    BY DEF Tells
  <2>2. SameWord(TheLine(<<k, n>>), c)
    BY <1>1, <2>1 DEF SameWord
  <2> QED
    BY <2>2, ListedFields
<1>3. CASE results[k][n].kind = "named"
  <2>1. c.address = results[k][n].address /\ TheLine(<<k, n>>).kind # "raw"
    BY <1>1, <1>3 DEF Tells, NamedRightly
  <2>2. ListedAs(<<k, n>>).address = c.address
    BY <1>1, <2>1, ListedFields
  <2> QED
    BY <1>2, <2>2
<1>4. CASE results[k][n].kind = "raw"
  <2>1. Under(results[k], n, c.address)
    BY <1>4 DEF Tells
  <2>2. PICK h \in DOMAIN results[k] :
          /\ h < n /\ results[k][h] = [kind |-> "contract", address |-> c.address]
          /\ \A m \in DOMAIN results[k] : h < m /\ m <= n => results[k][m].kind # "contract"
    BY <2>1 DEF Under
  <2>3. CASE <<k, h>> \in KeptLines
    <3>1. Header(<<k, n>>) = c.address
      BY <2>2, <2>3, HeaderIs
    <3>2. ListedAs(<<k, n>>).address = c.address
      BY <1>1, <1>4, <3>1, ListedFields
    <3> QED
      BY <1>2, <3>2
  <2>4. CASE <<k, h>> \notin KeptLines
    <3>1. /\ Len(results) # 1
          /\ \E j \in WithDiff : j < k /\ \E d \in history[j] : d.address = c.address
      BY <2>2, <2>4, HeaderGoes
    <3> QED
      BY <1>2, <1>4, <3>1
  <2> QED
    BY <2>3, <2>4
<1> QED
  BY <1>3, <1>4

\* Every change that there is a difference for has a line, a named one if there is any.
LEMMA ChangeHasLine ==
  ASSUME CallsFit, NEW k \in WithDiff, NEW c \in history[k]
  PROVE  /\ k \in DOMAIN results
         /\ \E n \in DOMAIN results[k] : /\ results[k][n].kind \in {"raw", "named"}
                                         /\ Tells(results[k], n, c)
                                         /\ NamedFor(k, c) => results[k][n].kind = "named"
<1>1. k \in DOMAIN results /\ CallFits(results[k], history[k]) /\ results[k] # NoDiff
  BY DEF WithDiff, CallsFit
<1>2. CASE NamedFor(k, c)
  <2>1. PICK n \in DOMAIN results[k] : /\ results[k][n].kind = "named"
                             /\ results[k][n].address = c.address /\ results[k][n].slot = c.slot
    BY <1>2 DEF NamedFor
  <2>2. results[k][n].kind \in {"raw", "named"}
    BY <2>1
  <2>3. PICK d \in history[k] : Tells(results[k], n, d)
    BY <1>1, <2>1, <2>2 DEF CallFits
  <2>4. d.address = c.address /\ d.slot = c.slot
    BY <2>1, <2>3 DEF Tells, NamedRightly, SameWord
  <2>5. c = d
    BY <1>1, <2>4 DEF CallFits
  <2> QED
    BY <1>1, <2>1, <2>2, <2>3, <2>5
<1>3. CASE ~NamedFor(k, c)
  BY <1>1, <1>3 DEF CallFits
<1> QED
  BY <1>2, <1>3

\* Every change that there is a difference for is listed, and where the merge
\* cannot move it, under its contract.
LEMMA ChangeIsListed ==
  ASSUME CallsFit, NEW k \in WithDiff, NEW c \in history[k]
  PROVE  \E l \in ListedChanges :
           /\ SameWord(l, c)
           /\ Len(results) = 1 \/ NamedFor(k, c) \/ FirstTold(k, c) => l.address = c.address
<1>1. k \in DOMAIN results /\ k \in Nat
  BY ChangeHasLine, AListIs DEF CallsFit
<1>2. PICK n \in DOMAIN results[k] : /\ results[k][n].kind \in {"raw", "named"}
                                     /\ Tells(results[k], n, c)
                                     /\ NamedFor(k, c) => results[k][n].kind = "named"
  BY ChangeHasLine
<1>3. PICK p : p = <<k, n>>
  OBVIOUS
<1>4. p \in Places /\ TheLine(p) = results[k][n] /\ p[1] = k
  BY <1>1, <1>3, PlaceIs
<1>5. SameWord(c, results[k][n])
  BY <1>2 DEF Tells
<1>6. CASE Len(results) = 1
  <2>1. p \in KeptLines
    BY <1>4, <1>6 DEF KeptLines
  <2>2. ListedAs(p) \in ListedChanges
    BY <1>2, <1>4, <2>1, ListedHas
  <2>3. SameWord(ListedAs(p), c) /\ ListedAs(p).address = c.address
    BY <1>1, <1>2, <1>3, <1>6, LineBelongs
  <2> QED
    BY <2>2, <2>3
<1>7. CASE Len(results) # 1
  <2>1. PICK q \in KeptLines : q \in Places /\ TheLine(q) = TheLine(p) /\ (q = p \/ Before(q, p))
    BY <1>4, FirstStays
  <2>2. PICK j, m : j = q[1] /\ m = q[2]
    OBVIOUS
  <2>3. /\ j \in DOMAIN results /\ m \in DOMAIN results[j] /\ q = <<j, m>>
        /\ j \in Nat /\ TheLine(q) = results[j][m]
    <3>1. /\ j \in DOMAIN results /\ m \in DOMAIN results[j] /\ q = <<j, m>> /\ j \in Nat
      BY <2>1, <2>2, PlaceIs
    <3> QED
      BY <3>1, PlaceIs
  <2>4. results[j][m] = results[k][n]
    BY <1>4, <2>1, <2>3
  <2>5. j <= k
    BY <1>1, <1>4, <2>1, <2>2, <2>3 DEF Before
  <2>6. ListedAs(q) \in ListedChanges
    BY <1>2, <2>1, <2>3, <2>4, ListedHas
  <2>7. SameWord(ListedAs(q), c)
    <3>1. SameWord(TheLine(q), c)
      BY <1>5, <2>3, <2>4 DEF SameWord
    <3> QED
      BY <3>1, ListedFields
  <2>8. ASSUME results[k][n].kind = "named" PROVE ListedAs(q).address = c.address
    <3>1. results[k][n].address = c.address
      BY <1>2, <2>8 DEF Tells, NamedRightly
    <3>2. TheLine(q).kind # "raw" /\ TheLine(q).address = c.address
      BY <2>3, <2>4, <2>8, <3>1
    <3> QED
      BY <3>2, ListedFields
  <2>9. ASSUME FirstTold(k, c), results[k][n].kind # "named" PROVE ListedAs(q).address = c.address
    <3>1. results[j][m].kind \in {"raw", "named"}
      BY <1>2, <2>4
    <3>2. PICK d \in history[j] : Tells(results[j], m, d)
      BY <2>3, <3>1 DEF CallsFit, CallFits
    <3>3. SameWord(c, d)
      BY <1>5, <2>4, <3>2 DEF Tells, SameWord
    <3>4. j \in WithDiff
      BY <2>3, <3>1, WordHasDiff
    <3>5. d.address = c.address
      BY <2>5, <2>9, <3>3, <3>4 DEF FirstTold
    <3>6. \/ ListedAs(<<j, m>>).address = d.address
          \/ \E i \in WithDiff : i < j /\ \E x \in history[i] : x.address = d.address
      BY <2>3, <3>1, <3>2, LineBelongs
    <3>7. ASSUME NEW i \in WithDiff, i < j, \E x \in history[i] : x.address = d.address PROVE FALSE
      <4>1. i >= k
        BY <2>9, <3>5, <3>7 DEF FirstTold
      <4>2. i \in Nat
        BY AListIs DEF WithDiff, CallsFit
      <4> QED
        BY <1>1, <2>3, <2>5, <3>7, <4>1, <4>2
    <3> QED
      BY <2>3, <3>5, <3>6, <3>7
  <2> QED
    BY <1>2, <1>7, <2>6, <2>7, <2>8, <2>9
<1> QED
  BY <1>6, <1>7

\* What the merged lines tell is what the property asks for.
LEMMA MergedLinesTell ==
  ASSUME CallsFit, EncodedRightly
  PROVE  StorageIsUnderstood
<1>1. ASSUME NEW k \in WithDiff, NEW c \in history[k]
      PROVE  /\ \E l \in ListedChanges : SameWord(l, c)
             /\ Len(results) = 1 \/ NamedFor(k, c) \/ FirstTold(k, c) =>
                  \E l \in ListedChanges : SameWord(l, c) /\ l.address = c.address
  <2>1. PICK l \in ListedChanges :
           /\ SameWord(l, c)
           /\ Len(results) = 1 \/ NamedFor(k, c) \/ FirstTold(k, c) => l.address = c.address
    BY <1>1, ChangeIsListed
  <2> QED
    BY <2>1
<1>2. ASSUME NEW l \in ListedChanges
      PROVE  \E k \in WithDiff : \E c \in history[k] :
               /\ SameWord(l, c)
               /\ l.address = c.address
                    \/ \E j \in WithDiff : j < k /\ \E d \in history[j] : d.address = c.address
  <2>1. PICK p \in KeptLines : /\ p \in Places /\ TheLine(p).kind \in {"raw", "named"}
                               /\ l = ListedAs(p)
    BY ListedHas
  <2>2. PICK k, n : k = p[1] /\ n = p[2]
    OBVIOUS
  <2>3. /\ k \in DOMAIN results /\ n \in DOMAIN results[k] /\ p = <<k, n>>
    BY <2>1, <2>2, PlaceIs
  <2>4. TheLine(p) = results[k][n]
    BY <2>3, PlaceIs
  <2>5. results[k][n].kind \in {"raw", "named"}
    BY <2>1, <2>4
  <2>6. PICK c \in history[k] : Tells(results[k], n, c)
    BY <2>3, <2>5 DEF CallsFit, CallFits
  <2>7. k \in WithDiff
    BY <2>3, <2>5, WordHasDiff
  <2> QED
    BY <2>1, <2>3, <2>5, <2>6, <2>7, LineBelongs
<1>3. ASSUME NEW p \in Places, TheLine(p).kind = "named"
      PROVE  \E c \in history[p[1]] :
               /\ c.address = TheLine(p).address /\ SameWord(c, TheLine(p))
               /\ c.codes \subseteq {TheLine(p).code} \cup Libraries[TheLine(p).code]
               /\ c.new = WordOf(c.old, TheLine(p).fields)
  <2>1. PICK k, n : k = p[1] /\ n = p[2]
    OBVIOUS
  <2>2. k \in DOMAIN results /\ n \in DOMAIN results[k] /\ p = <<k, n>>
    BY <2>1, PlaceIs
  <2>3. TheLine(p) = results[k][n]
    BY <2>2, PlaceIs
  <2>4. results[k][n].kind = "named" /\ results[k][n].kind \in {"raw", "named"}
    BY <1>3, <2>3
  <2>5. PICK c \in history[k] : Tells(results[k], n, c)
    BY <2>2, <2>4 DEF CallsFit, CallFits
  <2> QED
    BY <2>1, <2>3, <2>4, <2>5 DEF Tells, NamedRightly
<1>4. ASSUME NEW p \in Places, TheLine(p).kind = "named"
      PROVE  \E c \in history[p[1]] :
               /\ c.address = TheLine(p).address /\ SameWord(c, TheLine(p))
               /\ c.codes \subseteq {TheLine(p).code} \cup Libraries[TheLine(p).code]
               /\ c.new = [x \in Parts |-> IF \E f \in TheLine(p).fields : f.label = x
                                             THEN (CHOOSE f \in TheLine(p).fields : f.label = x).new
                                             ELSE c.old[x]]
  BY <1>3, <1>4 DEF WordOf
<1> QED
  BY <1>1, <1>2, <1>4 DEF StorageIsUnderstood, EncodedRightly
-----------------------------------------------------------------------------
(* The invariant: what is written is known, and what was said fits.        *)

StorageInv == StorageFits /\ overrides \in Overrides /\ AList(history) /\ CallsFit /\ EncodedRightly

\* The check starts with nothing written and nothing said.
LEMMA StorageStarts ==
  ASSUME StorageInit
  PROVE  StorageInv
<1>1. PICK e : e = Empty
  OBVIOUS
<1>2. e \in Word
  BY <1>1 DEF Empty, Word, Values
<1>3. original = [a \in Addresses |-> [s \in Slots |-> e]] /\ storage = original /\ writers = {}
  BY <1>1 DEF StorageInit
<1>4. StorageFits
  <2>1. original \in [Addresses -> [Slots -> Word]]
    BY <1>2, <1>3
  <2>2. IsFiniteSet({})
    BY FS_EmptySet
  <2> QED
    BY <1>3, <2>1, <2>2 DEF StorageFits
<1>5. results = <<>> /\ history = <<>> /\ encoded.state # "done" /\ overrides \in Overrides
  BY DEF StorageInit, NotEncoded
<1>6. AList(results) /\ AList(history) /\ DOMAIN results = {} /\ DOMAIN history = {}
  BY <1>5, NoneOf
<1>7. CallsFit
  BY <1>6 DEF CallsFit
<1> QED
  BY <1>4, <1>5, <1>6, <1>7 DEF StorageInv, EncodedRightly

\* A write is one of the calls on its contract's storage.
LEMMA WriteKeepsStorage ==
  ASSUME StorageInv, NEW n \in DOMAIN frames, NEW s \in Slots, NEW p \in Parts, NEW v \in Values,
         Write(n, s, p, v)
  PROVE  StorageFits'
<1>1. PICK a, c : a = Context[n] /\ c = frames[n].to
  OBVIOUS
<1>2. /\ ~frames[1].failed /\ n \in StorageCalls(a)
      /\ storage' = [storage EXCEPT ![a][s][p] = v]
      /\ writers' = writers \cup {[address |-> a, code |-> c]}
      /\ frames' = frames /\ original' = original
  BY <1>1 DEF Write, StorageCalls
<1>3. storage \in [Addresses -> [Slots -> Word]] /\ original \in [Addresses -> [Slots -> Word]]
  BY DEF StorageInv, StorageFits
<1>4. storage' \in [Addresses -> [Slots -> Word]] /\ original' \in [Addresses -> [Slots -> Word]]
  BY <1>2, <1>3 DEF Word
<1>5. \A b \in Addresses : b # a => storage'[b] = storage[b]
  BY <1>2, <1>3
<1>6. \A b : StorageCalls(b)' = StorageCalls(b)
  BY <1>2 DEF StorageCalls, LiveFrame, Context, Delegates, Forwards
<1>7. ASSUME NEW w \in writers' PROVE \E m \in StorageCalls(w.address)' : frames'[m].to = w.code
  <2>1. CASE w \in writers
    BY <1>2, <1>6, <2>1 DEF StorageInv, StorageFits
  <2>2. CASE w \notin writers
    <3>1. w.address = a /\ w.code = c
      BY <1>2, <2>2
    <3> QED
      BY <1>1, <1>2, <1>6, <3>1
  <2> QED
    BY <2>1, <2>2
<1>8. \E A : IsFiniteSet(A) /\
        \A b \in Addresses : (\E t \in Slots : storage'[b][t] # original'[b][t]) => b \in A
  <2>1. PICK A : IsFiniteSet(A) /\
       \A b \in Addresses : (\E t \in Slots : storage[b][t] # original[b][t]) => b \in A
    BY DEF StorageInv, StorageFits
  <2>2. PICK B : B = A \cup {a}
    OBVIOUS
  <2>3. IsFiniteSet(B)
    BY <2>1, <2>2, FS_AddElement
  <2>4. \A b \in Addresses : (\E t \in Slots : storage'[b][t] # original'[b][t]) => b \in B
    BY <1>2, <1>5, <2>1, <2>2
  <2> QED
    BY <2>3, <2>4
<1> QED
  BY <1>2, <1>4, <1>7, <1>8 DEF StorageFits

\* Nothing of the trace or the storage moves.
LEMMA StorageStands ==
  ASSUME StorageFits, UNCHANGED <<frames, original, storage, writers>>
  PROVE  StorageFits'
<1>1. frames' = frames /\ storage' = storage /\ original' = original /\ writers' = writers
  OBVIOUS
<1>2. \A a : StorageCalls(a)' = StorageCalls(a)
  BY <1>1 DEF StorageCalls, LiveFrame, Context, Delegates, Forwards
<1> QED
  BY <1>1, <1>2 DEF StorageFits

\* The next call starts from the storage as it is.
LEMMA NextCallKeepsStorage ==
  ASSUME StorageFits, NextCall
  PROVE  StorageFits'
<1>1. storage' = storage /\ original' = storage /\ writers' = {}
  BY DEF NextCall
<1>2. IsFiniteSet({})
  BY FS_EmptySet
<1> QED
  BY <1>1, <1>2 DEF StorageFits

\* The list is put together from the storage as it is.
LEMMA CheckKeepsFit ==
  ASSUME StorageInv, CheckStates
  PROVE  CallsFit' /\ AList(history)'
<1>1. PICK list : list \in {Lines, IF frames[1].failed THEN Lines ELSE NoDiff}
                  /\ results' = Append(results, list)
  BY DEF CheckStates
<1>2. history' = Append(history, Difference)
  BY DEF CheckStates
<1>3. CallFits(list, Difference)
  <2>1. CallFits(Lines, Difference)
    BY LinesFit DEF StorageInv
  <2>2. CallFits(NoDiff, Difference)
    <3>1. PICK none : none = "no state diff"
      OBVIOUS
    <3>2. none \notin {"contract", "raw", "named"}
      BY <3>1
    <3>3. NoDiff = <<[kind |-> none]>>
      BY <3>1 DEF NoDiff
    <3> QED
      BY <3>2, <3>3, OneLineFits
  <2> QED
    BY <1>1, <2>1, <2>2
<1>4. PICK L : L = Len(results)
  OBVIOUS
<1>5. /\ AList(results) /\ AList(history) /\ L \in Nat /\ DOMAIN results = 1..L
      /\ DOMAIN history = 1..L /\ Len(history) = L
  <2>1. /\ AList(results) /\ AList(history) /\ DOMAIN history = DOMAIN results
        /\ Len(results) \in Nat /\ DOMAIN results = 1..Len(results)
        /\ Len(history) \in Nat /\ DOMAIN history = 1..Len(history)
    BY AListIs DEF StorageInv, CallsFit
  <2>2. Len(history) = Len(results)
    BY <2>1
  <2> QED
    BY <1>4, <2>1, <2>2
<1>6. /\ AList(results') /\ Len(results') = L + 1 /\ results'[L + 1] = list
      /\ \A k \in 1..L : results'[k] = results[k]
  BY <1>1, <1>4, <1>5, OneMore DEF Grows
<1>7. /\ AList(history') /\ Len(history') = L + 1 /\ history'[L + 1] = Difference
      /\ \A k \in 1..L : history'[k] = history[k]
  BY <1>2, <1>5, OneMore DEF Grows
<1>8. DOMAIN results' = 1..(L + 1) /\ DOMAIN history' = 1..(L + 1)
  BY <1>6, <1>7, AListIs
<1>9. ASSUME NEW k \in 1..(L + 1) PROVE CallFits(results'[k], history'[k])
  <2>1. CASE k = L + 1
    BY <1>3, <1>6, <1>7, <2>1
  <2>2. CASE k # L + 1
    <3>1. k \in 1..L
      BY <1>5, <2>2
    <3> QED
      BY <1>5, <1>6, <1>7, <3>1 DEF StorageInv, CallsFit
  <2> QED
    BY <2>1, <2>2
<1>10. CallsFit'
  BY <1>6, <1>8, <1>9 DEF CallsFit
<1> QED
  BY <1>7, <1>10

\* What is encoded stays right as long as it is not touched.
LEMMA EncodedStands ==
  ASSUME EncodedRightly, overrides' = overrides, encoded' = encoded
  PROVE  EncodedRightly'
<1>1. ASSUME NEW t, NEW q PROVE LastOverride(t, q)' = LastOverride(t, q)
  BY DEF LastOverride
<1> QED
  BY <1>1 DEF EncodedRightly

\* What was said stays said.
LEMMA SaidStands ==
  ASSUME CallsFit, AList(history), results' = results, history' = history
  PROVE  CallsFit' /\ AList(history)'
BY DEF CallsFit

\* Every step keeps the invariant.
LEMMA StorageKeeps ==
  ASSUME StorageInv, [StorageNext]_storageVars
  PROVE  StorageInv'
<1> USE DEF StorageInv
<1>1. ASSUME NEW n \in DOMAIN frames, NEW s \in Slots, NEW p \in Parts, NEW v \in Values,
             Write(n, s, p, v)
      PROVE  StorageInv'
  <2>1. /\ results' = results /\ history' = history /\ overrides' = overrides
        /\ encoded' = encoded
    BY <1>1 DEF Write
  <2>2. StorageFits'
    BY <1>1, WriteKeepsStorage
  <2> QED
    BY <2>1, <2>2, EncodedStands, SaidStands
<1>2. CASE CheckStates
  <2>1. UNCHANGED <<frames, original, storage, writers>> /\ overrides' = overrides /\ encoded' = encoded
    BY <1>2 DEF CheckStates
  <2> QED
    BY <1>2, <2>1, StorageStands, CheckKeepsFit, EncodedStands
<1>3. CASE NextCall
  <2>1. /\ results' = results /\ history' = history /\ overrides' = overrides
        /\ encoded' = encoded
    BY <1>3 DEF NextCall
  <2> QED
    BY <1>3, <2>1, NextCallKeepsStorage, EncodedStands, SaidStands
<1>4. CASE Encode
  <2>1. /\ UNCHANGED <<frames, original, storage, writers>> /\ overrides' = overrides
        /\ results' = results /\ history' = history
    BY <1>4 DEF Encode
  <2> QED
    BY <1>4, <2>1, StorageStands, SaidStands, EncodeIsRight
<1>5. CASE UNCHANGED storageVars
  <2>1. /\ UNCHANGED <<frames, original, storage, writers>> /\ overrides' = overrides
        /\ results' = results /\ history' = history /\ encoded' = encoded
    BY <1>5 DEF storageVars
  <2> QED
    BY <2>1, StorageStands, SaidStands, EncodedStands
<1> QED
  BY <1>1, <1>2, <1>3, <1>4, <1>5 DEF StorageNext

\* However many calls a chain is sent, every word of storage that they changed is
\* listed, under its contract where the merge of their results leaves it there,
\* and named only as the one code that wrote it has it; encoded overrides hold
\* each field's last value over the chain's bits.
THEOREM StorageIsToldRight ==
  StorageSpec => []StorageIsUnderstood
<1>1. StorageInit => StorageInv
  BY StorageStarts
<1>2. StorageInv /\ [StorageNext]_storageVars => StorageInv'
  BY StorageKeeps
<1>3. StorageInv => StorageIsUnderstood
  BY MergedLinesTell DEF StorageInv
<1> QED
  BY <1>1, <1>2, <1>3, PTL DEF StorageSpec
-----------------------------------------------------------------------------
(* PermissionEvidence: lists of items, and whom they name as holders.      *)

Itemed(list) ==
  /\ AList(list)
  /\ \A n \in 1..Len(list) :
       list[n] = Item(list[n].kind, list[n].contract, list[n].previous, list[n].next)
Names(list, kind, c, x) ==
  \E n \in 1..Len(list) : list[n].kind = kind /\ list[n].contract = c /\ list[n].next = x
Later(item) == item.kind \in RoleChanges /\ item.kind # FirstMove(item.contract, item.next)
Earliest(item) == [item EXCEPT !.kind = FirstMove(item.contract, item.next)]
Led(list) == \A n \in 1..Len(list) : Later(list[n]) => \E m \in 1..(n - 1) : list[m] = Earliest(list[n])

\* What is kept stands in its order.
Keeps(list, S, kept) ==
  \E f \in [1..Len(kept) -> S] :
    /\ \A j, k \in 1..Len(kept) : j < k => f[j] < f[k]
    /\ \A n \in S : \E k \in 1..Len(kept) : f[k] = n
    /\ \A k \in 1..Len(kept) : kept[k] = list[f[k]]

\* What is kept at some places is a list of it, in order.
LEMMA KeptIs ==
  ASSUME NEW list, NEW L \in Nat, NEW S, S \subseteq 1..L
  PROVE  AList(ItemsAt(list, S)) /\ Keeps(list, S, ItemsAt(list, S))
<1>1. S \subseteq Nat /\ IsFiniteSet(S)
  <2>1. IsFiniteSet(1..L)
    BY FS_Interval
  <2>2. IsFiniteSet(S)
    BY <2>1, FS_Subset
  <2>3. 1..L \subseteq Nat
    OBVIOUS
  <2> QED
    BY <2>2, <2>3
<1>2. PICK u, N : u = Picked(list, S) /\ N = Cardinality(S)
  OBVIOUS
<1>3. AList(u) /\ Len(u) = N /\ \A k \in 1..N : u[k] = list[Nth(S, k)]
  <2>1. PicksFrom(list, S, Picked(list, S))
    BY <1>1, PickedPicks
  <2> QED
    BY <1>2, <2>1 DEF PicksFrom
<1>4. u = ItemsAt(list, S)
  BY <1>2 DEF ItemsAt, Picked
<1>5. PICK f : f = [k \in 1..N |-> Nth(S, k)]
  OBVIOUS
<1>6. \A k \in 1..N : Nth(S, k) \in S
  BY <1>1, <1>2, Nths
<1>7. f \in [1..N -> S]
  BY <1>5, <1>6
<1>8. \A j, k \in 1..N : j < k => f[j] < f[k]
  <2>1. \A j, k \in 1..N : j < k => Nth(S, j) < Nth(S, k)
    BY <1>1, <1>2, Nths
  <2> QED
    BY <1>5, <2>1
<1>9. \A n \in S : \E k \in 1..N : f[k] = n
  <2>1. \A n \in S : \E k \in 1..N : n = Nth(S, k)
    BY <1>1, <1>2, Nths
  <2> QED
    BY <1>5, <2>1
<1>10. \A k \in 1..N : u[k] = list[f[k]]
  BY <1>3, <1>5
<1>11. Keeps(list, S, u)
  BY <1>3, <1>7, <1>8, <1>9, <1>10 DEF Keeps
<1> QED
  BY <1>3, <1>4, <1>11

\* An item with another kind, or with another former holder.
LEMMA ItemFields ==
  \A i, v : i = Item(i.kind, i.contract, i.previous, i.next) =>
    /\ [i EXCEPT !.kind = v] = Item(v, i.contract, i.previous, i.next)
    /\ [i EXCEPT !.previous = v] = Item(i.kind, i.contract, v, i.next)
BY DEF Item

\* An item has the fields that it is made of.
LEMMA ItemHas ==
  \A k, c, x, y : /\ Item(k, c, x, y).kind = k /\ Item(k, c, x, y).contract = c
                  /\ Item(k, c, x, y).previous = x /\ Item(k, c, x, y).next = y
BY DEF Item

\* The first move of an item's account, as an item.
LEMMA EarliestIs ==
  ASSUME NEW i, i = Item(i.kind, i.contract, i.previous, i.next)
  PROVE  /\ Earliest(i) = Item(FirstMove(i.contract, i.next), i.contract, i.previous, i.next)
         /\ FirstMove(i.contract, i.next) \in RoleChanges
BY ItemFields DEF Earliest, FirstMove, RoleChanges

\* What is told of a role is told of nothing else.
LEMMA RolesApart == \A k \in RoleChanges : k \notin {"admin", "pendingAdmin", "owner"} /\ k \notin Kinds
BY DEF RoleChanges, Kinds

\* A later move of a role follows the first, in what is kept too.
LEMMA KeptIsLed ==
  ASSUME NEW list, NEW L \in Nat, NEW S, S \subseteq 1..L,
         \A n \in S : Later(list[n]) => \E m \in S : m < n /\ list[m] = Earliest(list[n])
  PROVE  Led(ItemsAt(list, S))
<1>1. PICK u : u = ItemsAt(list, S)
  OBVIOUS
<1>2. AList(u) /\ Keeps(list, S, u)
  BY <1>1, KeptIs
<1>3. PICK N : N = Len(u)
  OBVIOUS
<1>4. N \in Nat
  BY <1>2, <1>3, AListIs
<1>5. PICK f \in [1..N -> S] :
        /\ \A j, k \in 1..N : j < k => f[j] < f[k]
        /\ \A n \in S : \E k \in 1..N : f[k] = n
        /\ \A k \in 1..N : u[k] = list[f[k]]
  BY <1>2, <1>3 DEF Keeps
<1>6. ASSUME NEW k \in 1..N, Later(u[k]) PROVE \E j \in 1..(k - 1) : u[j] = Earliest(u[k])
  <2>1. PICK n \in S : n = f[k] /\ u[k] = list[n]
    BY <1>5
  <2>2. PICK m \in S : m < n /\ list[m] = Earliest(list[n])
    BY <1>6, <2>1
  <2>3. PICK j \in 1..N : f[j] = m
    BY <1>5
  <2>4. n \in Nat /\ m \in Nat /\ j \in Nat /\ k \in Nat
    OBVIOUS
  <2>5. ~(k < j) /\ k # j
    <3>1. k < j => n < m
      BY <1>5, <2>1, <2>3
    <3>2. ~(n < m) /\ n # m
      BY <2>2, <2>4
    <3> QED
      BY <2>1, <2>3, <3>1, <3>2
  <2>6. j \in 1..(k - 1)
    BY <2>4, <2>5
  <2>7. u[j] = Earliest(u[k])
    BY <1>5, <2>1, <2>2, <2>3
  <2> QED
    BY <2>6, <2>7
<1> QED
  BY <1>1, <1>3, <1>6 DEF Led

\* An item that was seen before is dropped, and none is lost.
LEMMA DedupedTells ==
  ASSUME NEW list, Itemed(list), Led(list)
  PROVE  /\ Itemed(Deduped(list)) /\ Led(Deduped(list))
         /\ \A k, c, x : Names(Deduped(list), k, c, x) <=> Names(list, k, c, x)
<1>1. PICK L, S : L = Len(list) /\ S = {n \in DOMAIN list : \A m \in 1..(n - 1) : list[m] # list[n]}
  OBVIOUS
<1>2. L \in Nat /\ DOMAIN list = 1..L
  BY <1>1, AListIs DEF Itemed
<1>3. S \subseteq 1..L
  BY <1>1, <1>2
<1>4. PICK u, N : u = Deduped(list) /\ N = Len(u)
  OBVIOUS
<1>5. u = ItemsAt(list, S)
  BY <1>1, <1>4 DEF Deduped
<1>6. AList(u) /\ Keeps(list, S, u)
  BY <1>2, <1>3, <1>5, KeptIs
<1>7. PICK f \in [1..N -> S] :
        /\ \A n \in S : \E k \in 1..N : f[k] = n
        /\ \A k \in 1..N : u[k] = list[f[k]]
  BY <1>4, <1>6 DEF Keeps
<1>8. ASSUME NEW n \in 1..L PROVE \E m \in S : m <= n /\ list[m] = list[n]
  <2>1. PICK T : T = {m \in 1..L : list[m] = list[n]}
    OBVIOUS
  <2>2. PICK m \in T : \A q \in T : m <= q
    <3>1. T \subseteq Nat /\ T # {}
      BY <2>1
    <3> QED
      BY <3>1, LeastNumber
  <2>3. m \in 1..L /\ list[m] = list[n] /\ m <= n
    BY <2>1, <2>2
  <2>4. ASSUME NEW q \in 1..(m - 1), list[q] = list[m] PROVE FALSE
    <3>1. q \in 1..L /\ ~(m <= q)
      BY <1>2, <2>3
    <3>2. q \in T
      BY <2>1, <2>3, <2>4, <3>1
    <3> QED
      BY <2>2, <3>1, <3>2
  <2>5. m \in S
    BY <1>1, <1>2, <2>3, <2>4
  <2> QED
    BY <2>3, <2>5
<1>9. Itemed(u)
  <2>1. \A n \in 1..L : list[n] = Item(list[n].kind, list[n].contract, list[n].previous, list[n].next)
    BY <1>1 DEF Itemed
  <2>2. ASSUME NEW k \in 1..N
        PROVE  u[k] = Item(u[k].kind, u[k].contract, u[k].previous, u[k].next)
    <3>1. f[k] \in 1..L /\ u[k] = list[f[k]]
      BY <1>3, <1>7
    <3>2. PICK i : i = list[f[k]]
      OBVIOUS
    <3>3. i = Item(i.kind, i.contract, i.previous, i.next)
      BY <2>1, <3>1, <3>2
    <3> QED
      BY <3>1, <3>2, <3>3
  <2> QED
    BY <1>4, <1>6, <2>2 DEF Itemed
<1>10. Led(u)
  <2>1. ASSUME NEW n \in S, Later(list[n]) PROVE \E m \in S : m < n /\ list[m] = Earliest(list[n])
    <3>1. n \in 1..L
      BY <1>3
    <3>2. PICK j \in 1..(n - 1) : list[j] = Earliest(list[n])
      BY <1>1, <2>1, <3>1 DEF Led
    <3>3. j \in 1..L /\ j < n
      BY <1>2, <3>1
    <3>4. PICK m \in S : m <= j /\ list[m] = list[j]
      BY <1>8, <3>3
    <3>5. m < n
      BY <1>3, <3>1, <3>3, <3>4
    <3> QED
      BY <3>2, <3>4, <3>5
  <2> QED
    BY <1>2, <1>3, <1>5, <2>1, KeptIsLed
<1>11. ASSUME NEW k, NEW c, NEW x, Names(u, k, c, x) PROVE Names(list, k, c, x)
  <2>1. PICK n \in 1..N : u[n].kind = k /\ u[n].contract = c /\ u[n].next = x
    BY <1>4, <1>11 DEF Names
  <2>2. f[n] \in 1..L /\ u[n] = list[f[n]]
    BY <1>3, <1>7
  <2> QED
    BY <1>1, <2>1, <2>2 DEF Names
<1>12. ASSUME NEW k, NEW c, NEW x, Names(list, k, c, x) PROVE Names(u, k, c, x)
  <2>1. PICK n \in 1..L : list[n].kind = k /\ list[n].contract = c /\ list[n].next = x
    BY <1>1, <1>12 DEF Names
  <2>2. PICK m \in S : list[m] = list[n]
    BY <1>8
  <2>3. PICK j \in 1..N : f[j] = m /\ u[j] = list[m]
    BY <1>7
  <2> QED
    BY <1>4, <2>1, <2>2, <2>3 DEF Names
<1> QED
  BY <1>4, <1>9, <1>10, <1>11, <1>12

Admins == {"admin", "pendingAdmin"}

\* A list with some former holders replaced, in items of admins only.
Corrects(list, new) ==
  \A n \in 1..Len(list) :
    \/ new[n] = list[n]
    \/ list[n].kind \in Admins /\ \E v : new[n] = [list[n] EXCEPT !.previous = v]

\* Every item that is no admin's, and one of each admin.
Covers(list, S) ==
  \A n \in 1..Len(list) :
    IF list[n].kind \in Admins
    THEN \E m \in S : list[m].kind = list[n].kind /\ list[m].contract = list[n].contract
    ELSE n \in S

\* What mergeTimelockAdminChanges keeps, and corrects.
LEMMA MergedIs ==
  ASSUME NEW list, Itemed(list)
  PROVE  \E new, S : /\ WithMerged(list) = ItemsAt(new, S) /\ S \subseteq 1..Len(list)
                     /\ Corrects(list, new) /\ Covers(list, S)
<1> DEFINE A == {n \in DOMAIN list : list[n].kind \in {"admin", "pendingAdmin"}}
           same(n) == {m \in A : SameChange(list[m], list[n])}
           knowing(n) == {m \in same(n) : list[m].previous # "unknown"}
           mended(n) == IF n \notin A \/ knowing(n) = {} THEN list[n]
                   ELSE LET first == CHOOSE m \in knowing(n) : \A k \in knowing(n) : m <= k IN
                        [list[n] EXCEPT !.previous = list[first].previous]
           new == [n \in DOMAIN list |-> mended(n)]
           S == {n \in DOMAIN list : n \in A => \A m \in same(n) : n <= m}
<1>1. WithMerged(list) = ItemsAt(new, S)
  BY DEF WithMerged
<1>2. PICK L : L = Len(list) /\ L \in Nat /\ DOMAIN list = 1..L
  BY AListIs DEF Itemed
<1>3. S \subseteq 1..L
  BY <1>2
<1>4. Corrects(list, new)
  <2>1. SUFFICES ASSUME NEW n \in 1..L
                 PROVE  \/ mended(n) = list[n]
                        \/ list[n].kind \in Admins /\ \E v : mended(n) = [list[n] EXCEPT !.previous = v]
    BY <1>2 DEF Corrects
  <2> HIDE DEF same, knowing
  <2>2. CASE n \notin A \/ knowing(n) = {}
    BY <2>2
  <2>3. CASE ~(n \notin A \/ knowing(n) = {})
    <3>1. PICK z : z = CHOOSE m \in knowing(n) : \A k \in knowing(n) : m <= k
      OBVIOUS
    <3>2. mended(n) = [list[n] EXCEPT !.previous = list[z].previous]
      BY <2>3, <3>1
    <3>3. list[n].kind \in Admins
      BY <2>3 DEF Admins
    <3> QED
      BY <3>2, <3>3
  <2> QED
    BY <2>2, <2>3
<1>5. Covers(list, S)
  <2>1. ASSUME NEW n \in 1..L, list[n].kind \in Admins
        PROVE  \E m \in S : list[m].kind = list[n].kind /\ list[m].contract = list[n].contract
    <3>1. n \in same(n) /\ same(n) \subseteq 1..L
      BY <1>2, <2>1 DEF SameChange, Admins
    <3>2. PICK m \in same(n) : \A q \in same(n) : m <= q
      <4>1. same(n) \subseteq Nat /\ same(n) # {}
        BY <3>1
      <4> QED
        BY <4>1, LeastNumber
    <3>3. m \in 1..L /\ m \in A /\ list[m].kind = list[n].kind /\ list[m].contract = list[n].contract
      BY <1>2, <3>2 DEF SameChange
    <3>4. same(m) = same(n)
      BY <3>3 DEF SameChange
    <3>5. m \in S
      BY <1>2, <3>2, <3>3, <3>4
    <3> QED
      BY <3>3, <3>5
  <2>2. ASSUME NEW n \in 1..L, list[n].kind \notin Admins PROVE n \in S
    BY <1>2, <2>2 DEF Admins
  <2> HIDE DEF S
  <2> QED
    BY <1>2, <2>1, <2>2 DEF Covers
<1> HIDE DEF new, S
<1> QED
  BY <1>1, <1>2, <1>3, <1>4, <1>5

\* What is corrected names whom it named before.
LEMMA CorrectedItem ==
  ASSUME NEW list, Itemed(list), NEW new, Corrects(list, new), NEW n \in 1..Len(list)
  PROVE  /\ new[n] = Item(new[n].kind, new[n].contract, new[n].previous, new[n].next)
         /\ new[n].kind = list[n].kind /\ new[n].contract = list[n].contract
         /\ new[n].next = list[n].next
         /\ list[n].kind \notin Admins => new[n] = list[n]
<1>1. PICK i, j : i = list[n] /\ j = new[n]
  OBVIOUS
<1>2. i = Item(i.kind, i.contract, i.previous, i.next)
  BY <1>1 DEF Itemed
<1>3. j = i \/ (i.kind \in Admins /\ \E v : j = [i EXCEPT !.previous = v])
  BY <1>1 DEF Corrects
<1>4. CASE j = i
  BY <1>1, <1>2, <1>4
<1>5. CASE i.kind \in Admins /\ \E v : j = [i EXCEPT !.previous = v]
  <2>1. PICK v : j = [i EXCEPT !.previous = v]
    BY <1>5
  <2>2. j = Item(i.kind, i.contract, v, i.next)
    BY <1>2, <2>1, ItemFields
  <2>3. j.kind = i.kind /\ j.contract = i.contract /\ j.previous = v /\ j.next = i.next
    BY <2>2, ItemHas
  <2>4. j = Item(j.kind, j.contract, j.previous, j.next)
    BY <2>2, <2>3
  <2> QED
    BY <1>1, <1>5, <2>3, <2>4
<1> QED
  BY <1>3, <1>4, <1>5

\* Merging loses nobody but another holder of an admin, and adds nobody.
LEMMA MergedTells ==
  ASSUME NEW list, Itemed(list), Led(list)
  PROVE  /\ Itemed(WithMerged(list)) /\ Led(WithMerged(list))
         /\ \A k, c, x : Names(WithMerged(list), k, c, x) => Names(list, k, c, x)
         /\ \A k, c, x : k \notin Admins /\ Names(list, k, c, x) => Names(WithMerged(list), k, c, x)
         /\ \A k, c, x : Names(list, k, c, x) => \E y : Names(WithMerged(list), k, c, y)
<1>1. PICK new, S : /\ WithMerged(list) = ItemsAt(new, S) /\ S \subseteq 1..Len(list)
                    /\ Corrects(list, new) /\ Covers(list, S)
  BY MergedIs
<1>2. PICK L : L = Len(list) /\ L \in Nat
  BY AListIs DEF Itemed
<1>3. PICK u, N : u = WithMerged(list) /\ N = Len(u)
  OBVIOUS
<1>4. AList(u) /\ Keeps(new, S, u)
  BY <1>1, <1>2, <1>3, KeptIs
<1>5. PICK f \in [1..N -> S] :
        /\ \A n \in S : \E k \in 1..N : f[k] = n
        /\ \A k \in 1..N : u[k] = new[f[k]]
  BY <1>3, <1>4 DEF Keeps
<1>6. ASSUME NEW n \in 1..L
      PROVE  /\ new[n] = Item(new[n].kind, new[n].contract, new[n].previous, new[n].next)
             /\ new[n].kind = list[n].kind /\ new[n].contract = list[n].contract
             /\ new[n].next = list[n].next
             /\ list[n].kind \notin Admins => new[n] = list[n]
  BY <1>1, <1>2, CorrectedItem
<1>7. \A k \in 1..N : f[k] \in 1..L
  BY <1>1, <1>2, <1>5
<1>8. Itemed(u)
  <2>1. ASSUME NEW k \in 1..N
        PROVE  u[k] = Item(u[k].kind, u[k].contract, u[k].previous, u[k].next)
    <3>1. PICK n \in 1..L : n = f[k] /\ u[k] = new[n]
      BY <1>5, <1>7
    <3>2. PICK i : i = new[n]
      OBVIOUS
    <3>3. i = Item(i.kind, i.contract, i.previous, i.next)
      BY <1>6, <3>2
    <3> QED
      BY <3>1, <3>2, <3>3
  <2> QED
    BY <1>3, <1>4, <2>1 DEF Itemed
<1>9. Led(u)
  <2>1. ASSUME NEW n \in S, Later(new[n]) PROVE \E m \in S : m < n /\ new[m] = Earliest(new[n])
    <3>1. n \in 1..L
      BY <1>1, <1>2
    <3>2. Later(list[n]) /\ new[n] = list[n]
      BY <1>6, <2>1, <3>1, RolesApart DEF Later, Admins
    <3>3. PICK j \in 1..(n - 1) : list[j] = Earliest(list[n])
      BY <1>2, <3>1, <3>2 DEF Led
    <3>4. j \in 1..L /\ j < n
      BY <1>2, <3>1
    <3>5. list[j].kind \notin Admins
      <4>1. PICK i : i = list[n]
        OBVIOUS
      <4>2. i = Item(i.kind, i.contract, i.previous, i.next)
        BY <1>2, <3>1, <4>1 DEF Itemed
      <4>3. PICK k \in RoleChanges : Earliest(i) = Item(k, i.contract, i.previous, i.next)
        BY <4>2, EarliestIs
      <4>4. list[j].kind = k
        BY <3>3, <4>1, <4>3, ItemHas
      <4> QED
        BY <4>4, RolesApart DEF Admins
    <3>6. new[j] = list[j] /\ j \in S
      BY <1>1, <1>2, <1>6, <3>4, <3>5 DEF Covers
    <3> QED
      BY <3>2, <3>3, <3>4, <3>6
  <2> QED
    BY <1>1, <1>2, <1>3, <2>1, KeptIsLed
<1>10. ASSUME NEW k, NEW c, NEW x, Names(u, k, c, x) PROVE Names(list, k, c, x)
  <2>1. PICK n \in 1..N : u[n].kind = k /\ u[n].contract = c /\ u[n].next = x
    BY <1>3, <1>10 DEF Names
  <2>2. PICK m \in 1..L : u[n] = new[m]
    BY <1>5, <1>7
  <2>3. list[m].kind = k /\ list[m].contract = c /\ list[m].next = x
    BY <1>6, <2>1, <2>2
  <2> QED
    BY <1>2, <2>3 DEF Names
<1>11. ASSUME NEW n \in S PROVE Names(u, list[n].kind, list[n].contract, list[n].next)
  <2>1. PICK j \in 1..N : u[j] = new[n]
    BY <1>5
  <2>2. n \in 1..L
    BY <1>1, <1>2
  <2>3. u[j].kind = list[n].kind /\ u[j].contract = list[n].contract /\ u[j].next = list[n].next
    BY <1>6, <2>1, <2>2
  <2> QED
    BY <1>3, <2>3 DEF Names
<1>12. ASSUME NEW k, NEW c, NEW x, k \notin Admins, Names(list, k, c, x) PROVE Names(u, k, c, x)
  <2>1. PICK n \in 1..L : list[n].kind = k /\ list[n].contract = c /\ list[n].next = x
    BY <1>2, <1>12 DEF Names
  <2>2. n \in S
    BY <1>1, <1>2, <1>12, <2>1 DEF Covers
  <2> QED
    BY <1>11, <2>1, <2>2
<1>13. ASSUME NEW k, NEW c, NEW x, Names(list, k, c, x) PROVE \E y : Names(u, k, c, y)
  <2>1. PICK n \in 1..L : list[n].kind = k /\ list[n].contract = c /\ list[n].next = x
    BY <1>2, <1>13 DEF Names
  <2>2. PICK m \in S : list[m].kind = k /\ list[m].contract = c
    BY <1>1, <1>2, <2>1 DEF Covers
  <2> QED
    BY <1>11, <2>2
<1> QED
  BY <1>3, <1>8, <1>9, <1>10, <1>12, <1>13

\* A list that goes on with items of owners.
LEMMA GoesOnLed ==
  ASSUME NEW s, NEW t, Itemed(s), Led(s), Itemed(t), \A n \in 1..Len(t) : t[n].kind \notin RoleChanges
  PROVE  /\ Itemed(s \o t) /\ Led(s \o t)
         /\ \A k, c, x : Names(s \o t, k, c, x) <=> Names(s, k, c, x) \/ Names(t, k, c, x)
<1>1. PICK u, L, M : u = s \o t /\ L = Len(s) /\ M = Len(t)
  OBVIOUS
<1>2. AList(s) /\ AList(t) /\ L \in Nat /\ M \in Nat
  BY <1>1, AListIs DEF Itemed
<1>3. AList(u) /\ Len(u) = L + M /\ (\A n \in 1..L : u[n] = s[n]) /\ \A n \in 1..M : u[L + n] = t[n]
  BY <1>1, <1>2, Joined
<1>4. ASSUME NEW n \in 1..(L + M)
      PROVE  (n \in 1..L /\ u[n] = s[n]) \/ \E m \in 1..M : n = L + m /\ u[n] = t[m]
  <2>1. CASE n <= L
    BY <1>2, <1>3, <2>1
  <2>2. CASE n > L
    <3>1. PICK m \in 1..M : n = L + m
      <4>1. n - L \in 1..M /\ n = L + (n - L)
        BY <1>2, <2>2
      <4> QED
        BY <4>1
    <3> QED
      BY <1>3, <3>1
  <2> QED
    BY <1>2, <2>1, <2>2
<1>5. Itemed(u)
  <2>1. ASSUME NEW n \in 1..(L + M)
        PROVE  u[n] = Item(u[n].kind, u[n].contract, u[n].previous, u[n].next)
    <3>1. PICK i : i = u[n]
      OBVIOUS
    <3>2. i = Item(i.kind, i.contract, i.previous, i.next)
      BY <1>1, <1>4, <3>1 DEF Itemed
    <3> QED
      BY <3>1, <3>2
  <2> QED
    BY <1>3, <2>1 DEF Itemed
<1>6. Led(u)
  <2>1. ASSUME NEW n \in 1..(L + M), Later(u[n])
        PROVE  \E m \in 1..(n - 1) : u[m] = Earliest(u[n])
    <3>1. n \in 1..L /\ u[n] = s[n]
      BY <1>1, <1>4, <2>1 DEF Later
    <3>2. PICK m \in 1..(n - 1) : s[m] = Earliest(s[n])
      BY <1>1, <2>1, <3>1 DEF Led
    <3>3. m \in 1..L
      BY <1>2, <3>1
    <3> QED
      BY <1>3, <3>1, <3>2, <3>3
  <2> QED
    BY <1>3, <2>1 DEF Led
<1>7. ASSUME NEW k, NEW c, NEW x, Names(u, k, c, x) PROVE Names(s, k, c, x) \/ Names(t, k, c, x)
  <2>1. PICK n \in 1..(L + M) : u[n].kind = k /\ u[n].contract = c /\ u[n].next = x
    BY <1>3, <1>7 DEF Names
  <2>2. CASE n \in 1..L /\ u[n] = s[n]
    BY <1>1, <2>1, <2>2 DEF Names
  <2>3. CASE \E m \in 1..M : u[n] = t[m]
    BY <1>1, <2>1, <2>3 DEF Names
  <2> QED
    BY <1>4, <2>2, <2>3
<1>8. ASSUME NEW k, NEW c, NEW x, Names(s, k, c, x) PROVE Names(u, k, c, x)
  <2>1. PICK n \in 1..L : s[n].kind = k /\ s[n].contract = c /\ s[n].next = x
    BY <1>1, <1>8 DEF Names
  <2>2. n \in 1..(L + M) /\ u[n] = s[n]
    BY <1>2, <1>3
  <2> QED
    BY <1>3, <2>1, <2>2 DEF Names
<1>9. ASSUME NEW k, NEW c, NEW x, Names(t, k, c, x) PROVE Names(u, k, c, x)
  <2>1. PICK n \in 1..M : t[n].kind = k /\ t[n].contract = c /\ t[n].next = x
    BY <1>1, <1>9 DEF Names
  <2>2. L + n \in 1..(L + M) /\ u[L + n] = t[n]
    BY <1>2, <1>3
  <2> QED
    BY <1>3, <2>1, <2>2 DEF Names
<1> QED
  BY <1>1, <1>5, <1>6, <1>7, <1>8, <1>9

\* Owners whom a call names, and a word confirms.
Claimed(c, x) ==
  \E n \in 1..Len(intents) :
    Confirmed(intents[n]) # {} /\ intents[n].contract = c /\ intents[n].next = x
IntentItem(i) == Item("owner", i.contract, i.caller, i.next)

\* Each owner that is claimed is added, unless the list has it.
LEMMA AddedAre ==
  ASSUME NEW list, AList(list), AList(intents)
  PROVE  \E S : /\ S \subseteq 1..Len(intents)
                /\ WithIntents(list) = list \o ItemsAt([i \in 1..Len(intents) |-> IntentItem(intents[i])], S)
                /\ \A i \in S : Claimed(intents[i].contract, intents[i].next)
                /\ \A i \in 1..Len(intents) : Confirmed(intents[i]) # {} =>
                     \/ Names(list, "owner", intents[i].contract, intents[i].next)
                     \/ \E j \in S : /\ intents[j].contract = intents[i].contract
                                     /\ intents[j].next = intents[i].next
<1> DEFINE C == {i \in DOMAIN intents : Confirmed(intents[i]) # {}}
           S == {i \in C :
                   /\ ~HasOwnershipDiff(list, intents[i].contract, intents[i].next)
                   /\ \A j \in C : intents[j].contract = intents[i].contract
                                   /\ intents[j].next = intents[i].next => i <= j}
<1>1. PICK L : L = Len(intents) /\ L \in Nat /\ DOMAIN intents = 1..L
  BY AListIs
<1>2. WithIntents(list) = list \o ItemsAt([i \in DOMAIN intents |->
                            Item("owner", intents[i].contract, intents[i].caller, intents[i].next)], S)
  BY DEF WithIntents
<1>3. WithIntents(list) = list \o ItemsAt([i \in 1..L |-> IntentItem(intents[i])], S)
  BY <1>1, <1>2 DEF IntentItem
<1>4. S \subseteq 1..L /\ C \subseteq 1..L
  BY <1>1
<1>5. ASSUME NEW i \in S PROVE Claimed(intents[i].contract, intents[i].next)
  <2>1. i \in 1..L /\ Confirmed(intents[i]) # {}
    BY <1>1
  <2> QED
    BY <1>1, <2>1 DEF Claimed
<1>6. ASSUME NEW i \in 1..L, Confirmed(intents[i]) # {},
             ~Names(list, "owner", intents[i].contract, intents[i].next)
      PROVE  \E j \in S : /\ intents[j].contract = intents[i].contract
                          /\ intents[j].next = intents[i].next
  <2>1. PICK T : T = {j \in C : intents[j].contract = intents[i].contract
                                /\ intents[j].next = intents[i].next}
    OBVIOUS
  <2>2. i \in T /\ T \subseteq Nat
    BY <1>1, <1>4, <1>6, <2>1
  <2>3. PICK j \in T : \A q \in T : j <= q
    BY <2>2, LeastNumber
  <2>4. j \in C /\ intents[j].contract = intents[i].contract /\ intents[j].next = intents[i].next
    BY <2>1
  <2>5. ~HasOwnershipDiff(list, intents[j].contract, intents[j].next)
    <3>1. DOMAIN list = 1..Len(list)
      BY AListIs
    <3> QED
      BY <1>6, <2>4, <3>1 DEF HasOwnershipDiff, Names
  <2>6. \A q \in C : intents[q].contract = intents[j].contract
                     /\ intents[q].next = intents[j].next => j <= q
    BY <2>1, <2>3, <2>4
  <2>7. j \in S
    BY <2>4, <2>5, <2>6
  <2> QED
    BY <2>4, <2>7
<1>7. PICK T : T = S
  OBVIOUS
<1> HIDE DEF S, C
<1>8. /\ T \subseteq 1..Len(intents)
      /\ WithIntents(list) = list \o ItemsAt([i \in 1..Len(intents) |-> IntentItem(intents[i])], T)
      /\ \A i \in T : Claimed(intents[i].contract, intents[i].next)
  BY <1>1, <1>3, <1>4, <1>5, <1>7
<1>9. \A i \in 1..Len(intents) : Confirmed(intents[i]) # {} =>
        \/ Names(list, "owner", intents[i].contract, intents[i].next)
        \/ \E j \in T : /\ intents[j].contract = intents[i].contract
                        /\ intents[j].next = intents[i].next
  BY <1>1, <1>6, <1>7
<1> QED
  BY <1>8, <1>9, Zenon

\* The ownership fallback adds the owners that are claimed, and nobody else.
LEMMA IntentsTell ==
  ASSUME NEW list, Itemed(list), Led(list), AList(intents)
  PROVE  /\ Itemed(WithIntents(list)) /\ Led(WithIntents(list))
         /\ \A k, c, x : Names(WithIntents(list), k, c, x) <=>
                           Names(list, k, c, x) \/ (k = "owner" /\ Claimed(c, x))
<1>1. PICK L : L = Len(intents) /\ L \in Nat
  BY AListIs
<1>2. AList(list)
  BY DEF Itemed
<1>3. PICK S : /\ S \subseteq 1..L
               /\ WithIntents(list) = list \o ItemsAt([i \in 1..L |-> IntentItem(intents[i])], S)
               /\ \A i \in S : Claimed(intents[i].contract, intents[i].next)
               /\ \A i \in 1..L : Confirmed(intents[i]) # {} =>
                    \/ Names(list, "owner", intents[i].contract, intents[i].next)
                    \/ \E j \in S : /\ intents[j].contract = intents[i].contract
                                    /\ intents[j].next = intents[i].next
  <2>1. \E S : /\ S \subseteq 1..Len(intents)
               /\ WithIntents(list) = list \o ItemsAt([i \in 1..Len(intents) |-> IntentItem(intents[i])], S)
               /\ \A i \in S : Claimed(intents[i].contract, intents[i].next)
               /\ \A i \in 1..Len(intents) : Confirmed(intents[i]) # {} =>
                    \/ Names(list, "owner", intents[i].contract, intents[i].next)
                    \/ \E j \in S : /\ intents[j].contract = intents[i].contract
                                    /\ intents[j].next = intents[i].next
    BY <1>2, AddedAre, Zenon
  <2> QED
    BY <1>1, <2>1, Zenon
<1>4. PICK g : g = [i \in 1..L |-> IntentItem(intents[i])]
  OBVIOUS
<1>5. PICK u, N : u = ItemsAt(g, S) /\ N = Len(u)
  OBVIOUS
<1>6. AList(u) /\ Keeps(g, S, u)
  BY <1>1, <1>3, <1>5, KeptIs
<1>7. PICK f \in [1..N -> S] :
        /\ \A n \in S : \E k \in 1..N : f[k] = n
        /\ \A k \in 1..N : u[k] = g[f[k]]
  BY <1>5, <1>6 DEF Keeps
<1>8. \A n \in 1..L : g[n] = Item("owner", intents[n].contract, intents[n].caller, intents[n].next)
  BY <1>4 DEF IntentItem
<1>9. ASSUME NEW n \in 1..N
      PROVE  \E i \in S : u[n] = Item("owner", intents[i].contract, intents[i].caller, intents[i].next)
  <2>1. PICK i \in S : i = f[n] /\ u[n] = g[i]
    BY <1>7
  <2>2. i \in 1..L
    BY <1>3
  <2> QED
    BY <1>8, <2>1, <2>2
<1>10. Itemed(u) /\ \A n \in 1..N : u[n].kind = "owner"
  <2>1. ASSUME NEW n \in 1..N
        PROVE  u[n].kind = "owner" /\ u[n] = Item(u[n].kind, u[n].contract, u[n].previous, u[n].next)
    <3>1. PICK c, x, y : u[n] = Item("owner", c, x, y)
      BY <1>9
    <3>2. u[n].kind = "owner" /\ u[n].contract = c /\ u[n].previous = x /\ u[n].next = y
      BY <3>1, ItemHas
    <3> QED
      BY <3>1, <3>2
  <2> QED
    BY <1>5, <1>6, <2>1 DEF Itemed
<1>11. PICK w : w = WithIntents(list) /\ w = list \o u
  BY <1>3, <1>4, <1>5
<1>12. /\ Itemed(w) /\ Led(w)
       /\ \A k, c, x : Names(w, k, c, x) <=> Names(list, k, c, x) \/ Names(u, k, c, x)
  <2>1. \A n \in 1..Len(u) : u[n].kind \notin RoleChanges
    BY <1>5, <1>10, RolesApart
  <2> QED
    BY <1>10, <1>11, <2>1, GoesOnLed
<1>13. ASSUME NEW k, NEW c, NEW x, Names(u, k, c, x) PROVE k = "owner" /\ Claimed(c, x)
  <2>1. PICK n \in 1..N : u[n].kind = k /\ u[n].contract = c /\ u[n].next = x
    BY <1>5, <1>13 DEF Names
  <2>2. PICK i \in S : u[n] = Item("owner", intents[i].contract, intents[i].caller, intents[i].next)
    BY <1>9
  <2>3. u[n].contract = intents[i].contract /\ u[n].next = intents[i].next
    BY <2>2, ItemHas
  <2>4. Claimed(intents[i].contract, intents[i].next)
    BY <1>3
  <2> QED
    BY <1>10, <2>1, <2>3, <2>4
<1>14. ASSUME NEW c, NEW x, Claimed(c, x), ~Names(list, "owner", c, x) PROVE Names(u, "owner", c, x)
  <2>1. PICK i \in 1..L : Confirmed(intents[i]) # {} /\ intents[i].contract = c /\ intents[i].next = x
    BY <1>1, <1>14 DEF Claimed
  <2>2. PICK j \in S : intents[j].contract = c /\ intents[j].next = x
    BY <1>3, <1>14, <2>1
  <2>3. PICK n \in 1..N : u[n] = g[j]
    BY <1>7
  <2>4. u[n] = Item("owner", c, intents[j].caller, x)
    BY <1>3, <1>8, <2>2, <2>3
  <2>5. u[n].kind = "owner" /\ u[n].contract = c /\ u[n].next = x
    BY <2>4, ItemHas
  <2> QED
    BY <1>5, <2>5 DEF Names
<1> QED
  BY <1>11, <1>12, <1>13, <1>14
-----------------------------------------------------------------------------
(* PermissionEvidence: what its traces show of the powers, at any time.    *)

Went(list, p, x) == \E n \in 1..Len(list) : list[n].power = p /\ list[n].next = x
HoldersChanged == \A p \in Powers : holder[p] # HolderAtStart[p] => Went(changes, p, holder[p])
OwnersLogged ==
  \A p \in Powers : holder[p] # HolderAtStart[p] /\ p.kind = "owner" /\ p.contract \in Emits =>
    Names(events, "owner", p.contract, holder[p])
LogsTrue ==
  \A n \in 1..Len(events) : events[n].kind \in Kinds =>
    events[n].contract \in Emits
    /\ Went(changes, Power(events[n].contract, events[n].kind), events[n].next)
InLog(item) == \E n \in 1..Len(events) : events[n] = item
MembersLogged ==
  \A c \in Granting :
    /\ \A a \in members[c] \ MembersAtStart[c] : InLog(Item("granted", c, "unknown", a))
    /\ \A a \in MembersAtStart[c] \ members[c] : InLog(Item("revoked", c, "unknown", a))
RolesLogged ==
  \A c \in Granting, kind \in RoleChanges : \A x :
    Names(events, kind, c, x) <=> Went(changes, Power(c, kind), x)
Traced ==
  /\ holder \in [Powers -> Accounts] /\ members \in [Granting -> SUBSET Accounts]
  /\ AList(intents) /\ AList(changes) /\ Itemed(events) /\ Led(events)
  /\ HoldersChanged /\ OwnersLogged /\ LogsTrue /\ MembersLogged /\ RolesLogged
PermissionInv == Traced /\ PowersAreTold

\* The items of the logs name whom the logs name.
LEMMA EventsTell ==
  ASSUME Itemed(events), Led(events)
  PROVE  /\ Itemed(FromEvents) /\ Led(FromEvents)
         /\ \A k, c, x : Names(FromEvents, k, c, x) <=> Names(events, k, c, x)
<1>1. PICK L : L = Len(events) /\ L \in Nat /\ DOMAIN events = 1..L
  BY AListIs DEF Itemed
<1>2. PICK u : u = [n \in 1..L |-> IF events[n].kind = "owner" THEN events[n]
                                   ELSE [events[n] EXCEPT !.previous = "unknown"]]
  OBVIOUS
<1>3. u = FromEvents
  BY <1>1, <1>2 DEF FromEvents
<1>4. AList(u) /\ Len(u) = L
  <2>1. u = [n \in 1..L |-> u[n]]
    BY <1>2
  <2> QED
    BY <1>1, <2>1, FunctionIsList
<1>5. ASSUME NEW n \in 1..L
      PROVE  /\ u[n] = Item(u[n].kind, u[n].contract, u[n].previous, u[n].next)
             /\ u[n].kind = events[n].kind /\ u[n].contract = events[n].contract
             /\ u[n].next = events[n].next
             /\ events[n].kind # "owner" =>
                  u[n] = Item(events[n].kind, events[n].contract, "unknown", events[n].next)
  <2>1. PICK i, j : i = events[n] /\ j = u[n]
    OBVIOUS
  <2>2. i = Item(i.kind, i.contract, i.previous, i.next)
    BY <1>1, <2>1 DEF Itemed
  <2>3. CASE i.kind = "owner"
    <3>1. j = i
      BY <1>2, <2>1, <2>3
    <3> QED
      BY <2>1, <2>2, <2>3, <3>1
  <2>4. CASE i.kind # "owner"
    <3>1. j = [i EXCEPT !.previous = "unknown"]
      BY <1>2, <2>1, <2>4
    <3>2. j = Item(i.kind, i.contract, "unknown", i.next)
      BY <2>2, <3>1, ItemFields
    <3>3. j.kind = i.kind /\ j.contract = i.contract /\ j.previous = "unknown" /\ j.next = i.next
      BY <3>2, ItemHas
    <3>4. j = Item(j.kind, j.contract, j.previous, j.next)
      BY <3>2, <3>3
    <3> QED
      BY <2>1, <3>2, <3>3, <3>4
  <2> QED
    BY <2>3, <2>4
<1>6. Itemed(u)
  BY <1>4, <1>5 DEF Itemed
<1>7. Led(u)
  <2>1. ASSUME NEW n \in 1..L, Later(u[n]) PROVE \E m \in 1..(n - 1) : u[m] = Earliest(u[n])
    <3>1. Later(events[n]) /\ events[n].kind \in RoleChanges
      BY <1>5, <2>1 DEF Later
    <3>2. PICK m \in 1..(n - 1) : events[m] = Earliest(events[n])
      BY <1>1, <3>1 DEF Led
    <3>3. PICK i, j, k : i = events[n] /\ j = events[m] /\ k = FirstMove(i.contract, i.next)
      OBVIOUS
    <3>4. i = Item(i.kind, i.contract, i.previous, i.next)
      BY <1>1, <3>3 DEF Itemed
    <3>5. j = Item(k, i.contract, i.previous, i.next) /\ k \in RoleChanges
      BY <3>2, <3>3, <3>4, EarliestIs
    <3>6. j.kind = k /\ j.contract = i.contract /\ j.next = i.next
      BY <3>5, ItemHas
    <3>7. m \in 1..L
      BY <1>1
    <3>8. u[m] = Item(k, i.contract, "unknown", i.next)
      <4>1. events[m].kind = k /\ events[m].contract = i.contract /\ events[m].next = i.next /\ k # "owner"
        BY <3>3, <3>5, <3>6, RolesApart
      <4> QED
        BY <1>5, <3>7, <4>1
    <3>9. u[n] = Item(i.kind, i.contract, "unknown", i.next)
      BY <1>5, <3>1, <3>3, RolesApart
    <3>10. PICK v : v = u[n]
      OBVIOUS
    <3>11. v.contract = i.contract /\ v.previous = "unknown" /\ v.next = i.next /\ v.kind = i.kind
      BY <3>9, <3>10, ItemHas
    <3>12. v = Item(v.kind, v.contract, v.previous, v.next)
      BY <3>9, <3>10, <3>11
    <3>13. Earliest(v) = Item(FirstMove(v.contract, v.next), v.contract, v.previous, v.next)
      BY <3>12, EarliestIs
    <3>14. u[m] = Earliest(u[n])
      BY <3>3, <3>8, <3>10, <3>11, <3>13
    <3> QED
      BY <3>14
  <2> QED
    BY <1>4, <2>1 DEF Led
<1>8. ASSUME NEW k, NEW c, NEW x PROVE Names(u, k, c, x) <=> Names(events, k, c, x)
  BY <1>1, <1>4, <1>5 DEF Names
<1> QED
  BY <1>3, <1>6, <1>7, <1>8

\* What as many numbers name is finite.
LEMMA NumberedIsFinite ==
  ASSUME NEW N \in Nat, NEW T, NEW g, \A x \in T : \E n \in 1..N : g[n] = x
  PROVE  IsFiniteSet(T)
<1>1. PICK U, h : U = {g[n] : n \in 1..N} /\ h = [n \in 1..N |-> g[n]]
  OBVIOUS
<1>2. h \in Surjection(1..N, U)
  BY <1>1 DEF Surjection
<1>3. IsFiniteSet(1..N)
  BY FS_Interval
<1>4. IsFiniteSet(U)
  BY <1>2, <1>3, FS_Surjection
<1>5. T \subseteq U
  BY <1>1
<1> QED
  BY <1>4, <1>5, FS_Subset

\* The decoded differences.
Decodes(k, c, x) ==
  \E p \in Moved : p.contract \in Decoded /\ p.kind = k /\ p.contract = c /\ holder[p] = x

\* The decoded differences name the holders in the end.
LEMMA DiffsTell ==
  ASSUME PermissionAssumption, AList(changes), HoldersChanged
  PROVE  /\ Itemed(FromDiffs) /\ \A n \in 1..Len(FromDiffs) : FromDiffs[n].kind \notin RoleChanges
         /\ \A k, c, x : Names(FromDiffs, k, c, x) <=> Decodes(k, c, x)
<1>1. PICK M : M = {q \in Moved : q.contract \in Decoded}
  OBVIOUS
<1>2. PICK T : T = {Item(p.kind, p.contract, HolderAtStart[p], holder[p]) : p \in M}
  OBVIOUS
<1>3. FromDiffs = SetToSeq(T)
  BY <1>1, <1>2 DEF FromDiffs
<1>4. PICK L : L = Len(changes) /\ L \in Nat
  BY AListIs
<1>5. PICK g : g = [n \in 1..L |-> Item(changes[n].power.kind, changes[n].power.contract,
                                        HolderAtStart[changes[n].power], holder[changes[n].power])]
  OBVIOUS
<1>6. IsFiniteSet(T)
  <2>1. ASSUME NEW x \in T PROVE \E n \in 1..L : g[n] = x
    <3>1. PICK p \in M : x = Item(p.kind, p.contract, HolderAtStart[p], holder[p])
      BY <1>2
    <3>2. p \in Powers /\ holder[p] # HolderAtStart[p]
      BY <1>1 DEF Moved
    <3>3. PICK n \in 1..L : changes[n].power = p
      BY <1>4, <3>2 DEF HoldersChanged, Went
    <3> QED
      BY <1>5, <3>1, <3>3
  <2> QED
    BY <1>4, <2>1, NumberedIsFinite
<1>7. PICK u, N : u = FromDiffs /\ N = Cardinality(T)
  OBVIOUS
<1>8. N \in Nat /\ u \in [1..N -> T] /\ \A x \in T : \E n \in 1..N : u[n] = x
  BY <1>3, <1>6, <1>7, Ordered
<1>9. AList(u) /\ Len(u) = N
  <2>1. u = [n \in 1..N |-> u[n]]
    BY <1>8
  <2> QED
    BY <1>8, <2>1, FunctionIsList
<1>10. ASSUME NEW x \in T
       PROVE  /\ x = Item(x.kind, x.contract, x.previous, x.next) /\ x.kind \notin RoleChanges
              /\ Decodes(x.kind, x.contract, x.next)
  <2>1. PICK p \in M : x = Item(p.kind, p.contract, HolderAtStart[p], holder[p])
    BY <1>2
  <2>2. p \in Moved /\ p.contract \in Decoded /\ p.kind \in Kinds
    BY <1>1 DEF Moved, PermissionAssumption
  <2>3. /\ x.kind = p.kind /\ x.contract = p.contract /\ x.previous = HolderAtStart[p]
        /\ x.next = holder[p]
    BY <2>1, ItemHas
  <2>4. x.kind \notin RoleChanges
    BY <2>2, <2>3, RolesApart
  <2>5. Decodes(x.kind, x.contract, x.next)
    BY <2>2, <2>3 DEF Decodes
  <2> QED
    BY <2>1, <2>3, <2>4, <2>5
<1>11. ASSUME NEW n \in 1..N PROVE u[n] \in T
  BY <1>8
<1>12. Itemed(u) /\ \A n \in 1..N : u[n].kind \notin RoleChanges
  BY <1>9, <1>10, <1>11 DEF Itemed
<1>13. ASSUME NEW k, NEW c, NEW x, Names(u, k, c, x) PROVE Decodes(k, c, x)
  <2>1. PICK n \in 1..N : u[n].kind = k /\ u[n].contract = c /\ u[n].next = x
    BY <1>9, <1>13 DEF Names
  <2> QED
    BY <1>10, <1>11, <2>1
<1>14. ASSUME NEW k, NEW c, NEW x, Decodes(k, c, x) PROVE Names(u, k, c, x)
  <2>1. PICK p \in Moved : p.contract \in Decoded /\ p.kind = k /\ p.contract = c /\ holder[p] = x
    BY <1>14 DEF Decodes
  <2>2. PICK i : i = Item(p.kind, p.contract, HolderAtStart[p], holder[p])
    OBVIOUS
  <2>3. i \in T
    BY <1>1, <1>2, <2>1, <2>2
  <2>4. PICK n \in 1..N : u[n] = i
    BY <1>8, <2>3
  <2>5. i.kind = k /\ i.contract = c /\ i.next = x
    BY <2>1, <2>2, ItemHas
  <2> QED
    BY <1>9, <2>4, <2>5 DEF Names
<1> QED
  BY <1>7, <1>9, <1>12, <1>13, <1>14

\* What the check can learn of: a log, a decoded difference, a claim confirmed.
Shows(k, c, x) == Names(events, k, c, x) \/ Decodes(k, c, x) \/ (k = "owner" /\ Claimed(c, x))

\* A list that tells what can be learnt of; of admins, the first only.
Relates(list) ==
  /\ Itemed(list) /\ Led(list)
  /\ \A k, c, x : Names(list, k, c, x) => Shows(k, c, x)
  /\ \A k, c, x : k \notin Admins /\ Shows(k, c, x) => Names(list, k, c, x)
  /\ \A k, c, x : Shows(k, c, x) => \E y : Names(list, k, c, y)

\* What the check makes of its traces.
LEMMA CheckRelates ==
  ASSUME PermissionAssumption, Traced
  PROVE  Relates(Deduped(WithMerged(WithIntents(FromEvents \o FromDiffs))))
<1>1. PICK e, d, s, t, u, v : /\ e = FromEvents /\ d = FromDiffs /\ s = e \o d
                              /\ t = WithIntents(s) /\ u = WithMerged(t) /\ v = Deduped(u)
  OBVIOUS
<1>2. Itemed(e) /\ Led(e) /\ \A k, c, x : Names(e, k, c, x) <=> Names(events, k, c, x)
  BY <1>1, EventsTell DEF Traced
<1>3. /\ Itemed(d) /\ \A n \in 1..Len(d) : d[n].kind \notin RoleChanges
      /\ \A k, c, x : Names(d, k, c, x) <=> Decodes(k, c, x)
  BY <1>1, DiffsTell DEF Traced
<1>4. /\ Itemed(s) /\ Led(s)
      /\ \A k, c, x : Names(s, k, c, x) <=> Names(e, k, c, x) \/ Names(d, k, c, x)
  BY <1>1, <1>2, <1>3, GoesOnLed
<1>5. /\ Itemed(t) /\ Led(t)
      /\ \A k, c, x : Names(t, k, c, x) <=> Names(s, k, c, x) \/ (k = "owner" /\ Claimed(c, x))
  <2>1. AList(intents)
    BY DEF Traced
  <2> QED
    BY <1>1, <1>4, <2>1, IntentsTell
<1>6. \A k, c, x : Names(t, k, c, x) <=> Shows(k, c, x)
  BY <1>2, <1>3, <1>4, <1>5, Zenon DEF Shows
<1>7. /\ Itemed(u) /\ Led(u)
      /\ \A k, c, x : Names(u, k, c, x) => Names(t, k, c, x)
      /\ \A k, c, x : k \notin Admins /\ Names(t, k, c, x) => Names(u, k, c, x)
      /\ \A k, c, x : Names(t, k, c, x) => \E y : Names(u, k, c, y)
  BY <1>1, <1>5, MergedTells
<1>8. Itemed(v) /\ Led(v) /\ \A k, c, x : Names(v, k, c, x) <=> Names(u, k, c, x)
  BY <1>1, <1>7, DedupedTells
<1>9. Relates(v)
  BY <1>6, <1>7, <1>8, Zenon DEF Relates
<1> QED
  BY <1>1, <1>9

\* What a kind and a contract have in common is one power.
LEMMA PowerIs == PermissionAssumption => \A p \in Powers : p = Power(p.contract, p.kind) /\ p.kind \in Kinds
BY DEF PermissionAssumption, Power

\* A claim that is confirmed names whom a word of the contract turned to.
LEMMA ClaimedIsHeld ==
  ASSUME NEW c, NEW x, Claimed(c, x), HoldersChanged
  PROVE  c \in Lone /\ \E q \in Powers : q.contract = c /\ Went(changes, q, x)
<1>1. PICK n \in 1..Len(intents) :
        Confirmed(intents[n]) # {} /\ intents[n].contract = c /\ intents[n].next = x
  BY DEF Claimed
<1>2. PICK t \in Transitions : t.contract = c /\ t.next = x
  BY <1>1 DEF Confirmed
<1>3. PICK q \in Moved : /\ q.contract \in Lone
                         /\ t = Item("word", q.contract, HolderAtStart[q], holder[q])
  BY DEF Transitions
<1>4. t.contract = q.contract /\ t.next = holder[q]
  BY <1>3, ItemHas
<1>5. q \in Powers /\ Went(changes, q, holder[q])
  BY DEF Moved, HoldersChanged
<1> QED
  BY <1>2, <1>3, <1>4, <1>5

\* The claim of a holder who handed over is confirmed.
LEMMA HandedIsClaimed ==
  ASSUME NEW p \in Moved, p.contract \in Lone, HolderAtStart[p] # Zero, NEW n \in 1..Len(intents),
         intents[n].contract = p.contract, intents[n].caller = HolderAtStart[p],
         intents[n].next = holder[p]
  PROVE  Claimed(p.contract, holder[p])
<1>1. PICK t : t = Item("word", p.contract, HolderAtStart[p], holder[p])
  OBVIOUS
<1>2. t \in Transitions
  BY <1>1 DEF Transitions
<1>3. t.contract = p.contract /\ t.previous = HolderAtStart[p] /\ t.next = holder[p]
  BY <1>1, ItemHas
<1>4. t \in Confirmed(intents[n])
  BY <1>2, <1>3 DEF Confirmed
<1> QED
  BY <1>4 DEF Claimed

\* Whom the traces show was made a holder.
LEMMA ShownWasHeld ==
  ASSUME PermissionAssumption, Traced, NEW p \in Powers, NEW x, Shows(p.kind, p.contract, x)
  PROVE  /\ \E q \in MistakenFor(p) : Went(changes, q, x)
         /\ p.kind # "owner" => Went(changes, p, x)
<1>1. p = Power(p.contract, p.kind) /\ p.kind \in Kinds
  BY PowerIs
<1>2. ASSUME Went(changes, p, x) PROVE \E q \in MistakenFor(p) : Went(changes, q, x)
  BY <1>2 DEF MistakenFor
<1>3. CASE Names(events, p.kind, p.contract, x)
  <2>1. PICK n \in 1..Len(events) :
          events[n].kind = p.kind /\ events[n].contract = p.contract /\ events[n].next = x
    BY <1>3 DEF Names
  <2>2. Went(changes, Power(p.contract, p.kind), x)
    BY <1>1, <2>1 DEF Traced, LogsTrue
  <2>3. Went(changes, p, x)
    BY <1>1, <2>2
  <2> QED
    BY <1>2, <2>3
<1>4. CASE Decodes(p.kind, p.contract, x)
  <2>1. PICK q \in Moved : q.kind = p.kind /\ q.contract = p.contract /\ holder[q] = x
    BY <1>4 DEF Decodes
  <2>2. q \in Powers /\ Went(changes, q, x)
    BY <2>1 DEF Moved, Traced, HoldersChanged
  <2>3. q = p
    BY <1>1, <2>1, <2>2, PowerIs
  <2> QED
    BY <1>2, <2>2, <2>3
<1>5. CASE p.kind = "owner" /\ Claimed(p.contract, x)
  <2>1. HoldersChanged
    BY DEF Traced
  <2>2. p.contract \in Lone
    BY <1>5, <2>1, ClaimedIsHeld
  <2>3. PICK q \in Powers : q.contract = p.contract /\ Went(changes, q, x)
    BY <1>5, <2>1, ClaimedIsHeld
  <2>4. q \in MistakenFor(p)
    BY <1>5, <2>2, <2>3 DEF MistakenFor
  <2> QED
    BY <1>5, <2>3, <2>4
<1> QED
  BY <1>3, <1>4, <1>5 DEF Shows

\* What is evident of an owner shows who it is; of an admin, that there is one.
LEMMA EvidentShows ==
  ASSUME PermissionAssumption, Traced, NEW p \in Moved, Evident(p)
  PROVE  /\ p.kind = "owner" => Shows("owner", p.contract, holder[p])
         /\ \E x : Shows(p.kind, p.contract, x)
<1>1. p \in Powers /\ holder[p] # HolderAtStart[p] /\ p.kind \in Kinds
  BY PowerIs DEF Moved
<1>2. CASE p.contract \in Decoded
  BY <1>2 DEF Shows, Decodes
<1>3. CASE \E n \in DOMAIN events : events[n].kind = p.kind /\ events[n].contract = p.contract
  <2>1. DOMAIN events = 1..Len(events)
    BY AListIs DEF Traced, Itemed
  <2>2. PICK n \in 1..Len(events) : events[n].kind = p.kind /\ events[n].contract = p.contract
    BY <1>3, <2>1
  <2>3. Names(events, p.kind, p.contract, events[n].next)
    BY <2>2 DEF Names
  <2>4. p.contract \in Emits
    BY <1>1, <2>2 DEF Traced, LogsTrue
  <2>5. ASSUME p.kind = "owner" PROVE Names(events, "owner", p.contract, holder[p])
    BY <1>1, <2>4, <2>5 DEF Traced, OwnersLogged
  <2> QED
    BY <2>3, <2>5 DEF Shows
<1>4. CASE /\ p.kind = "owner" /\ p.contract \in Lone /\ HolderAtStart[p] # Zero
           /\ \E n \in DOMAIN intents : /\ intents[n].contract = p.contract
                                        /\ intents[n].caller = HolderAtStart[p]
                                        /\ intents[n].next = holder[p]
  <2>1. DOMAIN intents = 1..Len(intents)
    BY AListIs DEF Traced
  <2>2. Claimed(p.contract, holder[p])
    BY <1>4, <2>1, HandedIsClaimed
  <2> QED
    BY <1>4, <2>2 DEF Shows
<1> QED
  BY <1>2, <1>3, <1>4 DEF Evident

\* A power that changed once has the holder whom it was changed to.
LEMMA ChangedOnce ==
  ASSUME AList(changes), NEW p, Times(p) = 1, NEW x, NEW y, Went(changes, p, x), Went(changes, p, y)
  PROVE  x = y
<1>1. PICK S : S = {n \in DOMAIN changes : changes[n].power = p}
  OBVIOUS
<1>2. IsFiniteSet(S) /\ S \subseteq DOMAIN changes
  BY <1>1, PlacesFit
<1>3. Cardinality(S) = 1
  BY <1>1 DEF Times
<1>4. PICK m : S = {m}
  BY <1>2, <1>3, FS_Singleton
<1>5. DOMAIN changes = 1..Len(changes)
  BY AListIs
<1>6. ASSUME NEW z, Went(changes, p, z) PROVE z = changes[m].next
  <2>1. PICK n \in 1..Len(changes) : changes[n].power = p /\ changes[n].next = z
    BY <1>6 DEF Went
  <2>2. n \in S
    BY <1>1, <1>5, <2>1
  <2> QED
    BY <1>4, <2>1, <2>2
<1> QED
  BY <1>6

\* Whom a power was given to, of the history.
LEMMA ChangedToIs ==
  ASSUME AList(changes), NEW p, NEW x
  PROVE  x \in ChangedTo(p) <=> Went(changes, p, x)
<1>1. DOMAIN changes = 1..Len(changes)
  BY AListIs
<1> QED
  BY <1>1 DEF ChangedTo, Went

\* PowersAreTold of a list.
NextsIn(list, p) ==
  {list[n].next : n \in {m \in DOMAIN list : list[m].kind = p.kind /\ list[m].contract = p.contract}}
RolesIn(list) ==
  \A c \in Granting, kind \in RoleChanges :
    NextsIn(list, Power(c, kind)) = ChangedTo(Power(c, kind))
MembersIn(list) ==
  \A c \in Granting : /\ members[c] \ MembersAtStart[c] \subseteq NextsIn(list, Power(c, "granted"))
                      /\ MembersAtStart[c] \ members[c] \subseteq NextsIn(list, Power(c, "revoked"))
OrderIn(list) ==
  \A n \in DOMAIN list : Later(list[n]) => \E m \in 1..(n - 1) : list[m] = Earliest(list[n])
PowersIn(list) ==
  /\ \A p \in Moved : Evident(p) /\ (p.kind = "owner" \/ Times(p) = 1) => holder[p] \in NextsIn(list, p)
  /\ \A p \in Powers : NextsIn(list, p) \subseteq UNION {ChangedTo(q) : q \in MistakenFor(p)}
  /\ RolesIn(list) /\ MembersIn(list) /\ OrderIn(list)

\* Of a role such a list names whom the logs name.
LEMMA RelatesRoles ==
  ASSUME PermissionAssumption, Traced, NEW list, Relates(list), NEW c, NEW kind \in RoleChanges, NEW x
  PROVE  Names(list, kind, c, x) <=> Names(events, kind, c, x)
<1>1. kind \notin Admins /\ kind # "owner" /\ kind \notin Kinds
  BY RolesApart DEF Admins
<1>2. ~Decodes(kind, c, x)
  BY <1>1, PowerIs DEF Decodes, Moved
<1>3. Shows(kind, c, x) <=> Names(events, kind, c, x)
  BY <1>1, <1>2 DEF Shows
<1> QED
  BY <1>1, <1>3 DEF Relates

\* Such a list tells the powers as they are.
LEMMA RelatesRightly ==
  ASSUME PermissionAssumption, Traced, NEW list, Relates(list)
  PROVE  PowersIn(list)
<1>1. PICK L : L = Len(list) /\ L \in Nat /\ DOMAIN list = 1..L
  BY AListIs DEF Relates, Itemed
<1>2. ASSUME NEW p, NEW x PROVE x \in NextsIn(list, p) <=> Names(list, p.kind, p.contract, x)
  BY <1>1 DEF NextsIn, Names
<1>3. ASSUME NEW p \in Moved, Evident(p), p.kind = "owner" \/ Times(p) = 1
      PROVE  holder[p] \in NextsIn(list, p)
  <2>1. p \in Powers /\ Went(changes, p, holder[p]) /\ AList(changes)
    BY DEF Moved, Traced, HoldersChanged
  <2>2. CASE p.kind = "owner"
    <3>1. Shows("owner", p.contract, holder[p])
      BY <1>3, <2>2, EvidentShows
    <3>2. Names(list, "owner", p.contract, holder[p])
      BY <3>1 DEF Relates, Admins
    <3> QED
      BY <1>2, <2>2, <3>2
  <2>3. CASE p.kind # "owner"
    <3>1. \E x : Shows(p.kind, p.contract, x)
      BY <1>3, EvidentShows
    <3>2. PICK y : Names(list, p.kind, p.contract, y)
      BY <3>1 DEF Relates
    <3>3. Shows(p.kind, p.contract, y)
      BY <3>2 DEF Relates
    <3>4. Went(changes, p, y)
      BY <2>1, <2>3, <3>3, ShownWasHeld
    <3>5. y = holder[p]
      BY <1>3, <2>1, <2>3, <3>4, ChangedOnce
    <3> QED
      BY <1>2, <3>2, <3>5
  <2> QED
    BY <2>2, <2>3
<1>4. ASSUME NEW p \in Powers, NEW x \in NextsIn(list, p)
      PROVE  \E q \in MistakenFor(p) : x \in ChangedTo(q)
  <2>1. Shows(p.kind, p.contract, x)
    BY <1>2 DEF Relates
  <2>2. PICK q \in MistakenFor(p) : Went(changes, q, x)
    BY <2>1, ShownWasHeld
  <2>3. AList(changes)
    BY DEF Traced
  <2> QED
    BY <2>2, <2>3, ChangedToIs
<1>5. ASSUME NEW c \in Granting, NEW kind \in RoleChanges, NEW x
      PROVE  /\ x \in NextsIn(list, Power(c, kind)) <=> Names(events, kind, c, x)
             /\ Names(events, kind, c, x) <=> x \in ChangedTo(Power(c, kind))
  <2>1. Power(c, kind).kind = kind /\ Power(c, kind).contract = c
    BY DEF Power
  <2>2. x \in NextsIn(list, Power(c, kind)) <=> Names(list, kind, c, x)
    BY <1>2, <2>1
  <2>3. Names(list, kind, c, x) <=> Names(events, kind, c, x)
    BY RelatesRoles
  <2>4. Names(events, kind, c, x) <=> Went(changes, Power(c, kind), x)
    BY DEF Traced, RolesLogged
  <2>5. AList(changes)
    BY DEF Traced
  <2> QED
    BY <2>2, <2>3, <2>4, <2>5, ChangedToIs
<1>6. RolesIn(list)
  <2>1. ASSUME NEW c \in Granting, NEW kind \in RoleChanges
        PROVE  NextsIn(list, Power(c, kind)) = ChangedTo(Power(c, kind))
    BY <1>5
  <2> QED
    BY <2>1 DEF RolesIn
<1>7. MembersIn(list)
  <2>1. ASSUME NEW c \in Granting, NEW kind \in RoleChanges, NEW a, InLog(Item(kind, c, "unknown", a))
        PROVE  a \in NextsIn(list, Power(c, kind))
    <3>1. PICK n \in 1..Len(events) : events[n] = Item(kind, c, "unknown", a)
      BY <2>1 DEF InLog
    <3>2. events[n].kind = kind /\ events[n].contract = c /\ events[n].next = a
      BY <3>1, ItemHas
    <3>3. Names(events, kind, c, a)
      BY <3>2 DEF Names
    <3> QED
      BY <1>5, <3>3
  <2>2. "granted" \in RoleChanges /\ "revoked" \in RoleChanges /\ MembersLogged
    BY DEF RoleChanges, Traced
  <2> QED
    BY <2>1, <2>2 DEF MembersIn, MembersLogged
<1>8. OrderIn(list)
  BY <1>1 DEF OrderIn, Relates, Led
<1>9. \A p \in Powers : NextsIn(list, p) \subseteq UNION {ChangedTo(q) : q \in MistakenFor(p)}
  BY <1>4
<1> QED
  BY <1>3, <1>6, <1>7, <1>8, <1>9 DEF PowersIn

\* The check tells the powers as they are.
LEMMA CheckTellsPowers ==
  ASSUME PermissionAssumption, PermissionInv, Check
  PROVE  PermissionInv'
<1>1. PICK list : list = told'
  OBVIOUS
<1>2. list = Deduped(WithMerged(WithIntents(FromEvents \o FromDiffs)))
  BY <1>1 DEF Check
<1>3. Relates(list)
  BY <1>2, CheckRelates DEF PermissionInv
<1>4. PowersIn(list)
  BY <1>3, RelatesRightly DEF PermissionInv
<1>5. UNCHANGED <<holder, members, events, intents, changes>>
  BY DEF Check
<1>6. Traced'
  BY <1>5 DEF PermissionInv, Traced, HoldersChanged, OwnersLogged, LogsTrue, MembersLogged,
              RolesLogged, InLog, Went
<1>7. /\ Moved' = Moved /\ \A p : Evident(p)' <=> Evident(p)
      /\ \A p : Times(p)' = Times(p)
  BY <1>5 DEF Moved, Evident, Times
<1>8. \A p : TellsOf(p)' = NextsIn(list, p)
  BY <1>1 DEF TellsOf, NextsIn
<1>9. \A p : ChangedTo(p)' = ChangedTo(p)
  BY <1>5 DEF ChangedTo
<1>10. PowersAreTold'
  <2>1. \A p \in Moved' : Evident(p)' /\ (p.kind = "owner" \/ Times(p)' = 1) => holder'[p] \in TellsOf(p)'
    BY <1>4, <1>5, <1>7, <1>8 DEF PowersIn
  <2>2. \A p \in Powers : TellsOf(p)' \subseteq UNION {ChangedTo(q)' : q \in MistakenFor(p)}
    BY <1>4, <1>8, <1>9 DEF PowersIn
  <2>3. \A c \in Granting, kind \in RoleChanges :
          TellsOf(Power(c, kind))' = ChangedTo(Power(c, kind))'
    BY <1>4, <1>8, <1>9 DEF PowersIn, RolesIn
  <2>4. \A c \in Granting : /\ members'[c] \ MembersAtStart[c] \subseteq TellsOf(Power(c, "granted"))'
                            /\ MembersAtStart[c] \ members'[c] \subseteq TellsOf(Power(c, "revoked"))'
    BY <1>4, <1>5, <1>8 DEF PowersIn, MembersIn
  <2>5. (\A n \in DOMAIN told :
           LET first == FirstMove(told[n].contract, told[n].next) IN
           told[n].kind \in RoleChanges /\ told[n].kind # first =>
             \E m \in 1..(n - 1) : told[m] = [told[n] EXCEPT !.kind = first])'
    <3>1. \A n \in DOMAIN list : Later(list[n]) => \E m \in 1..(n - 1) : list[m] = Earliest(list[n])
      BY <1>4 DEF PowersIn, OrderIn
    <3> QED
      BY <1>1, <3>1 DEF Later, Earliest
  <2> QED
    BY <2>1, <2>2, <2>3, <2>4, <2>5, Zenon DEF PowersAreTold
<1> QED
  BY <1>6, <1>10 DEF PermissionInv

\* A list of two.
LEMMA TwoOf == \A a, b : AList(<<a, b>>) /\ Len(<<a, b>>) = 2 /\ <<a, b>>[1] = a /\ <<a, b>>[2] = b
<1>1. ASSUME NEW a, NEW b PROVE <<a, b>> \in Seq({a, b})
  OBVIOUS
<1> QED
  BY <1>1 DEF AList

\* Whatever is in one list is in another.
Holds(u, t) == \A n \in 1..Len(t) : \E m \in 1..Len(u) : u[m] = t[n]

\* What is joined holds both lists.
LEMMA JoinedHas ==
  ASSUME NEW s, NEW t, AList(s), AList(t)
  PROVE  AList(s \o t) /\ Grows(s, s \o t) /\ Holds(s \o t, t)
<1>1. PICK u, L, M : u = s \o t /\ L = Len(s) /\ M = Len(t)
  OBVIOUS
<1>2. L \in Nat /\ M \in Nat
  BY <1>1, AListIs
<1>3. /\ AList(u) /\ Len(u) = L + M /\ (\A n \in 1..L : u[n] = s[n])
      /\ \A n \in 1..M : u[L + n] = t[n]
  BY <1>1, Joined
<1>4. Grows(s, u)
  BY <1>1, <1>2, <1>3 DEF Grows
<1>5. ASSUME NEW n \in 1..M PROVE \E m \in 1..Len(u) : u[m] = t[n]
  <2>1. L + n \in 1..Len(u)
    BY <1>2, <1>3
  <2> QED
    BY <1>3, <2>1
<1> QED
  BY <1>1, <1>3, <1>4, <1>5 DEF Holds

\* Whoever was named in a list is named in a longer one.
LEMMA GrowsNames ==
  ASSUME NEW s, AList(s), NEW t, Grows(s, t), NEW k, NEW c, NEW x, Names(s, k, c, x)
  PROVE  Names(t, k, c, x)
<1>1. Len(s) \in Nat
  BY AListIs
<1> QED
  BY <1>1 DEF Names, Grows

\* What a transaction logs next.
Logs(item) ==
  /\ item = Item(item.kind, item.contract, item.previous, item.next)
  /\ item.kind \in RoleChanges =>
       /\ item.previous = "unknown" /\ item.contract \in Granting
       /\ (item.kind = "revoked") <=> (item.next \in members[item.contract])
  /\ item.kind \in Kinds =>
       item.contract \in Emits /\ Went(changes', Power(item.contract, item.kind), item.next)

\* A log more keeps what the logs show.
LEMMA LogKeeps ==
  ASSUME Traced, Grows(changes, changes'), NEW item, Logs(item), events' = Append(events, item)
  PROVE  /\ Itemed(events') /\ Led(events') /\ LogsTrue' /\ Grows(events, events')
         /\ InLog(item)' /\ \A i : InLog(i) => InLog(i)'
<1>1. PICK s, t, L : s = events /\ t = events' /\ L = Len(s)
  OBVIOUS
<1>2. AList(s) /\ L \in Nat
  BY <1>1, AListIs DEF Traced, Itemed
<1>3. t = Append(s, item)
  BY <1>1
<1>4. AList(t) /\ Grows(s, t) /\ Len(t) = L + 1 /\ t[L + 1] = item
  BY <1>1, <1>2, <1>3, OneMore
<1>5. ASSUME NEW n \in 1..(L + 1) PROVE (n \in 1..L /\ t[n] = s[n]) \/ (n = L + 1 /\ t[n] = item)
  <2>1. n \in 1..L \/ n = L + 1
    BY <1>2
  <2>2. n \in 1..L => t[n] = s[n]
    BY <1>1, <1>4 DEF Grows
  <2> QED
    BY <1>4, <2>1, <2>2
<1>6. Itemed(t)
  <2>1. ASSUME NEW n \in 1..(L + 1)
        PROVE  t[n] = Item(t[n].kind, t[n].contract, t[n].previous, t[n].next)
    <3>1. PICK i : i = t[n]
      OBVIOUS
    <3>2. i = Item(i.kind, i.contract, i.previous, i.next)
      <4>1. CASE n \in 1..L /\ t[n] = s[n]
        BY <1>1, <3>1, <4>1 DEF Traced, Itemed
      <4>2. CASE t[n] = item
        BY <3>1, <4>2 DEF Logs
      <4> QED
        BY <1>5, <4>1, <4>2
    <3> QED
      BY <3>1, <3>2
  <2> QED
    BY <1>4, <2>1 DEF Itemed
<1>7. Led(t)
  <2>1. ASSUME NEW n \in 1..(L + 1), Later(t[n])
        PROVE  \E m \in 1..(n - 1) : t[m] = Earliest(t[n])
    <3>1. \E m \in 1..L : m < n /\ s[m] = Earliest(t[n])
      <4>1. CASE n \in 1..L /\ t[n] = s[n]
        <5>1. PICK m \in 1..(n - 1) : s[m] = Earliest(s[n])
          BY <1>1, <2>1, <4>1 DEF Traced, Led
        <5>2. m \in 1..L /\ m < n
          BY <1>2, <4>1
        <5> QED
          BY <4>1, <5>1, <5>2
      <4>2. CASE n = L + 1 /\ t[n] = item
        <5>1. PICK k, c, a : k = item.kind /\ c = item.contract /\ a = item.next
          OBVIOUS
        <5>2. /\ k \in RoleChanges /\ k # FirstMove(c, a) /\ item.previous = "unknown"
              /\ c \in Granting /\ ((k = "revoked") <=> (a \in members[c]))
              /\ item = Item(k, c, "unknown", a)
          BY <2>1, <4>2, <5>1 DEF Later, Logs
        <5>3. InLog(Item(FirstMove(c, a), c, "unknown", a))
          <6>1. members[c] \in SUBSET Accounts
            BY <5>2 DEF Traced
          <6>2. MembersLogged
            BY DEF Traced
          <6>3. CASE a \in MembersAtStart[c]
            <7>1. a \notin members[c] /\ FirstMove(c, a) = "revoked"
              BY <5>2, <6>3 DEF FirstMove, RoleChanges
            <7> QED
              BY <5>2, <6>2, <6>3, <7>1 DEF MembersLogged
          <6>4. CASE a \notin MembersAtStart[c]
            <7>1. a \in members[c] /\ FirstMove(c, a) = "granted"
              BY <5>2, <6>4 DEF FirstMove, RoleChanges
            <7> QED
              BY <5>2, <6>2, <6>4, <7>1 DEF MembersLogged
          <6> QED
            BY <6>3, <6>4
        <5>4. Earliest(item) = Item(FirstMove(c, a), c, "unknown", a)
          <6>1. item = Item(item.kind, item.contract, item.previous, item.next)
            BY DEF Logs
          <6> QED
            BY <5>1, <5>2, <6>1, EarliestIs
        <5>5. PICK m \in 1..L : s[m] = Earliest(item)
          BY <1>1, <5>3, <5>4 DEF InLog
        <5>6. m < n
          BY <1>2, <4>2
        <5> QED
          BY <4>2, <5>5, <5>6
      <4> QED
        BY <1>5, <4>1, <4>2
    <3>2. PICK m \in 1..L : m < n /\ s[m] = Earliest(t[n])
      BY <3>1
    <3>3. m \in 1..(n - 1)
      BY <1>2, <3>2
    <3>4. t[m] = s[m]
      BY <1>1, <1>4 DEF Grows
    <3> QED
      BY <3>2, <3>3, <3>4
  <2> QED
    BY <1>4, <2>1 DEF Led
<1>8. ASSUME NEW p, NEW x, Went(changes, p, x) PROVE Went(changes', p, x)
  <2>1. PICK n \in 1..Len(changes) : changes[n].power = p /\ changes[n].next = x
    BY <1>8 DEF Went
  <2>2. n \in 1..Len(changes') /\ changes'[n] = changes[n]
    <3>1. Len(changes) \in Nat
      BY AListIs DEF Traced
    <3> QED
      BY <3>1 DEF Grows
  <2> QED
    BY <2>1, <2>2 DEF Went
<1>9. ASSUME NEW n \in 1..(L + 1), t[n].kind \in Kinds
      PROVE  t[n].contract \in Emits /\ Went(changes', Power(t[n].contract, t[n].kind), t[n].next)
  <2>1. CASE n \in 1..L /\ t[n] = s[n]
    <3>1. t[n].contract \in Emits /\ Went(changes, Power(t[n].contract, t[n].kind), t[n].next)
      BY <1>1, <1>9, <2>1 DEF Traced, LogsTrue
    <3> QED
      BY <1>8, <3>1
  <2>2. CASE t[n] = item
    BY <1>9, <2>2 DEF Logs
  <2> QED
    BY <1>5, <2>1, <2>2
<1>10. LogsTrue'
  BY <1>1, <1>4, <1>9 DEF LogsTrue
<1>11. InLog(item)'
  <2>1. L + 1 \in 1..Len(t)
    BY <1>2, <1>4
  <2> QED
    BY <1>1, <1>4, <2>1 DEF InLog
<1>12. ASSUME NEW i, InLog(i) PROVE InLog(i)'
  <2>1. PICK n \in 1..L : s[n] = i
    BY <1>1, <1>12 DEF InLog
  <2>2. n \in 1..Len(t) /\ t[n] = i
    BY <1>1, <1>2, <1>4, <2>1 DEF Grows
  <2> QED
    BY <1>1, <2>2 DEF InLog
<1> QED
  BY <1>1, <1>4, <1>6, <1>7, <1>10, <1>11, <1>12

\* Each power stays, or goes to whom the traces name.
HandedOver ==
  \A p \in Powers :
    \/ holder'[p] = holder[p]
    \/ /\ Went(changes', p, holder'[p])
       /\ p.kind = "owner" /\ p.contract \in Emits => Names(events', "owner", p.contract, holder'[p])
LoggedOne ==
  \E item : /\ Logs(item) /\ events' = Append(events, item)
            /\ \A c \in Granting :
                 /\ \A a \in members'[c] : a \in members[c] \/ item = Item("granted", c, "unknown", a)
                 /\ \A a \in members[c] : a \in members'[c] \/ item = Item("revoked", c, "unknown", a)

\* A change with its traces keeps what the traces show.
LEMMA TracesGoOn ==
  ASSUME Traced, holder' \in [Powers -> Accounts], members' \in [Granting -> SUBSET Accounts],
         AList(intents'), AList(changes'), Grows(changes, changes'), HandedOver, RolesLogged',
         (events' = events /\ members' = members) \/ LoggedOne
  PROVE  Traced'
<1>1. ASSUME NEW p, NEW x, Went(changes, p, x) PROVE Went(changes', p, x)
  <2>1. PICK n \in 1..Len(changes) : changes[n].power = p /\ changes[n].next = x
    BY <1>1 DEF Went
  <2>2. n \in 1..Len(changes') /\ changes'[n] = changes[n]
    <3>1. Len(changes) \in Nat
      BY AListIs DEF Traced
    <3> QED
      BY <3>1 DEF Grows
  <2> QED
    BY <2>1, <2>2 DEF Went
<1>2. Itemed(events') /\ Led(events') /\ LogsTrue' /\ Grows(events, events') /\ MembersLogged'
  <2>1. CASE events' = events /\ members' = members
    <3>1. LogsTrue'
      <4>1. ASSUME NEW n \in 1..Len(events), events[n].kind \in Kinds
            PROVE  events[n].contract \in Emits
                   /\ Went(changes', Power(events[n].contract, events[n].kind), events[n].next)
        BY <1>1, <4>1 DEF Traced, LogsTrue
      <4> QED
        BY <2>1, <4>1 DEF LogsTrue
    <3>2. Grows(events, events')
      <4>1. Len(events) \in Nat
        BY AListIs DEF Traced, Itemed
      <4> QED
        BY <2>1, <4>1 DEF Grows
    <3>3. MembersLogged'
      BY <2>1 DEF Traced, MembersLogged, InLog
    <3> QED
      BY <2>1, <3>1, <3>2, <3>3 DEF Traced
  <2>2. CASE LoggedOne
    <3>1. PICK item :
            /\ Logs(item) /\ events' = Append(events, item)
            /\ \A c \in Granting :
                 /\ \A a \in members'[c] : a \in members[c] \/ item = Item("granted", c, "unknown", a)
                 /\ \A a \in members[c] : a \in members'[c] \/ item = Item("revoked", c, "unknown", a)
      BY <2>2 DEF LoggedOne
    <3>2. /\ Itemed(events') /\ Led(events') /\ LogsTrue' /\ Grows(events, events')
          /\ InLog(item)' /\ \A i : InLog(i) => InLog(i)'
      BY <3>1, LogKeeps
    <3>3. ASSUME NEW c \in Granting, NEW a \in members'[c] \ MembersAtStart[c]
          PROVE  InLog(Item("granted", c, "unknown", a))'
      <4>1. CASE a \in members[c]
        <5>1. InLog(Item("granted", c, "unknown", a))
          BY <4>1 DEF Traced, MembersLogged
        <5> QED
          BY <3>2, <5>1
      <4>2. CASE item = Item("granted", c, "unknown", a)
        BY <3>2, <4>2
      <4> QED
        BY <3>1, <4>1, <4>2
    <3>4. ASSUME NEW c \in Granting, NEW a \in MembersAtStart[c] \ members'[c]
          PROVE  InLog(Item("revoked", c, "unknown", a))'
      <4>1. CASE a \notin members[c]
        <5>1. InLog(Item("revoked", c, "unknown", a))
          BY <4>1 DEF Traced, MembersLogged
        <5> QED
          BY <3>2, <5>1
      <4>2. CASE item = Item("revoked", c, "unknown", a)
        BY <3>2, <4>2
      <4> QED
        BY <3>1, <4>1, <4>2
    <3>5. MembersLogged'
      BY <3>3, <3>4 DEF MembersLogged
    <3> QED
      BY <3>2, <3>5
  <2> QED
    BY <2>1, <2>2
<1>3. HoldersChanged'
  <2>1. ASSUME NEW p \in Powers, holder'[p] # HolderAtStart[p] PROVE Went(changes', p, holder'[p])
    <3>1. CASE holder'[p] = holder[p]
      <4>1. Went(changes, p, holder[p])
        BY <2>1, <3>1 DEF Traced, HoldersChanged
      <4>2. Went(changes', p, holder[p])
        BY <1>1, <4>1
      <4> QED
        BY <3>1, <4>2
    <3>2. CASE ~(holder'[p] = holder[p])
      BY <3>2 DEF HandedOver
    <3> QED
      BY <3>1, <3>2
  <2> QED
    BY <2>1 DEF HoldersChanged
<1>4. OwnersLogged'
  <2>1. ASSUME NEW p \in Powers, holder'[p] # HolderAtStart[p], p.kind = "owner", p.contract \in Emits
        PROVE  Names(events', "owner", p.contract, holder'[p])
    <3>1. CASE holder'[p] = holder[p]
      <4>1. Names(events, "owner", p.contract, holder[p])
        BY <2>1, <3>1 DEF Traced, OwnersLogged
      <4>2. AList(events)
        BY DEF Traced, Itemed
      <4> QED
        BY <1>2, <3>1, <4>1, <4>2, GrowsNames
    <3>2. CASE ~(holder'[p] = holder[p])
      BY <2>1, <3>2 DEF HandedOver
    <3> QED
      BY <3>1, <3>2
  <2> QED
    BY <2>1 DEF OwnersLogged
<1> QED
  BY <1>2, <1>3, <1>4 DEF Traced

\* Whom a log more names.
LEMMA NamesOneMore ==
  ASSUME NEW s, AList(s), NEW e, NEW k, NEW c, NEW x
  PROVE  Names(Append(s, e), k, c, x) <=>
           Names(s, k, c, x) \/ (e.kind = k /\ e.contract = c /\ e.next = x)
<1>1. PICK t, L : t = Append(s, e) /\ L = Len(s)
  OBVIOUS
<1>2. L \in Nat /\ Len(t) = L + 1 /\ t[L + 1] = e /\ \A n \in 1..L : t[n] = s[n]
  BY <1>1, OneMore, AListIs DEF Grows
<1>3. \A n \in 1..(L + 1) : n \in 1..L \/ n = L + 1
  BY <1>2
<1>4. L + 1 \in 1..(L + 1) /\ \A n \in 1..L : n \in 1..(L + 1)
  BY <1>2
<1> QED
  BY <1>1, <1>2, <1>3, <1>4 DEF Names

\* Who changed in two lists together.
LEMMA WentJoined ==
  ASSUME NEW s, NEW t, AList(s), AList(t), NEW p, NEW x
  PROVE  Went(s \o t, p, x) <=> Went(s, p, x) \/ Went(t, p, x)
<1>1. PICK u, L, M : u = s \o t /\ L = Len(s) /\ M = Len(t)
  OBVIOUS
<1>2. L \in Nat /\ M \in Nat
  BY <1>1, AListIs
<1>3. Len(u) = L + M /\ (\A n \in 1..L : u[n] = s[n]) /\ \A n \in 1..M : u[L + n] = t[n]
  BY <1>1, Joined
<1>4. ASSUME NEW n \in 1..(L + M) PROVE n \in 1..L \/ \E m \in 1..M : n = L + m
  <2>1. n \notin 1..L => n - L \in 1..M /\ n = L + (n - L)
    BY <1>2
  <2> QED
    BY <2>1
<1>5. ASSUME Went(u, p, x) PROVE Went(s, p, x) \/ Went(t, p, x)
  <2>1. PICK n \in 1..(L + M) : u[n].power = p /\ u[n].next = x
    BY <1>3, <1>5 DEF Went
  <2>2. (n \in 1..L /\ u[n] = s[n]) \/ \E m \in 1..M : u[n] = t[m]
    BY <1>3, <1>4
  <2> QED
    BY <1>1, <2>1, <2>2 DEF Went
<1>6. ASSUME Went(s, p, x) PROVE Went(u, p, x)
  <2>1. PICK n \in 1..L : s[n].power = p /\ s[n].next = x
    BY <1>1, <1>6 DEF Went
  <2>2. n \in 1..(L + M) /\ u[n] = s[n]
    BY <1>2, <1>3
  <2> QED
    BY <1>3, <2>1, <2>2 DEF Went
<1>7. ASSUME Went(t, p, x) PROVE Went(u, p, x)
  <2>1. PICK n \in 1..M : t[n].power = p /\ t[n].next = x
    BY <1>1, <1>7 DEF Went
  <2>2. L + n \in 1..(L + M) /\ u[L + n] = t[n]
    BY <1>2, <1>3
  <2> QED
    BY <1>3, <2>1, <2>2 DEF Went
<1> QED
  BY <1>1, <1>5, <1>6, <1>7

\* Who changed with one change more.
LEMMA WentOneMore ==
  ASSUME NEW s, AList(s), NEW e, NEW p, NEW x
  PROVE  Went(Append(s, e), p, x) <=> Went(s, p, x) \/ (e.power = p /\ e.next = x)
<1>1. PICK t, L : t = Append(s, e) /\ L = Len(s)
  OBVIOUS
<1>2. L \in Nat /\ Len(t) = L + 1 /\ t[L + 1] = e /\ \A n \in 1..L : t[n] = s[n]
  BY <1>1, OneMore, AListIs DEF Grows
<1>3. \A n \in 1..(L + 1) : n \in 1..L \/ n = L + 1
  BY <1>2
<1>4. L + 1 \in 1..(L + 1) /\ \A n \in 1..L : n \in 1..(L + 1)
  BY <1>2
<1> QED
  BY <1>1, <1>2, <1>3, <1>4 DEF Went

\* What logs and changes of other powers leave of the roles.
LEMMA RolesStay ==
  ASSUME Traced,
         \A c, x : \A kind \in RoleChanges : Names(events', kind, c, x) <=> Names(events, kind, c, x),
         \A c, x : \A kind \in RoleChanges :
           Went(changes', Power(c, kind), x) <=> Went(changes, Power(c, kind), x)
  PROVE  RolesLogged'
BY DEF Traced, RolesLogged

\* A log of a power that is no role names nobody of a role.
LEMMA LoggedStays ==
  ASSUME Traced, NEW p, p.kind \in Kinds, NEW next
  PROVE  \A c, x : \A kind \in RoleChanges : Names(Logged(p, next), kind, c, x) <=> Names(events, kind, c, x)
<1>1. PICK item : item = Item(p.kind, p.contract, holder[p], next)
  OBVIOUS
<1>2. item.kind \in Kinds
  BY <1>1, ItemHas
<1>3. AList(events)
  BY DEF Traced, Itemed
<1>4. \A c, x : \A kind \in RoleChanges :
        Names(Append(events, item), kind, c, x) <=> Names(events, kind, c, x)
  BY <1>2, <1>3, NamesOneMore, RolesApart
<1> QED
  BY <1>1, <1>4 DEF Logged

\* A power of an address is no role.
LEMMA PowerApart ==
  ASSUME NEW p, p.kind \in Kinds
  PROVE  \A c : \A kind \in RoleChanges : Power(c, kind) # p
<1>1. \A c, kind : Power(c, kind).kind = kind
  BY DEF Power
<1> QED
  BY <1>1, RolesApart

\* Before the transaction nothing has changed.
LEMMA PermissionStarts == PermissionAssumption /\ PermissionInit => PermissionInv
<1> SUFFICES ASSUME PermissionAssumption, PermissionInit PROVE PermissionInv
  OBVIOUS
<1>1. /\ holder = HolderAtStart /\ members = MembersAtStart
      /\ events = <<>> /\ intents = <<>> /\ changes = <<>> /\ told = Running
  BY DEF PermissionInit
<1>2. AList(events) /\ AList(intents) /\ AList(changes) /\ Len(events) = 0 /\ Len(changes) = 0
  BY <1>1, NoneOf
<1>3. Itemed(events) /\ Led(events) /\ LogsTrue
  BY <1>2 DEF Itemed, Led, LogsTrue
<1>4. HoldersChanged /\ OwnersLogged
  BY <1>1 DEF HoldersChanged, OwnersLogged
<1>5. MembersLogged /\ members \in [Granting -> SUBSET Accounts]
  BY <1>1 DEF MembersLogged, PermissionAssumption
<1>7. RolesLogged
  BY <1>2 DEF RolesLogged, Names, Went
<1>6. holder \in [Powers -> Accounts]
  BY <1>1 DEF PermissionAssumption
<1> QED
  BY <1>1, <1>2, <1>3, <1>4, <1>5, <1>6, <1>7 DEF PermissionInv, Traced, PowersAreTold

\* While the check has not run there is nothing to tell.
LEMMA NothingTold ==
  ASSUME Traced', told = Running, told' = told
  PROVE  PermissionInv'
BY DEF PermissionInv, PowersAreTold

\* A power that changes hands.
LEMMA ChangeKeeps ==
  ASSUME PermissionAssumption, PermissionInv, NEW p \in Powers, NEW next \in Accounts,
         NEW named \in BOOLEAN, Change(p, next, named)
  PROVE  PermissionInv'
<1>1. /\ told = Running /\ told' = told /\ members' = members
      /\ holder' = [holder EXCEPT ![p] = next] /\ events' = Logged(p, next)
      /\ changes' = Append(changes, [power |-> p, next |-> next])
  BY DEF Change, CanChange
<1>2. Traced
  BY DEF PermissionInv
<1>3. p = Power(p.contract, p.kind) /\ p.kind \in Kinds
  BY PowerIs
<1>4. holder' \in [Powers -> Accounts] /\ \A q \in Powers : holder'[q] = IF q = p THEN next ELSE holder[q]
  BY <1>1, <1>2 DEF Traced
<1>5. AList(intents')
  <2>1. AList(intents)
    BY <1>2 DEF Traced
  <2>2. intents' = IF named /\ p.kind = "owner"
                     THEN Append(intents, [contract |-> p.contract, caller |-> holder[p], next |-> next])
                     ELSE intents
    BY Zenon DEF Change
  <2> QED
    BY <2>1, <2>2, OneMore
<1>6. /\ AList(changes') /\ Grows(changes, changes') /\ Went(changes', p, next)
  <2>1. PICK r : r = [power |-> p, next |-> next]
    OBVIOUS
  <2>2. AList(changes) /\ changes' = Append(changes, r)
    BY <1>1, <1>2, <2>1 DEF Traced
  <2>3. /\ AList(changes') /\ Grows(changes, changes') /\ Len(changes') = Len(changes) + 1
        /\ changes'[Len(changes) + 1] = r /\ Len(changes) \in Nat
    BY <2>2, OneMore, AListIs
  <2>4. Len(changes) + 1 \in 1..Len(changes')
    BY <2>3
  <2>5. r.power = p /\ r.next = next
    BY <2>1
  <2> QED
    BY <2>3, <2>4, <2>5 DEF Went
<1>11. RolesLogged'
  <2>1. \A c, x : \A kind \in RoleChanges : Names(events', kind, c, x) <=> Names(events, kind, c, x)
    BY <1>1, <1>2, <1>3, LoggedStays
  <2>2. PICK r : r = [power |-> p, next |-> next]
    OBVIOUS
  <2>3. AList(changes) /\ changes' = Append(changes, r) /\ r.power = p
    BY <1>1, <1>2, <2>2 DEF Traced
  <2>4. \A c, x : \A kind \in RoleChanges :
          Went(changes', Power(c, kind), x) <=> Went(changes, Power(c, kind), x)
    BY <1>3, <2>3, WentOneMore, PowerApart
  <2> QED
    BY <1>2, <2>1, <2>4, RolesStay
<1>7. PICK item : item = Item(p.kind, p.contract, holder[p], next)
  OBVIOUS
<1>8. item.kind = p.kind /\ item.contract = p.contract /\ item.previous = holder[p] /\ item.next = next
  BY <1>7, ItemHas
<1>9. CASE p.contract \in Emits
  <2>1. events' = Append(events, item)
    BY <1>1, <1>7, <1>9 DEF Logged
  <2>2. Logs(item)
    <3>1. item = Item(item.kind, item.contract, item.previous, item.next)
      BY <1>7, <1>8
    <3>2. item.kind \notin RoleChanges
      BY <1>3, <1>8, RolesApart
    <3>3. item.contract \in Emits /\ Went(changes', Power(item.contract, item.kind), item.next)
      BY <1>3, <1>6, <1>8, <1>9
    <3> QED
      BY <3>1, <3>2, <3>3 DEF Logs
  <2>3. LoggedOne
    BY <1>1, <2>1, <2>2 DEF LoggedOne
  <2>4. InLog(item)'
    BY <1>2, <1>6, <2>1, <2>2, LogKeeps
  <2>5. Names(events', p.kind, p.contract, next)
    BY <1>8, <2>4 DEF Names, InLog
  <2>6. HandedOver
    BY <1>4, <1>6, <2>5 DEF HandedOver
  <2>7. Traced'
    BY <1>1, <1>2, <1>4, <1>5, <1>6, <1>11, <2>3, <2>6, TracesGoOn DEF Traced
  <2> QED
    BY <1>1, <2>7, NothingTold
<1>10. CASE p.contract \notin Emits
  <2>1. events' = events
    BY <1>1, <1>10 DEF Logged
  <2>2. HandedOver
    BY <1>4, <1>6, <1>10 DEF HandedOver
  <2>3. Traced'
    BY <1>1, <1>2, <1>4, <1>5, <1>6, <1>11, <2>1, <2>2, TracesGoOn DEF Traced
  <2> QED
    BY <1>1, <2>3, NothingTold
<1> QED
  BY <1>9, <1>10

\* A call that is refused.
LEMMA RevertKeeps ==
  ASSUME PermissionInv, NEW p \in Powers, NEW caller \in Accounts, NEW next \in Accounts,
         Revert(p, caller, next)
  PROVE  PermissionInv'
<1>1. /\ UNCHANGED <<holder, members, events, changes, told>> /\ told = Running
      /\ intents' = Append(intents, [contract |-> p.contract, caller |-> caller, next |-> next])
  BY DEF Revert, CanChange
<1>2. Traced
  BY DEF PermissionInv
<1>3. AList(intents') /\ Grows(changes, changes')
  <2>1. AList(intents) /\ Len(changes) \in Nat
    BY <1>2, AListIs DEF Traced
  <2>2. AList(intents')
    BY <1>1, <2>1, OneMore
  <2> QED
    BY <1>1, <2>1, <2>2 DEF Grows
<1>4. HandedOver
  BY <1>1 DEF HandedOver
<1>6. RolesLogged'
  BY <1>1, <1>2 DEF Traced, RolesLogged
<1>5. Traced'
  BY <1>1, <1>2, <1>3, <1>4, <1>6, TracesGoOn DEF Traced
<1> QED
  BY <1>1, <1>5, NothingTold

\* A change of the pending admin, which emits nothing.
LEMMA AcceptKeeps ==
  ASSUME PermissionAssumption, PermissionInv, NEW c, Accept(c)
  PROVE  PermissionInv'
<1>1. PICK p, q, x : p = Power(c, "admin") /\ q = Power(c, "pendingAdmin") /\ x = holder[q]
  OBVIOUS
<1>2. /\ told = Running /\ told' = told /\ members' = members /\ intents' = intents
      /\ p \in Powers /\ q \in Powers
      /\ holder' = [holder EXCEPT ![p] = x, ![q] = Zero] /\ events' = Logged(p, x)
      /\ changes' = changes \o <<[power |-> p, next |-> x], [power |-> q, next |-> Zero]>>
  BY <1>1 DEF Accept, CanChange
<1>3. Traced
  BY DEF PermissionInv
<1>4. p.kind = "admin" /\ p.contract = c /\ q.kind = "pendingAdmin" /\ q.contract = c /\ p # q
  BY <1>1 DEF Power
<1>5. x \in Accounts /\ Zero \in Accounts
  BY <1>1, <1>2, <1>3 DEF Traced, PermissionAssumption
<1>6. /\ holder' \in [Powers -> Accounts]
      /\ \A r \in Powers : holder'[r] = IF r = q THEN Zero ELSE IF r = p THEN x ELSE holder[r]
  BY <1>2, <1>3, <1>4, <1>5 DEF Traced
<1>7. /\ AList(changes') /\ Grows(changes, changes')
      /\ Went(changes', p, x) /\ Went(changes', q, Zero)
  <2>1. PICK a, b : a = [power |-> p, next |-> x] /\ b = [power |-> q, next |-> Zero]
    OBVIOUS
  <2>2. AList(changes) /\ changes' = changes \o <<a, b>>
    BY <1>2, <1>3, <2>1 DEF Traced
  <2>3. /\ AList(changes') /\ Grows(changes, changes')
        /\ \E n \in 1..Len(changes') : changes'[n] = a
        /\ \E n \in 1..Len(changes') : changes'[n] = b
    <3>1. PICK t : t = <<a, b>>
      OBVIOUS
    <3>2. AList(t) /\ Len(t) = 2 /\ t[1] = a /\ t[2] = b
      BY <3>1, TwoOf
    <3>3. AList(changes) /\ changes' = changes \o t
      BY <2>2, <3>1
    <3>4. AList(changes) /\ AList(t)
      BY <3>2, <3>3
    <3>5. AList(changes \o t) /\ Grows(changes, changes \o t) /\ Holds(changes \o t, t)
      BY <3>4, JoinedHas
    <3>6. 1 \in 1..Len(t) /\ 2 \in 1..Len(t)
      BY <3>2
    <3> QED
      BY <3>2, <3>3, <3>5, <3>6 DEF Holds
  <2>4. a.power = p /\ a.next = x /\ b.power = q /\ b.next = Zero
    BY <2>1
  <2> QED
    BY <2>3, <2>4 DEF Went
<1>8. HandedOver
  BY <1>4, <1>6, <1>7 DEF HandedOver
<1>9. (events' = events /\ members' = members) \/ LoggedOne
  <2>1. PICK item : item = Item(p.kind, p.contract, holder[p], x)
    OBVIOUS
  <2>2. /\ item.kind = "admin" /\ item.contract = c /\ item.previous = holder[p] /\ item.next = x
        /\ item = Item(item.kind, item.contract, item.previous, item.next)
    BY <1>4, <2>1, ItemHas
  <2>3. CASE p.contract \in Emits
    <3>1. events' = Append(events, item)
      BY <1>2, <2>1, <2>3 DEF Logged
    <3>2. Logs(item)
      BY <1>1, <1>4, <1>7, <2>2, <2>3, RolesApart DEF Logs
    <3> QED
      BY <1>2, <3>1, <3>2 DEF LoggedOne
  <2>4. CASE p.contract \notin Emits
    BY <1>2, <2>4 DEF Logged
  <2> QED
    BY <2>3, <2>4
<1>10. AList(intents') /\ members' \in [Granting -> SUBSET Accounts]
  BY <1>2, <1>3 DEF Traced
<1>12. RolesLogged'
  <2>1. p.kind \in Kinds /\ q.kind \in Kinds
    BY <1>4 DEF Kinds
  <2>2. \A d, y : \A kind \in RoleChanges : Names(events', kind, d, y) <=> Names(events, kind, d, y)
    BY <1>2, <1>3, <2>1, LoggedStays
  <2>3. PICK a, b, t : /\ a = [power |-> p, next |-> x] /\ b = [power |-> q, next |-> Zero]
                       /\ t = <<a, b>>
    OBVIOUS
  <2>4. AList(t) /\ Len(t) = 2 /\ t[1] = a /\ t[2] = b
    BY <2>3, TwoOf
  <2>5. AList(changes) /\ changes' = changes \o t
    BY <1>2, <1>3, <2>3 DEF Traced
  <2>6. ASSUME NEW n \in 1..Len(t) PROVE t[n].power = p \/ t[n].power = q
    <3>1. n = 1 \/ n = 2
      BY <2>4
    <3>2. a.power = p /\ b.power = q
      BY <2>3
    <3> QED
      BY <2>4, <3>1, <3>2
  <2>7. \A d, y : \A kind \in RoleChanges : ~Went(t, Power(d, kind), y)
    BY <2>1, <2>6, PowerApart DEF Went
  <2>8. \A d, y : \A kind \in RoleChanges :
          Went(changes', Power(d, kind), y) <=> Went(changes, Power(d, kind), y)
    BY <2>4, <2>5, <2>7, WentJoined
  <2> QED
    BY <1>3, <2>2, <2>8, RolesStay
<1>11. Traced'
  BY <1>3, <1>6, <1>7, <1>8, <1>9, <1>10, <1>12, TracesGoOn
<1> QED
  BY <1>2, <1>11, NothingTold

\* A role that is granted or revoked.
LEMMA GrantKeeps ==
  ASSUME PermissionInv, NEW c \in Granting, NEW a \in Accounts, Grant(c, a)
  PROVE  PermissionInv'
<1>1. PICK k : k = IF a \in members[c] THEN "revoked" ELSE "granted"
  OBVIOUS
<1>2. PICK item : item = Item(k, c, "unknown", a)
  OBVIOUS
<1>3. /\ told = Running /\ told' = told /\ holder' = holder /\ intents' = intents
      /\ members' = [members EXCEPT ![c] = IF a \in @ THEN @ \ {a} ELSE @ \cup {a}]
      /\ events' = Append(events, item)
      /\ changes' = Append(changes, [power |-> Power(c, k), next |-> a])
  BY <1>1, <1>2 DEF Grant, CanChange
<1>4. Traced
  BY DEF PermissionInv
<1>5. members' \in [Granting -> SUBSET Accounts]
  <2>1. members \in [Granting -> SUBSET Accounts]
    BY <1>4 DEF Traced
  <2>2. (IF a \in members[c] THEN members[c] \ {a} ELSE members[c] \cup {a}) \in SUBSET Accounts
    BY <2>1
  <2> QED
    BY <1>3, <2>1, <2>2
<1>6. \A d \in Granting : members'[d] = IF d = c THEN (IF a \in members[c] THEN members[c] \ {a}
                                                       ELSE members[c] \cup {a})
                                        ELSE members[d]
  BY <1>3, <1>4 DEF Traced
<1>7. AList(changes') /\ Grows(changes, changes')
  BY <1>3, <1>4, OneMore DEF Traced
<1>8. /\ item.kind = k /\ item.contract = c /\ item.previous = "unknown" /\ item.next = a
      /\ item = Item(item.kind, item.contract, item.previous, item.next)
  BY <1>2, ItemHas
<1>9. Logs(item)
  <2>1. item.kind \notin Kinds
    BY <1>1, <1>8 DEF Kinds
  <2>2. (item.kind = "revoked") <=> (a \in members[c])
    BY <1>1, <1>8
  <2> QED
    BY <1>8, <2>1, <2>2 DEF Logs
<1>10. ASSUME NEW d \in Granting
       PROVE  /\ \A b \in members'[d] : b \in members[d] \/ item = Item("granted", d, "unknown", b)
              /\ \A b \in members[d] : b \in members'[d] \/ item = Item("revoked", d, "unknown", b)
  BY <1>1, <1>2, <1>6
<1>11. LoggedOne
  BY <1>3, <1>9, <1>10 DEF LoggedOne
<1>12. HandedOver
  BY <1>3 DEF HandedOver
<1>13. AList(intents') /\ holder' \in [Powers -> Accounts]
  BY <1>3, <1>4 DEF Traced
<1>15. RolesLogged'
  <2>1. PICK r : r = [power |-> Power(c, k), next |-> a]
    OBVIOUS
  <2>2. /\ AList(changes) /\ changes' = Append(changes, r) /\ AList(events)
        /\ r.power = Power(c, k) /\ r.next = a
    BY <1>3, <1>4, <2>1 DEF Traced, Itemed
  <2>3. ASSUME NEW d \in Granting, NEW kind \in RoleChanges, NEW x
        PROVE  Names(events', kind, d, x) <=> Went(changes', Power(d, kind), x)
    <3>1. Names(events, kind, d, x) <=> Went(changes, Power(d, kind), x)
      BY <1>4 DEF Traced, RolesLogged
    <3>2. Names(events', kind, d, x) <=> Names(events, kind, d, x) \/ (k = kind /\ c = d /\ a = x)
      BY <1>3, <1>8, <2>2, NamesOneMore
    <3>3. Went(changes', Power(d, kind), x) <=>
            Went(changes, Power(d, kind), x) \/ (Power(c, k) = Power(d, kind) /\ a = x)
      BY <2>2, WentOneMore
    <3>4. Power(c, k) = Power(d, kind) <=> c = d /\ k = kind
      BY DEF Power
    <3> QED
      BY <3>1, <3>2, <3>3, <3>4
  <2> QED
    BY <2>3 DEF RolesLogged
<1>14. Traced'
  BY <1>4, <1>5, <1>7, <1>11, <1>12, <1>13, <1>15, TracesGoOn
<1> QED
  BY <1>3, <1>14, NothingTold

\* Every step of the transaction and of its check.
LEMMA PermissionKeeps ==
  PermissionAssumption /\ PermissionInv /\ [PermissionNext]_permissionVars => PermissionInv'
<1> SUFFICES ASSUME PermissionAssumption, PermissionInv, [PermissionNext]_permissionVars
             PROVE  PermissionInv'
  OBVIOUS
<1>1. CASE \E p \in Powers, next \in Accounts, named \in BOOLEAN : Change(p, next, named)
  BY <1>1, ChangeKeeps
<1>2. CASE \E p \in Powers, caller, next \in Accounts : Revert(p, caller, next)
  BY <1>2, RevertKeeps
<1>3. CASE \E p \in Powers : Accept(p.contract)
  BY <1>3, AcceptKeeps
<1>4. CASE \E c \in Granting, a \in Accounts \ {Zero} : Grant(c, a)
  <2>1. PICK c \in Granting, a \in Accounts : Grant(c, a)
    BY <1>4
  <2> QED
    BY <2>1, GrantKeeps
<1>5. CASE Check
  BY <1>5, CheckTellsPowers
<1>6. CASE UNCHANGED permissionVars
  <2>1. UNCHANGED <<holder, members, events, intents, changes, told>>
    BY <1>6 DEF permissionVars
  <2>2. Traced'
    BY <2>1 DEF PermissionInv, Traced, HoldersChanged, OwnersLogged, LogsTrue, MembersLogged,
               RolesLogged, InLog
  <2>3. PowersAreTold'
    <3>1. /\ Moved' = Moved /\ \A p : Evident(p)' <=> Evident(p)
          /\ \A p : Times(p)' = Times(p) /\ TellsOf(p)' = TellsOf(p)
          /\ \A p : ChangedTo(p)' = ChangedTo(p)
      BY <2>1 DEF Moved, Evident, Times, TellsOf, ChangedTo
    <3> QED
      BY <2>1, <3>1 DEF PermissionInv, PowersAreTold
  <2> QED
    BY <2>2, <2>3 DEF PermissionInv
<1> QED
  BY <1>1, <1>2, <1>3, <1>4, <1>5, <1>6 DEF PermissionNext

(***************************************************************************)
(* Whatever calls move the powers, and whichever traces the contracts      *)
(* leave, checkPermissionDiff names who has each power in the end where it *)
(* is evident and nobody who never had it; of a role it names everyone who *)
(* was granted it and everyone it was revoked from, and nobody else, and   *)
(* of each of them what happened first before what happened later.         *)
(***************************************************************************)
THEOREM PowersAreToldRight == PermissionSpec => []PowersAreTold
<1>1. PermissionInit => PermissionInv
  BY PermissionAssumption, PermissionStarts
<1>2. PermissionInv /\ [PermissionNext]_permissionVars => PermissionInv'
  BY PermissionAssumption, PermissionKeeps
<1>3. PermissionInv => PowersAreTold
  BY DEF PermissionInv
<1> QED
  BY <1>1, <1>2, <1>3, PTL DEF PermissionSpec
-----------------------------------------------------------------------------
(* What BalanceEvidence says of balances.                                  *)

\* The partial sums of a function's values, in the order of their addition.
Sums(s, f, D) ==
  /\ s \in [0..Cardinality(D) -> Int] /\ s[0] = 0
  /\ \A n \in 1..Cardinality(D) : s[n] = s[n - 1] + f[SetToSeq(D)[n]]

\* The total is the last of them.
LEMMA TotalIs ==
  ASSUME NEW D, IsFiniteSet(D), NEW f \in [D -> Int]
  PROVE  Cardinality(D) \in Nat /\ \E s : Sums(s, f, D) /\ Total(f) = s[Cardinality(D)]
<1>1. PICK N, order : N = Cardinality(D) /\ order = SetToSeq(D)
  OBVIOUS
<1>2. N \in Nat /\ order \in [1..N -> D]
  BY <1>1, Ordered
<1>3. PICK t : t = [n \in 1..N |-> [x \in Int |-> x + f[order[n]]]]
  OBVIOUS
<1>4. \A n \in 1..N : t[n] \in [Int -> Int]
  <2>1. ASSUME NEW n \in 1..N, NEW x \in Int PROVE x + f[order[n]] \in Int
    <3>1. order[n] \in D
      BY <1>2
    <3>2. f[order[n]] \in Int
      BY <3>1
    <3> QED
      BY <3>2
  <2> QED
    BY <1>3, <2>1
<1>5. PICK g \in [0..N -> Int] : Loop(g, 0, t, N)
  <2>1. 0 \in Int
    OBVIOUS
  <2> QED
    BY <1>2, <1>4, <2>1, LoopExists
<1>6. \A n \in 1..N : n - 1 \in 0..N /\ n \in 0..N /\ n # 0
  BY <1>2
<1>7. g[0] = 0 /\ \A n \in 1..N : g[n] = g[n - 1] + f[order[n]]
  <2>1. 0 \in 0..N
    BY <1>2
  <2>2. g[0] = 0
    BY <1>5, <2>1 DEF Loop
  <2>3. ASSUME NEW n \in 1..N PROVE g[n] = g[n - 1] + f[order[n]]
    <3>1. g[n - 1] \in Int
      BY <1>5, <1>6
    <3>2. g[n] = t[n][g[n - 1]]
      BY <1>5, <1>6 DEF Loop
    <3> QED
      BY <1>3, <3>1, <3>2
  <2> QED
    BY <2>2, <2>3
<1>8. g = [n \in 0..N |-> IF n = 0 THEN 0 ELSE g[n - 1] + f[order[n]]]
  <2>1. \A n \in 0..N : n # 0 => n \in 1..N
    BY <1>2
  <2>2. \A n \in 0..N : g[n] = IF n = 0 THEN 0 ELSE g[n - 1] + f[order[n]]
    BY <1>7, <2>1
  <2> QED
    BY <1>5, <2>2
<1> DEFINE e == CHOOSE e : e = [n \in 0..Cardinality(DOMAIN f) |->
                                  IF n = 0 THEN 0 ELSE e[n - 1] + f[SetToSeq(DOMAIN f)[n]]]
<1>9. DOMAIN f = D
  OBVIOUS
<1>10. Total(f) = e[N]
  <2>1. Total(f) = e[Cardinality(DOMAIN f)]
    BY Zenon DEF Total
  <2> QED
    BY <1>1, <1>9, <2>1, Zenon
<1>11. g = [n \in 0..Cardinality(DOMAIN f) |->
              IF n = 0 THEN 0 ELSE g[n - 1] + f[SetToSeq(DOMAIN f)[n]]]
  BY <1>1, <1>8, <1>9, Zenon
<1>12. e = [n \in 0..Cardinality(DOMAIN f) |->
              IF n = 0 THEN 0 ELSE e[n - 1] + f[SetToSeq(DOMAIN f)[n]]]
  BY <1>11, Zenon
<1> HIDE DEF e
<1>13. e = [n \in 0..N |-> IF n = 0 THEN 0 ELSE e[n - 1] + f[order[n]]]
  BY <1>1, <1>9, <1>12, Zenon
<1>14. PICK T : T = {n \in 0..N : e[n] = g[n]}
  OBVIOUS
<1>15. 0 \in T
  BY <1>2, <1>7, <1>13, <1>14
<1>16. ASSUME NEW n \in 1..N, n - 1 \in T PROVE n \in T
  <2>1. e[n] = e[n - 1] + f[order[n]]
    BY <1>6, <1>13
  <2>2. e[n - 1] = g[n - 1]
    BY <1>14, <1>16
  <2>3. e[n] = g[n]
    BY <1>7, <2>1, <2>2
  <2> QED
    BY <1>6, <1>14, <2>3
<1>17. \A n \in 0..N : n \in T
  BY <1>2, <1>15, <1>16, UpTo
<1>18. e[N] = g[N]
  BY <1>2, <1>14, <1>17
<1>19. Sums(g, f, D)
  BY <1>1, <1>5, <1>7 DEF Sums
<1> QED
  BY <1>1, <1>2, <1>10, <1>18, <1>19

\* A total is a number.
LEMMA TotalType ==
  ASSUME NEW D, IsFiniteSet(D), NEW f \in [D -> Int]
  PROVE  Total(f) \in Int
<1>1. PICK s : Sums(s, f, D) /\ Total(f) = s[Cardinality(D)]
  BY TotalIs
<1>2. PICK N : N = Cardinality(D) /\ N \in Nat
  BY TotalIs
<1>3. N \in 0..N
  BY <1>2
<1> QED
  BY <1>1, <1>2, <1>3 DEF Sums

\* Values that are no greater have no greater total.
LEMMA TotalGrows ==
  ASSUME NEW D, IsFiniteSet(D), NEW f \in [D -> Int], NEW g \in [D -> Int],
         \A x \in D : f[x] <= g[x]
  PROVE  Total(f) <= Total(g)
<1>1. PICK N, order : N = Cardinality(D) /\ order = SetToSeq(D)
  OBVIOUS
<1>2. N \in Nat /\ order \in [1..N -> D]
  BY <1>1, Ordered
<1>3. PICK s : Sums(s, f, D) /\ Total(f) = s[N]
  BY <1>1, TotalIs
<1>4. PICK r : Sums(r, g, D) /\ Total(g) = r[N]
  BY <1>1, TotalIs
<1>5. s \in [0..N -> Int] /\ s[0] = 0 /\ \A n \in 1..N : s[n] = s[n - 1] + f[order[n]]
  BY <1>1, <1>3 DEF Sums
<1>6. r \in [0..N -> Int] /\ r[0] = 0 /\ \A n \in 1..N : r[n] = r[n - 1] + g[order[n]]
  BY <1>1, <1>4 DEF Sums
<1>7. PICK T : T = {n \in 0..N : s[n] <= r[n]}
  OBVIOUS
<1>8. 0 \in T
  BY <1>2, <1>5, <1>6, <1>7
<1>9. ASSUME NEW n \in 1..N, n - 1 \in T PROVE n \in T
  <2>1. n \in 0..N /\ n - 1 \in 0..N /\ order[n] \in D
    BY <1>2
  <2>2. PICK a, b, x, y : a = s[n - 1] /\ b = r[n - 1] /\ x = f[order[n]] /\ y = g[order[n]]
    OBVIOUS
  <2>3. a \in Int /\ b \in Int /\ x \in Int /\ y \in Int
    BY <1>5, <1>6, <2>1, <2>2
  <2>4. a <= b /\ x <= y
    BY <1>7, <1>9, <2>1, <2>2
  <2>5. s[n] = a + x /\ r[n] = b + y
    BY <1>5, <1>6, <2>2
  <2>6. s[n] <= r[n]
    BY <2>3, <2>4, <2>5
  <2> QED
    BY <1>7, <2>1, <2>6
<1>10. \A n \in 0..N : n \in T
  BY <1>2, <1>8, <1>9, UpTo
<1>11. s[N] <= r[N]
  BY <1>2, <1>7, <1>10
<1> QED
  BY <1>3, <1>4, <1>11

\* Zeros have the total zero.
LEMMA TotalOfZeros ==
  ASSUME NEW D, IsFiniteSet(D), NEW f \in [D -> Int], \A x \in D : f[x] = 0
  PROVE  Total(f) = 0
<1>1. PICK N, order : N = Cardinality(D) /\ order = SetToSeq(D)
  OBVIOUS
<1>2. N \in Nat /\ order \in [1..N -> D]
  BY <1>1, Ordered
<1>3. PICK s : Sums(s, f, D) /\ Total(f) = s[N]
  BY <1>1, TotalIs
<1>4. s \in [0..N -> Int] /\ s[0] = 0 /\ \A n \in 1..N : s[n] = s[n - 1] + f[order[n]]
  BY <1>1, <1>3 DEF Sums
<1>5. PICK T : T = {n \in 0..N : s[n] = 0}
  OBVIOUS
<1>6. 0 \in T
  BY <1>2, <1>4, <1>5
<1>7. ASSUME NEW n \in 1..N, n - 1 \in T PROVE n \in T
  <2>1. n \in 0..N /\ order[n] \in D
    BY <1>2
  <2>2. s[n - 1] = 0 /\ f[order[n]] = 0
    BY <1>5, <1>7, <2>1
  <2>3. s[n] = 0
    BY <1>4, <2>2
  <2> QED
    BY <1>5, <2>1, <2>3
<1>8. \A n \in 0..N : n \in T
  BY <1>2, <1>6, <1>7, UpTo
<1>9. s[N] = 0
  BY <1>2, <1>5, <1>8
<1> QED
  BY <1>3, <1>9

\* Where the gathering is, and of what transaction.
GatheringIsTyped ==
  /\ provider \in {"rpc", "tenderly"} /\ moves \in Transactions
  /\ gathering \in {"native", "tokens", "prices", "report", "done"}

\* A row holds what is true of a watched account, or does not know it.
RowsAreTrue ==
  \A p \in DOMAIN rows :
    /\ p \in Assets \X Watched
    /\ rows[p] \in [before : {Opening[p[1]][p[2]], Null}, after : {Closing(p[1], p[2]), Null}]

\* Once they are gathered, every account has a row of every asset that was
\* called, and if not the asset is noted.
AllAreRead ==
  provider = "rpc" /\ ~replay =>
    /\ gathering = "native" => todo = Candidates
    /\ gathering # "native" => \A h \in Watched : <<"native", h>> \in DOMAIN rows
    /\ \A c \in Candidates \cap Tokens :
         c \in todo \/ c \in unavailable \/ \A h \in Watched : <<c, h>> \in DOMAIN rows
    /\ gathering \notin {"native", "tokens"} => todo = {}

BalanceInv ==
  /\ GatheringIsTyped /\ RowsAreTrue /\ AllAreRead
  /\ movement.said => gathering = "done"
  /\ TreasuryTotalsAreReal

\* A transaction is a list of moves.
LEMMA MovesAre ==
  ASSUME BalanceAssumption, moves \in Transactions
  PROVE  /\ IsFiniteSet(DOMAIN moves)
         /\ \A n \in DOMAIN moves : moves[n].amount \in Nat
         /\ \A n \in DOMAIN moves :
              moves[n].asset \notin Assets => moves[n].amount = 0 /\ ~moves[n].event
<1>1. PICK R : R = [asset : STRING, from : STRING, to : STRING, amount : Nat,
                    event : BOOLEAN, method : BOOLEAN, failed : BOOLEAN]
  OBVIOUS
<1>2. moves \in Seq(R)
  BY <1>1 DEF BalanceAssumption
<1>3. PICK L : L = Len(moves) /\ L \in Nat
  BY <1>2
<1>4. DOMAIN moves = 1..L /\ \A n \in 1..L : moves[n] \in R
  BY <1>2, <1>3
<1>5. IsFiniteSet(1..L)
  BY <1>3, FS_Interval
<1>6. \A r \in R : r.amount \in Nat
  BY <1>1
<1>7. \A n \in DOMAIN moves : moves[n].asset \notin Assets => moves[n].amount = 0 /\ ~moves[n].event
  BY DEF BalanceAssumption
<1> QED
  BY <1>4, <1>5, <1>6, <1>7

\* What an account gains by a move.
Gained(ns, asset, h, n) ==
  IF n \notin ns \/ moves[n].asset # asset THEN 0
  ELSE (IF moves[n].to = h THEN moves[n].amount ELSE 0)
       - (IF moves[n].from = h THEN moves[n].amount ELSE 0)

\* Accounts gain numbers, and only of assets that move.
LEMMA NetIs ==
  ASSUME BalanceAssumption, moves \in Transactions, NEW ns, NEW asset, NEW h
  PROVE  /\ Net(ns, asset, h) \in Int
         /\ Net(ns, asset, h) # 0 => \E n \in DOMAIN moves : moves[n].asset = asset
<1>1. PICK g : g = [n \in DOMAIN moves |-> Gained(ns, asset, h, n)]
  OBVIOUS
<1>2. Net(ns, asset, h) = Total(g)
  BY <1>1 DEF Net, Gained
<1>3. g \in [DOMAIN moves -> Int]
  <2>1. ASSUME NEW n \in DOMAIN moves PROVE Gained(ns, asset, h, n) \in Int
    <3>1. PICK m : m = moves[n].amount /\ m \in Nat
      BY MovesAre
    <3>2. PICK x, y : x = (IF moves[n].to = h THEN m ELSE 0) /\ y = (IF moves[n].from = h THEN m ELSE 0)
      OBVIOUS
    <3>3. x \in Int /\ y \in Int
      BY <3>1, <3>2
    <3>4. x - y \in Int /\ 0 \in Int
      BY <3>3
    <3>5. Gained(ns, asset, h, n) = IF n \notin ns \/ moves[n].asset # asset THEN 0 ELSE x - y
      BY <3>1, <3>2, Zenon DEF Gained
    <3> QED
      BY <3>4, <3>5
  <2> QED
    BY <1>1, <2>1
<1>4. IsFiniteSet(DOMAIN moves)
  BY MovesAre
<1>5. Net(ns, asset, h) \in Int
  BY <1>2, <1>3, <1>4, TotalType
<1>6. ASSUME \A n \in DOMAIN moves : moves[n].asset # asset PROVE Net(ns, asset, h) = 0
  <2>1. \A n \in DOMAIN moves : g[n] = 0
    BY <1>1, <1>6 DEF Gained
  <2> QED
    BY <1>2, <1>3, <1>4, <2>1, TotalOfZeros
<1> QED
  BY <1>5, <1>6

\* Balances and losses are numbers, and only assets that move are lost.
LEMMA LossIs ==
  ASSUME BalanceAssumption, moves \in Transactions, NEW a \in Assets, NEW h \in Holders
  PROVE  /\ Opening[a][h] \in Int /\ Closing(a, h) \in Int /\ LossOf(a, h) \in Int
         /\ LossOf(a, h) = Opening[a][h] - Closing(a, h)
         /\ LossOf(a, h) # 0 => \E n \in DOMAIN moves : moves[n].asset = a
<1>1. PICK x : x = Opening[a][h] /\ x \in Nat
  BY DEF BalanceAssumption
<1>2. PICK y : y = Net(Committed, a, h) /\ y \in Int
  BY NetIs
<1>3. y # 0 => \E n \in DOMAIN moves : moves[n].asset = a
  BY <1>2, NetIs
<1>4. Closing(a, h) = x + y
  BY <1>1, <1>2 DEF Closing
<1>5. LossOf(a, h) = x - (x + y)
  BY <1>1, <1>4 DEF LossOf
<1>6. LossOf(a, h) # 0 => y # 0
  BY <1>1, <1>2, <1>5
<1>7. x \in Int /\ x + y \in Int /\ x - (x + y) \in Int
  BY <1>1, <1>2
<1>8. LossOf(a, h) = Opening[a][h] - Closing(a, h)
  BY DEF LossOf
<1>9. Opening[a][h] \in Int /\ Closing(a, h) \in Int /\ LossOf(a, h) \in Int
  BY <1>1, <1>4, <1>5, <1>7, Zenon
<1> QED
  BY <1>3, <1>6, <1>8, <1>9, Zenon

\* A difference is the true one or unknown.
LEMMA DeltaIs ==
  ASSUME BalanceAssumption, moves \in Transactions, RowsAreTrue,
         NEW a \in Assets, NEW h \in Holders
  PROVE  Delta(<<a, h>>) = Null \/ Delta(<<a, h>>) = -LossOf(a, h)
<1>1. PICK p : p = <<a, h>>
  OBVIOUS
<1>2. p[1] = a /\ p[2] = h
  BY <1>1
<1>3. CASE p \notin DOMAIN rows
  BY <1>1, <1>3 DEF Delta, RowOf, Row
<1>4. CASE p \in DOMAIN rows
  <2>1. PICK r : r = RowOf(p)
    OBVIOUS
  <2>2. r = rows[p]
    BY <1>4, <2>1 DEF RowOf
  <2>3. r \in [before : {Opening[a][h], Null}, after : {Closing(a, h), Null}]
    BY <1>2, <1>4, <2>2 DEF RowsAreTrue
  <2>4. r.before \in {Opening[a][h], Null} /\ r.after \in {Closing(a, h), Null}
    BY <2>3
  <2>5. CASE Null \in {r.before, r.after}
    BY <1>1, <2>1, <2>5 DEF Delta
  <2>6. CASE Null \notin {r.before, r.after}
    <3>1. r.before = Opening[a][h] /\ r.after = Closing(a, h)
      BY <2>4, <2>6
    <3>2. Delta(p) = r.after - r.before
      BY <2>1, <2>6 DEF Delta
    <3>3. PICK x, y : x = Opening[a][h] /\ y = Closing(a, h) /\ x \in Int /\ y \in Int
      BY LossIs
    <3>4. LossOf(a, h) = x - y
      BY <3>3 DEF LossOf
    <3>5. y - x = -(x - y)
      BY <3>3
    <3> QED
      BY <1>1, <3>1, <3>2, <3>3, <3>4, <3>5
  <2> QED
    BY <2>5, <2>6
<1> QED
  BY <1>3, <1>4

\* What an account has lost of an asset, in dollars.
LossValue(a, h) == IF LossOf(a, h) > 0 THEN LossOf(a, h) * Price[a] ELSE 0

\* A loss has no negative value.
LEMMA LossValueIs ==
  ASSUME BalanceAssumption, moves \in Transactions, NEW a \in Assets, NEW h \in Holders
  PROVE  LossValue(a, h) \in Nat
<1>1. PICK x : x = LossOf(a, h) /\ x \in Int
  BY LossIs
<1>2. PICK c : c = Price[a] /\ c \in Nat
  BY DEF BalanceAssumption
<1>3. x > 0 => x * c \in Nat
  BY <1>1, <1>2
<1> QED
  BY <1>1, <1>2, <1>3 DEF LossValue

\* The part of a difference that the report adds up is the loss or nothing.
LEMMA FallIs ==
  ASSUME BalanceAssumption, moves \in Transactions, RowsAreTrue,
         NEW a \in Assets, NEW h \in Holders, Delta(<<a, h>>) # Null
  PROVE  /\ Usd(<<a, h>>) = Null => Fall(<<a, h>>) = 0
         /\ Usd(<<a, h>>) # Null => Fall(<<a, h>>) = LossValue(a, h)
<1>1. PICK p, d, l, u : p = <<a, h>> /\ d = Delta(p) /\ l = LossOf(a, h) /\ u = Usd(p)
  OBVIOUS
<1>2. l \in Int /\ d = -l
  BY <1>1, LossIs, DeltaIs
<1>3. PICK c : c = Price[a] /\ c \in Nat
  BY DEF BalanceAssumption
<1>4. Null \notin Int
  BY DEF BalanceAssumption
<1>5. CASE u = Null
  BY <1>1, <1>4, <1>5 DEF Fall
<1>6. CASE u # Null
  <2>1. p[1] = a
    BY <1>1
  <2>2. u = IF d = 0 THEN 0 ELSE IF d = Null \/ p[1] \notin quotes THEN Null ELSE d * c
    BY <1>1, <1>3, <2>1 DEF Usd
  <2>3. CASE d = 0
    <3>1. u = 0 /\ l = 0
      BY <1>2, <2>2, <2>3
    <3>2. Fall(p) = 0
      <4>1. Fall(p) = IF u = Null \/ u > 0 THEN 0 ELSE -u
        BY <1>1, Zenon DEF Fall
      <4>2. u \in Int /\ -u = 0
        <5>1. \A x, y \in Int : x + y = 0 => -x = y
          OBVIOUS
        <5>2. 0 + 0 = 0 /\ u + 0 = 0 /\ 0 \in Int /\ u \in Int
          BY <3>1
        <5> QED
          BY <5>1, <5>2, <3>1, Zenon
      <4> QED
        BY <4>1, <4>2
    <3>3. LossValue(a, h) = 0
      BY <1>1, <3>1 DEF LossValue
    <3> QED
      BY <1>1, <1>6, <3>2, <3>3
  <2>4. CASE d # 0
    <3>1. u = d * c
      BY <1>6, <2>2, <2>4
    <3>2. Fall(p) = IF u > 0 THEN 0 ELSE -u
      BY <1>1, <1>6 DEF Fall
    <3>3. CASE l > 0
      <4>1. LossValue(a, h) = l * c
        BY <1>1, <1>3, <3>3 DEF LossValue
      <4>2. d * c = -(l * c)
        BY <1>2, <1>3
      <4>3. l * c >= 0 /\ l * c \in Int
        BY <1>2, <1>3, <3>3
      <4>4. PICK m : m = l * c
        OBVIOUS
      <4> QED
        BY <1>1, <3>1, <3>2, <4>1, <4>2, <4>3, <4>4
    <3>4. CASE ~(l > 0)
      <4>1. LossValue(a, h) = 0
        BY <1>1, <3>4 DEF LossValue
      <4>2. d \in Nat
        BY <1>2, <3>4
      <4>3. u \in Nat
        BY <1>3, <3>1, <4>2
      <4>4. u > 0 \/ -u = 0
        BY <4>3
      <4> QED
        BY <1>1, <3>2, <4>1, <4>4
    <3> QED
      BY <3>3, <3>4
  <2> QED
    BY <2>3, <2>4
<1> QED
  BY <1>1, <1>5, <1>6

\* What the report over RPC is made of.
Fallen == {p \in ShownRows : p[2] \in Treasuries /\ Delta(p) # 0}
Measured == {p \in Fallen : Delta(p) # Null}
Unvalued == \/ unavailable # {}
            \/ \E h \in Treasuries : \A p \in DOMAIN rows : p[2] # h
            \/ \E p \in Fallen : Usd(p) = Null
Decreases == Total([p \in Assets \X Treasuries |-> IF p \in Measured THEN Fall(p) ELSE 0])

\* These are its parts.
LEMMA ReportIs ==
  /\ TreasuryReport.changes = Measured /\ TreasuryReport.incomplete = Unvalued
  /\ TreasuryReport.total = IF Unvalued THEN Null ELSE Decreases
  /\ TreasuryReport.warned = (Decreases >= Threshold)
<1>1. PICK inc, dec, war, mea, tot, bal :
        /\ inc = Unvalued /\ dec = Decreases /\ war = (Decreases >= Threshold) /\ mea = Measured
        /\ tot = (IF Unvalued THEN Null ELSE Decreases) /\ bal = BalanceWarnings
  OBVIOUS
<1>2. PICK rec : TreasuryReport = [said |-> TRUE, changes |-> mea, incomplete |-> inc,
                                   total |-> tot, warned |-> war, recipients |-> rec,
                                   balances |-> bal]
  BY <1>1, Zenon DEF TreasuryReport, Measured, Unvalued, Decreases, Fallen
<1>3. /\ TreasuryReport.changes = mea /\ TreasuryReport.incomplete = inc
      /\ TreasuryReport.total = tot /\ TreasuryReport.warned = war
  BY <1>2
<1> QED
  BY <1>1, <1>3, Zenon

\* When all is read that can be, what a treasury has lost has its row.
LEMMA LossHasRow ==
  ASSUME BalanceAssumption, moves \in Transactions, AllAreRead,
         provider = "rpc", ~replay, gathering = "report", unavailable = {},
         NEW a \in Assets, NEW h \in Treasuries, LossOf(a, h) # 0
  PROVE  <<a, h>> \in DOMAIN rows
<1>1. h \in Holders
  BY DEF BalanceAssumption
<1>2. h \in Watched
  BY <1>1, Zenon DEF Watched
<1>3. PICK n \in DOMAIN moves : moves[n].asset = a
  BY <1>1, LossIs
<1>4. CASE a = "native"
  BY <1>2, <1>4 DEF AllAreRead
<1>5. CASE a # "native"
  <2>1. a \in Candidates
    BY <1>3, <1>5 DEF Candidates
  <2>2. a \in Tokens
    BY <1>5 DEF Assets
  <2>3. todo = {}
    BY DEF AllAreRead
  <2> QED
    BY <1>2, <2>1, <2>2, <2>3 DEF AllAreRead
<1> QED
  BY <1>4, <1>5

\* So the report takes it into account, or is incomplete.
LEMMA LossIsTold ==
  ASSUME BalanceAssumption, moves \in Transactions, RowsAreTrue, AllAreRead,
         provider = "rpc", ~replay, gathering = "report", ~Unvalued,
         NEW a \in Assets, NEW h \in Treasuries, LossOf(a, h) # 0
  PROVE  <<a, h>> \in Measured
<1>1. PICK p : p = <<a, h>>
  OBVIOUS
<1>2. p[1] = a /\ p[2] = h /\ h \in Holders /\ p \in Assets \X Holders
  BY <1>1 DEF BalanceAssumption
<1>3. unavailable = {} /\ \A q \in Fallen : Usd(q) # Null
  BY DEF Unvalued
<1>4. p \in DOMAIN rows
  BY <1>1, <1>3, LossHasRow
<1>5. Null # 0
  BY DEF BalanceAssumption
<1>6. Delta(p) = Null \/ Delta(p) = -LossOf(a, h)
  BY <1>1, <1>2, DeltaIs
<1>7. LossOf(a, h) \in Int
  BY <1>2, LossIs
<1>8. Delta(p) # 0
  BY <1>5, <1>6, <1>7
<1>9. p \in ShownRows
  BY <1>2, <1>4, <1>8, Zenon DEF ShownRows
<1>10. p \in Fallen
  BY <1>2, <1>8, <1>9, Zenon DEF Fallen
<1>11. Delta(p) # Null
  <2>1. ASSUME Delta(p) = Null PROVE FALSE
    <3>1. Usd(p) = Null
      BY <1>5, <2>1 DEF Usd
    <3> QED
      BY <1>3, <1>10, <3>1
  <2> QED
    BY <2>1
<1> QED
  BY <1>1, <1>10, <1>11, Zenon DEF Measured

\* The assets of the treasuries.
LEMMA HoldingsAre ==
  ASSUME BalanceAssumption
  PROVE  IsFiniteSet(Assets \X Treasuries)
<1>1. IsFiniteSet(Tokens) /\ IsFiniteSet(Holders) /\ Treasuries \subseteq Holders
  BY DEF BalanceAssumption
<1>2. IsFiniteSet({"native"})
  BY FS_Singleton
<1>3. IsFiniteSet(Assets)
  BY <1>1, <1>2, FS_Union DEF Assets
<1>4. IsFiniteSet(Treasuries)
  BY <1>1, FS_Subset
<1> QED
  BY <1>3, <1>4, FS_Product

\* What the report adds up is no more than the loss, and is the loss when it is
\* complete.
LEMMA DecreasesAre ==
  ASSUME BalanceAssumption, moves \in Transactions, RowsAreTrue, AllAreRead,
         provider = "rpc", gathering = "report"
  PROVE  /\ Decreases \in Int /\ LossInUsd \in Int /\ Decreases <= LossInUsd
         /\ ~Unvalued /\ ~replay => Decreases = LossInUsd
<1>1. PICK D : D = Assets \X Treasuries
  OBVIOUS
<1>2. IsFiniteSet(D)
  BY <1>1, HoldingsAre
<1>3. PICK f, g : /\ f = [p \in D |-> IF p \in Measured THEN Fall(p) ELSE 0]
                  /\ g = [p \in D |-> LossValue(p[1], p[2])]
  OBVIOUS
<1>4. Decreases = Total(f)
  BY <1>1, <1>3, Zenon DEF Decreases
<1>5. LossInUsd = Total(g)
  BY <1>1, <1>3, Zenon DEF LossInUsd, LossValue
<1>6. ASSUME NEW p \in D
      PROVE  /\ f[p] \in Int /\ g[p] \in Int /\ f[p] <= g[p]
             /\ ~Unvalued /\ ~replay => f[p] = g[p]
  <2>1. PICK a \in Assets, h \in Treasuries : p = <<a, h>>
    BY <1>1
  <2>2. p[1] = a /\ p[2] = h
    BY <2>1
  <2>3. h \in Holders
    BY <2>1 DEF BalanceAssumption
  <2>4. PICK v : v = LossValue(a, h) /\ v \in Nat
    BY <2>3, LossValueIs
  <2>5. g[p] = v
    BY <1>3, <2>2, <2>4
  <2>6. CASE p \in Measured
    <3>1. Delta(p) # Null /\ p \in Fallen
      BY <2>6 DEF Measured
    <3>2. f[p] = Fall(p)
      BY <1>3, <2>6
    <3>3. /\ Usd(p) = Null => f[p] = 0
          /\ Usd(p) # Null => f[p] = v
      BY <2>1, <2>3, <2>4, <3>1, <3>2, FallIs
    <3>4. ~Unvalued => Usd(p) # Null
      BY <3>1 DEF Unvalued
    <3> QED
      BY <2>4, <2>5, <3>3, <3>4
  <2>7. CASE p \notin Measured
    <3>1. f[p] = 0
      BY <1>3, <2>7
    <3>2. ASSUME ~Unvalued, ~replay PROVE v = 0
      <4>1. LossOf(a, h) = 0
        BY <2>1, <2>7, <3>2, LossIsTold
      <4> QED
        BY <2>4, <4>1 DEF LossValue
    <3> QED
      BY <2>4, <2>5, <3>1, <3>2
  <2> QED
    BY <2>6, <2>7
<1>7. f \in [D -> Int] /\ g \in [D -> Int]
  BY <1>3, <1>6
<1>8. Total(f) \in Int /\ Total(g) \in Int
  BY <1>2, <1>7, TotalType
<1>9. Total(f) <= Total(g)
  BY <1>2, <1>6, <1>7, TotalGrows
<1>10. ASSUME ~Unvalued, ~replay PROVE Decreases = LossInUsd
  <2>1. f = g
    BY <1>6, <1>7, <1>10
  <2> QED
    BY <1>4, <1>5, <2>1
<1> QED
  BY <1>4, <1>5, <1>8, <1>9, <1>10

\* What TreasuryTotalsAreReal asks of a report.
TotalsAreTrue(m) ==
  IF provider = "rpc"
    THEN /\ m.total # Null /\ ~replay => m.total = LossInUsd
         /\ \A h \in Treasuries, a \in Assets : LossOf(a, h) > 0 /\ ~replay =>
              \/ m.incomplete
              \/ <<a, h>> \in m.changes /\ Delta(<<a, h>>) = -LossOf(a, h)
         /\ m.warned => LossInUsd >= Threshold
    ELSE m.total # Null => m.total = SentInUsd

\* The report over RPC is true.
LEMMA TreasuryReportIsTrue ==
  ASSUME BalanceAssumption, moves \in Transactions, RowsAreTrue, AllAreRead,
         provider = "rpc", gathering = "report"
  PROVE  TotalsAreTrue(TreasuryReport)
<1>1. PICK m : m = TreasuryReport
  OBVIOUS
<1>2. /\ m.changes = Measured /\ m.incomplete = Unvalued
      /\ m.total = IF Unvalued THEN Null ELSE Decreases
      /\ m.warned = (Decreases >= Threshold)
  BY <1>1, ReportIs
<1>3. PICK d, l : d = Decreases /\ l = LossInUsd /\ d \in Int /\ l \in Int /\ d <= l
  BY DecreasesAre
<1>4. m.total # Null /\ ~replay => m.total = LossInUsd
  BY <1>2, DecreasesAre
<1>5. ASSUME NEW h \in Treasuries, NEW a \in Assets, LossOf(a, h) > 0, ~replay
      PROVE  m.incomplete \/ (<<a, h>> \in m.changes /\ Delta(<<a, h>>) = -LossOf(a, h))
  <2>1. CASE Unvalued
    BY <1>2, <2>1
  <2>2. CASE ~Unvalued
    <3>1. LossOf(a, h) # 0
      BY <1>5
    <3>2. h \in Holders
      BY DEF BalanceAssumption
    <3>3. <<a, h>> \in Measured
      BY <1>5, <2>2, <3>1, LossIsTold
    <3>4. Delta(<<a, h>>) # Null
      BY <3>3, Zenon DEF Measured
    <3>5. Delta(<<a, h>>) = Null \/ Delta(<<a, h>>) = -LossOf(a, h)
      BY <3>2, DeltaIs
    <3> QED
      BY <1>2, <3>3, <3>4, <3>5
  <2> QED
    BY <2>1, <2>2
<1>6. m.warned => LossInUsd >= Threshold
  <2>1. PICK c : c = Threshold /\ c \in Int
    BY DEF BalanceAssumption
  <2>2. m.warned => d >= c
    BY <1>2, <1>3, <2>1, Zenon
  <2>3. d >= c => l >= c
    BY <1>3, <2>1
  <2> QED
    BY <1>3, <2>1, <2>2, <2>3, Zenon
<1> QED
  BY <1>1, <1>4, <1>5, <1>6 DEF TotalsAreTrue

\* So is what is summed of Tenderly's changes.
LEMMA OutgoingReportIsTrue ==
  ASSUME BalanceAssumption, moves \in Transactions, provider # "rpc"
  PROVE  TotalsAreTrue(OutgoingReport)
<1>1. PICK priced : priced = {n \in Outgoing : moves[n].asset \in quotes}
  OBVIOUS
<1>2. PICK m : m = OutgoingReport
  OBVIOUS
<1>3. PICK f, g :
        /\ f = [n \in DOMAIN moves |->
                  IF n \in priced THEN moves[n].amount * Price[moves[n].asset] ELSE 0]
        /\ g = [n \in DOMAIN moves |->
                  IF /\ n \in Committed /\ moves[n].from \in Treasuries
                     /\ moves[n].to \notin Treasuries
                     /\ moves[n].asset \in Assets /\ (moves[n].asset = "native" \/ moves[n].event)
                  THEN moves[n].amount * Price[moves[n].asset] ELSE 0]
  OBVIOUS
<1>4. SentInUsd = Total(g)
  BY <1>3, Zenon DEF SentInUsd
<1>5. m.total = IF priced # Outgoing THEN Null ELSE Total(f)
  <2>1. PICK inc, tot : /\ inc = (priced # Outgoing)
                        /\ tot = (IF priced # Outgoing THEN Null ELSE Total(f))
    OBVIOUS
  <2>2. PICK war, rec : OutgoingReport = [said |-> TRUE, changes |-> Outgoing, incomplete |-> inc,
                                   total |-> tot, warned |-> war, recipients |-> rec,
                                   balances |-> {}]
    BY <1>1, <1>3, <2>1, Zenon DEF OutgoingReport
  <2> QED
    BY <1>2, <2>1, <2>2
<1>6. ASSUME priced = Outgoing PROVE f = g
  <2>1. ASSUME NEW n \in DOMAIN moves PROVE f[n] = g[n]
    <3>1. moves[n].amount \in Nat
      BY MovesAre
    <3>2. moves[n].asset \notin Assets => moves[n].amount = 0
      BY MovesAre
    <3>3. n \in priced <=> /\ n \in Committed /\ moves[n].amount > 0
                           /\ (moves[n].asset = "native" \/ moves[n].event)
                           /\ moves[n].from \in Treasuries /\ moves[n].to \notin Treasuries
      BY <1>6 DEF Outgoing, Changes
    <3>4. CASE n \in priced
      <4>1. moves[n].asset \in Assets
        BY <3>1, <3>2, <3>3, <3>4
      <4> QED
        BY <1>3, <3>3, <3>4, <4>1
    <3>5. CASE n \notin priced
      <4>1. f[n] = 0
        BY <1>3, <3>5
      <4>2. CASE /\ n \in Committed /\ moves[n].from \in Treasuries
                 /\ moves[n].to \notin Treasuries
                 /\ moves[n].asset \in Assets /\ (moves[n].asset = "native" \/ moves[n].event)
        <5>1. moves[n].amount = 0
          BY <3>1, <3>3, <3>5, <4>2
        <5>2. PICK c : c = Price[moves[n].asset] /\ c \in Nat
          BY <4>2 DEF BalanceAssumption
        <5>3. g[n] = moves[n].amount * c
          BY <1>3, <4>2, <5>2
        <5>4. 0 * c = 0
          BY <5>2
        <5> QED
          BY <4>1, <5>1, <5>3, <5>4
      <4>3. CASE ~(/\ n \in Committed /\ moves[n].from \in Treasuries
                   /\ moves[n].to \notin Treasuries
                   /\ moves[n].asset \in Assets /\ (moves[n].asset = "native" \/ moves[n].event))
        BY <1>3, <4>1, <4>3
      <4> QED
        BY <4>2, <4>3
    <3> QED
      BY <3>4, <3>5
  <2> QED
    BY <1>3, <2>1
<1>7. m.total # Null => m.total = SentInUsd
  BY <1>4, <1>5, <1>6
<1> QED
  BY <1>2, <1>7 DEF TotalsAreTrue

\* A true report stays true when nothing that it is about changes.
LEMMA TotalsStay ==
  ASSUME TotalsAreTrue(movement'), UNCHANGED <<provider, replay, moves, rows>>
  PROVE  TreasuryTotalsAreReal'
<1>1. LossInUsd' = LossInUsd /\ SentInUsd' = SentInUsd
  BY DEF LossInUsd, SentInUsd, LossOf, Closing, Committed, Net
<1>2. \A a, h : LossOf(a, h)' = LossOf(a, h)
  BY DEF LossOf, Closing, Committed, Net
<1>3. \A p : Delta(p)' = Delta(p)
  BY DEF Delta, RowOf
<1> QED
  BY <1>1, <1>2, <1>3 DEF TreasuryTotalsAreReal, TotalsAreTrue

\* In the beginning nothing is read and nothing said.
LEMMA BalanceStarts ==
  ASSUME BalanceAssumption, BalanceInit
  PROVE  BalanceInv
<1>1. GatheringIsTyped
  BY DEF BalanceInit, GatheringIsTyped
<1>2. RowsAreTrue
  BY DEF BalanceInit, RowsAreTrue
<1>3. AllAreRead
  BY DEF BalanceInit, AllAreRead
<1>4. ~movement.said
  BY DEF BalanceInit, Unsaid
<1> QED
  BY <1>1, <1>2, <1>3, <1>4 DEF BalanceInv, TreasuryTotalsAreReal

\* What a transaction does is not changed by looking at it.
LEMMA TransactionStays ==
  ASSUME UNCHANGED moves
  PROVE  /\ Watched' = Watched /\ Candidates' = Candidates
         /\ \A a, h : Closing(a, h)' = Closing(a, h)
<1>1. Watched' = Watched
  BY DEF Watched, Changes, Committed
<1>2. Candidates' = Candidates
  BY DEF Candidates
<1>3. \A a, h : Closing(a, h)' = Closing(a, h)
  BY DEF Closing, Committed, Net
<1> QED
  BY <1>1, <1>2, <1>3

\* Rows that were true stay true, and nothing that was read is lost.
LEMMA RowsStay ==
  ASSUME RowsAreTrue, UNCHANGED <<moves, rows>>
  PROVE  RowsAreTrue'
<1>1. Watched' = Watched /\ \A a, h : Closing(a, h)' = Closing(a, h)
  BY TransactionStays
<1> QED
  BY <1>1 DEF RowsAreTrue

\* Before the report there is nothing to be true.
LEMMA NothingSaidYet ==
  ASSUME BalanceInv, gathering # "done", movement' = movement,
         GatheringIsTyped', RowsAreTrue', AllAreRead'
  PROVE  BalanceInv'
<1>1. ~movement'.said
  BY DEF BalanceInv
<1> QED
  BY <1>1 DEF BalanceInv, TreasuryTotalsAreReal

\* Reading the native balances.
LEMMA NativeKeeps ==
  ASSUME BalanceAssumption, BalanceInv, Native
  PROVE  BalanceInv'
<1>1. /\ gathering = "native" /\ gathering' = IF replay THEN "prices" ELSE "tokens"
      /\ UNCHANGED <<todo, unavailable, provider, replay, moves, quotes, movement>>
  BY DEF Native, Same
<1>2. PICK lost \in SUBSET Watched :
        rows' = [p \in {"native"} \X Watched |->
                  LET h == p[2]
                      before == ReadBalance(Opening["native"][h], h \notin lost)
                      changed == Closing("native", h) # Opening["native"][h] IN
                  Row(before, IF changed THEN Closing("native", h) ELSE before)]
  BY DEF Native
<1>3. Watched' = Watched /\ Candidates' = Candidates /\ \A a, h : Closing(a, h)' = Closing(a, h)
  BY <1>1, TransactionStays
<1>4. GatheringIsTyped'
  BY <1>1 DEF BalanceInv, GatheringIsTyped
<1>5. RowsAreTrue'
  <2>1. ASSUME NEW p \in DOMAIN rows'
        PROVE  /\ p \in Assets \X Watched
               /\ rows'[p] \in [before : {Opening[p[1]][p[2]], Null},
                                after : {Closing(p[1], p[2]), Null}]
    <3>1. p \in {"native"} \X Watched
      BY <1>2
    <3>2. PICK h \in Watched : p = <<"native", h>>
      BY <3>1
    <3>3. p[1] = "native" /\ p[2] = h /\ "native" \in Assets
      BY <3>2 DEF Assets
    <3>4. PICK o, c : o = Opening["native"][h] /\ c = Closing("native", h)
      OBVIOUS
    <3>5. PICK b : b = ReadBalance(o, h \notin lost)
      OBVIOUS
    <3>6. rows'[p] = [before |-> b, after |-> IF c # o THEN c ELSE b]
      BY <1>2, <3>1, <3>3, <3>4, <3>5 DEF Row
    <3>7. b \in {o, Null}
      BY <3>5 DEF ReadBalance
    <3>8. (IF c # o THEN c ELSE b) \in {c, Null}
      BY <3>7
    <3> QED
      BY <3>2, <3>3, <3>4, <3>6, <3>7, <3>8
  <2> QED
    BY <1>3, <2>1 DEF RowsAreTrue
<1>6. AllAreRead'
  <2>1. \A h \in Watched : <<"native", h>> \in DOMAIN rows'
    BY <1>2
  <2>2. provider = "rpc" /\ ~replay => todo = Candidates
    BY <1>1 DEF BalanceInv, AllAreRead
  <2> QED
    BY <1>1, <1>3, <2>1, <2>2 DEF AllAreRead
<1> QED
  BY <1>1, <1>4, <1>5, <1>6, NothingSaidYet

\* A contract that is no token is left aside, one that cannot be read is noted.
LEMMA LeftAsideKeeps ==
  ASSUME BalanceAssumption, BalanceInv, NEW c \in Candidates, NotAToken(c) \/ TokenUnavailable(c)
  PROVE  BalanceInv'
<1>1. /\ gathering = "tokens" /\ todo' = todo \ {c} /\ unavailable \subseteq unavailable'
      /\ c \in Tokens => c \in unavailable'
      /\ UNCHANGED <<gathering, rows, provider, replay, moves, movement>>
  <2>1. CASE NotAToken(c)
    BY <2>1 DEF NotAToken, Same
  <2>2. CASE TokenUnavailable(c)
    BY <2>2 DEF TokenUnavailable, Same
  <2> QED
    BY <2>1, <2>2
<1>2. Watched' = Watched /\ Candidates' = Candidates
  BY <1>1, TransactionStays
<1>3. GatheringIsTyped'
  BY <1>1 DEF BalanceInv, GatheringIsTyped
<1>4. RowsAreTrue'
  BY <1>1, RowsStay DEF BalanceInv
<1>5. AllAreRead'
  BY <1>1, <1>2 DEF BalanceInv, AllAreRead
<1> QED
  BY <1>1, <1>3, <1>4, <1>5, NothingSaidYet

\* The balances of a token.
LEMMA TokenReadKeeps ==
  ASSUME BalanceAssumption, BalanceInv, NEW t \in Candidates, TokenRead(t)
  PROVE  BalanceInv'
<1>1. /\ gathering = "tokens" /\ t \in todo /\ t \in Tokens /\ todo' = todo \ {t}
      /\ UNCHANGED <<gathering, unavailable, provider, replay, moves, movement>>
  BY DEF TokenRead, Same
<1>2. PICK lostBefore, lostAfter \in SUBSET Watched :
        rows' = [p \in DOMAIN rows \cup ({t} \X Watched) |->
                  IF p[1] # t THEN rows[p]
                  ELSE Row(ReadBalance(Opening[t][p[2]], p[2] \notin lostBefore),
                           ReadBalance(Closing(t, p[2]), p[2] \notin lostAfter))]
  BY DEF TokenRead
<1>3. Watched' = Watched /\ Candidates' = Candidates /\ \A a, h : Closing(a, h)' = Closing(a, h)
  BY <1>1, TransactionStays
<1>4. GatheringIsTyped'
  BY <1>1 DEF BalanceInv, GatheringIsTyped
<1>5. RowsAreTrue'
  <2>1. ASSUME NEW p \in DOMAIN rows'
        PROVE  /\ p \in Assets \X Watched
               /\ rows'[p] \in [before : {Opening[p[1]][p[2]], Null},
                                after : {Closing(p[1], p[2]), Null}]
    <3>1. p \in DOMAIN rows \/ p \in {t} \X Watched
      BY <1>2
    <3>2. CASE p[1] # t
      <4>1. p \in DOMAIN rows
        BY <3>1, <3>2
      <4>2. rows'[p] = rows[p]
        BY <1>2, <3>2
      <4> QED
        BY <4>1, <4>2 DEF BalanceInv, RowsAreTrue
    <3>3. CASE p[1] = t
      <4>1. p \in Assets \X Watched
        <5>1. CASE p \in DOMAIN rows
          BY <5>1 DEF BalanceInv, RowsAreTrue
        <5>2. CASE p \in {t} \X Watched
          BY <1>1, <5>2 DEF Assets
        <5> QED
          BY <3>1, <5>1, <5>2
      <4>2. PICK o, c : o = Opening[t][p[2]] /\ c = Closing(t, p[2])
        OBVIOUS
      <4>3. PICK x, y : x = ReadBalance(o, p[2] \notin lostBefore) /\ y = ReadBalance(c, p[2] \notin lostAfter)
        OBVIOUS
      <4>4. rows'[p] = [before |-> x, after |-> y]
        BY <1>2, <3>3, <4>2, <4>3 DEF Row
      <4>5. x \in {o, Null} /\ y \in {c, Null}
        BY <4>3 DEF ReadBalance
      <4> QED
        BY <3>3, <4>1, <4>2, <4>4, <4>5
    <3> QED
      BY <3>2, <3>3
  <2> QED
    BY <1>3, <2>1 DEF RowsAreTrue
<1>6. AllAreRead'
  <2>1. DOMAIN rows' = DOMAIN rows \cup ({t} \X Watched)
    BY <1>2
  <2>2. \A h \in Watched : <<t, h>> \in DOMAIN rows'
    BY <2>1
  <2> QED
    BY <1>1, <1>3, <2>1, <2>2 DEF BalanceInv, AllAreRead
<1> QED
  BY <1>1, <1>4, <1>5, <1>6, NothingSaidYet

\* The end of the tokens, and the prices.
LEMMA PricesKeep ==
  ASSUME BalanceAssumption, BalanceInv, TokensDone \/ Prices
  PROVE  BalanceInv'
<1>1. /\ gathering \in {"tokens", "prices"} /\ gathering' \in {"prices", "report"}
      /\ gathering = "tokens" => todo = {}
      /\ UNCHANGED <<todo, unavailable, rows, provider, replay, moves, movement>>
  <2>1. CASE TokensDone
    BY <2>1 DEF TokensDone, Same
  <2>2. CASE Prices
    BY <2>2 DEF Prices
  <2> QED
    BY <2>1, <2>2
<1>2. Watched' = Watched /\ Candidates' = Candidates
  BY <1>1, TransactionStays
<1>3. GatheringIsTyped'
  BY <1>1 DEF BalanceInv, GatheringIsTyped
<1>4. RowsAreTrue'
  BY <1>1, RowsStay DEF BalanceInv
<1>5. AllAreRead'
  BY <1>1, <1>2 DEF BalanceInv, AllAreRead
<1> QED
  BY <1>1, <1>3, <1>4, <1>5, NothingSaidYet

\* The report.
LEMMA ReportKeeps ==
  ASSUME BalanceAssumption, BalanceInv, Report
  PROVE  BalanceInv'
<1>1. /\ gathering = "report" /\ gathering' = "done"
      /\ movement' = IF provider = "rpc" THEN TreasuryReport ELSE OutgoingReport
      /\ UNCHANGED <<provider, replay, moves, todo, rows, unavailable, quotes>>
  BY DEF Report
<1>2. moves \in Transactions /\ RowsAreTrue /\ AllAreRead
  BY DEF BalanceInv, GatheringIsTyped
<1>3. TotalsAreTrue(movement')
  <2>1. CASE provider = "rpc"
    BY <1>1, <1>2, <2>1, TreasuryReportIsTrue
  <2>2. CASE provider # "rpc"
    BY <1>1, <1>2, <2>2, OutgoingReportIsTrue
  <2> QED
    BY <2>1, <2>2
<1>4. TreasuryTotalsAreReal'
  BY <1>1, <1>3, TotalsStay
<1>5. Watched' = Watched /\ Candidates' = Candidates
  BY <1>1, TransactionStays
<1>6. GatheringIsTyped'
  BY <1>1 DEF BalanceInv, GatheringIsTyped
<1>7. RowsAreTrue'
  BY <1>1, RowsStay DEF BalanceInv
<1>8. AllAreRead'
  BY <1>1, <1>5 DEF BalanceInv, AllAreRead
<1> QED
  BY <1>1, <1>4, <1>6, <1>7, <1>8 DEF BalanceInv

\* Nothing happens.
LEMMA BalancesRest ==
  ASSUME BalanceInv, UNCHANGED balanceVars
  PROVE  BalanceInv'
<1>1. UNCHANGED <<provider, replay, moves, todo, gathering, rows, unavailable, quotes, movement>>
  BY DEF balanceVars
<1>2. Watched' = Watched /\ Candidates' = Candidates
  BY <1>1, TransactionStays
<1>3. GatheringIsTyped'
  BY <1>1 DEF BalanceInv, GatheringIsTyped
<1>4. RowsAreTrue'
  BY <1>1, RowsStay DEF BalanceInv
<1>5. AllAreRead'
  BY <1>1, <1>2 DEF BalanceInv, AllAreRead
<1>6. TreasuryTotalsAreReal'
  <2>1. CASE ~movement.said
    BY <1>1, <2>1 DEF TreasuryTotalsAreReal
  <2>2. CASE movement.said
    <3>1. TotalsAreTrue(movement)
      BY <2>2 DEF BalanceInv, TreasuryTotalsAreReal, TotalsAreTrue
    <3>2. TotalsAreTrue(movement')
      BY <1>1, <3>1
    <3> QED
      BY <1>1, <3>2, TotalsStay
  <2> QED
    BY <2>1, <2>2
<1> QED
  BY <1>1, <1>3, <1>4, <1>5, <1>6 DEF BalanceInv

\* Every step keeps the invariant.
LEMMA BalanceKeeps ==
  ASSUME BalanceAssumption, BalanceInv, [BalanceNext]_balanceVars
  PROVE  BalanceInv'
<1>1. CASE Native
  BY <1>1, NativeKeeps
<1>2. CASE TokensDone \/ Prices
  BY <1>2, PricesKeep
<1>3. CASE Report
  BY <1>3, ReportKeeps
<1>4. ASSUME NEW c \in Candidates, NotAToken(c) \/ TokenUnavailable(c) PROVE BalanceInv'
  BY <1>4, LeftAsideKeeps
<1>5. ASSUME NEW c \in Candidates, TokenRead(c) PROVE BalanceInv'
  BY <1>5, TokenReadKeeps
<1>6. CASE UNCHANGED balanceVars
  BY <1>6, BalancesRest
<1> QED
  BY <1>1, <1>2, <1>3, <1>4, <1>5, <1>6, Zenon DEF BalanceNext

(***************************************************************************)
(* For any transaction, tokens and holders, and whatever reads and quotes  *)
(* fail: the total that a report tells of a treasury is the true one, a    *)
(* loss that it leaves out makes it incomplete, and a warning that the     *)
(* threshold is passed is never false.                                     *)
(***************************************************************************)
THEOREM TotalsAreReal == BalanceSpec => []TreasuryTotalsAreReal
<1>1. BalanceInit => BalanceInv
  BY BalanceAssumption, BalanceStarts
<1>2. BalanceInv /\ [BalanceNext]_balanceVars => BalanceInv'
  BY BalanceAssumption, BalanceKeeps
<1>3. BalanceInv => TreasuryTotalsAreReal
  BY DEF BalanceInv
<1> QED
  BY <1>1, <1>2, <1>3, PTL DEF BalanceSpec
=============================================================================
