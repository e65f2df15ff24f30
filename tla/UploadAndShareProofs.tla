------------------------- MODULE UploadAndShareProofs -------------------------
(***************************************************************************)
(* Theorems about the way of an artifact from the results file to the page *)
(* that shows it: the alias budget is kept, an artifact is published once, *)
(* and a link shows what its run has sent.                                 *)
(***************************************************************************)
EXTENDS UploadAndShare, TLAPS

\* The smallest and largest of what the publisher compares.
LEMMA LargerOfTwo ==
  ASSUME NEW a \in Int, NEW b \in Int
  PROVE  /\ Max({a, b}) \in {a, b}
         /\ Max({a, b}) >= a /\ Max({a, b}) >= b
<1>1. \E x \in {a, b} : \A y \in {a, b} : x >= y
  <2>1. CASE a >= b
    BY <2>1
  <2>2. CASE b >= a
    BY <2>2
  <2>3. QED
    BY <2>1, <2>2
<1>2. QED
  BY <1>1 DEF Max

LEMMA SmallestOfThree ==
  ASSUME NEW a \in Int, NEW b \in Int, NEW c \in Int
  PROVE  Min({a, b, c}) \in {a, b, c} /\ Min({a, b, c}) <= c
<1>1. \E x \in {a, b, c} : \A y \in {a, b, c} : x <= y
  <2>1. CASE a <= b /\ a <= c
    BY <2>1
  <2>2. CASE b <= a /\ b <= c
    BY <2>2
  <2>3. CASE c <= a /\ c <= b
    BY <2>3
  <2>4. QED
    BY <2>1, <2>2, <2>3
<1>2. QED
  BY <1>1 DEF Min
-----------------------------------------------------------------------------
(* The publisher: a step changes one execution, or lets time pass.         *)

States == {"idle", "creating", "aliasing", "sleeping", "returned", "recorded",
           "failed"}
Bases == {"none", "alias", "deployment"}
Execution ==
  [pc: States, raw: Raws \cup {None}, left: Int, nap: Int, delay: Int,
   late: BOOLEAN, refused: BOOLEAN, base: Bases]

\* What the attempts make of an execution is one.
LEMMA Edits ==
  ASSUME NEW r \in Execution, NEW i \in Int, NEW j \in Int
  PROVE  /\ [r EXCEPT !.pc = "aliasing", !.left = i, !.delay = j] \in Execution
         /\ [r EXCEPT !.pc = "returned", !.base = "alias", !.delay = 0,
                      !.left = 0] \in Execution
         /\ [r EXCEPT !.pc = "returned", !.base = "deployment",
                      !.refused = TRUE, !.left = 0, !.delay = 0] \in Execution
         /\ [r EXCEPT !.pc = "returned", !.base = "deployment", !.delay = 0,
                      !.left = i] \in Execution
         /\ [r EXCEPT !.pc = "sleeping", !.nap = i, !.delay = j] \in Execution
<1>1. /\ "aliasing" \in States /\ "returned" \in States /\ "sleeping" \in States
      /\ "alias" \in Bases /\ "deployment" \in Bases /\ 0 \in Int
  BY DEF States, Bases
<1>2. [r EXCEPT !.pc = "aliasing", !.left = i, !.delay = j] \in Execution
  BY <1>1 DEF Execution
<1>3. [r EXCEPT !.pc = "returned", !.base = "alias", !.delay = 0,
                !.left = 0] \in Execution
  BY <1>1 DEF Execution
<1>4. [r EXCEPT !.pc = "returned", !.base = "deployment",
                !.refused = TRUE, !.left = 0, !.delay = 0] \in Execution
  BY <1>1 DEF Execution
<1>5. [r EXCEPT !.pc = "returned", !.base = "deployment", !.delay = 0,
                !.left = i] \in Execution
  BY <1>1 DEF Execution
<1>6. [r EXCEPT !.pc = "sleeping", !.nap = i, !.delay = j] \in Execution
  BY <1>1 DEF Execution
<1> QED
  BY <1>2, <1>3, <1>4, <1>5, <1>6

\* What is asked of one execution, given the deployment behind its host.
Sound(e, x, h) ==
  /\ x \in Execution
  /\ ~x.late
  /\ (x.base = "deployment" /\ ~x.refused) => x.left <= 0
  /\ x.pc = "sleeping" => x.nap <= x.left
  /\ x.base # "none" => x.pc \in {"returned", "recorded"}
  /\ x.base = "alias" => h = e
  /\ h \in {None, e}

AllSound ==
  /\ exec \in [Execs -> Execution] /\ ready \subseteq Execs
  /\ alias \in [Execs \cup {"proposal"} -> Execs \cup {None}]
  /\ \A e \in Execs : Sound(e, exec[e], alias[e])

LEMMA InvIsSound == PublisherInv <=> AllSound
BY DEF AllSound, PublisherInv, PublisherTypes, AliasBudgetIsUsed, SleepFits, HandedOut,
       HostIsOwn, Host, Sound, Execution, States, Bases

\* An artifact stays with its execution, and a failure is the end.
Carries ==
  \A e \in Execs :
    /\ exec'[e].raw = exec[e].raw
    /\ exec'[e].pc = "idle" <=> exec[e].pc = "idle"
    /\ exec[e].pc = "failed" => exec'[e].pc = "failed"
    /\ exec[e].pc = "recorded" => exec'[e].pc = "recorded"

LEMMA OneExecutionChanges ==
  ASSUME PublisherInv, NEW e \in Execs, NEW x, Step(e, x),
         Sound(e, x, alias'[e]),
         ready' \subseteq Execs,
         alias' = alias \/ \E d \in Execs : alias' = [alias EXCEPT ![e] = e]
  PROVE  PublisherInv'
<1> DEFINE Good(d) == Sound(d, exec'[d], alias'[d])
<1>1. /\ exec \in [Execs -> Execution]
      /\ alias \in [Execs \cup {"proposal"} -> Execs \cup {None}]
      /\ \A d \in Execs : Sound(d, exec[d], alias[d])
  BY InvIsSound DEF AllSound
<1>2. x \in Execution
  BY DEF Sound
<1>3. exec' = [exec EXCEPT ![e] = x]
  BY DEF Step
<1>4. exec' \in [Execs -> Execution]
  BY <1>1, <1>2, <1>3
<1>5. alias' \in [Execs \cup {"proposal"} -> Execs \cup {None}]
  BY <1>1
<1>6. ASSUME NEW d \in Execs
      PROVE  Good(d)
  <2>1. CASE d = e
    <3>1. exec'[d] = x
      BY <1>1, <1>3, <2>1
    <3>2. QED
      BY <2>1, <3>1
  <2>2. CASE d # e
    <3>1. exec'[d] = exec[d] /\ alias'[d] = alias[d]
      BY <1>1, <1>3, <2>2
    <3>2. QED
      BY <1>1, <3>1
  <2>3. QED
    BY <2>1, <2>2
<1>7. QED
  <2>1. AllSound'
    BY <1>4, <1>5, <1>6 DEF AllSound
  <2>2. QED
    BY <2>1, InvIsSound, PTL

LEMMA PublisherStarts ==
  PublisherInit => PublisherInv
<1> SUFFICES ASSUME PublisherInit
             PROVE  AllSound
  BY InvIsSound
<1>1. NewExec \in Execution
  BY DEF NewExec, Execution, States, Bases
<1>2. QED
  BY <1>1 DEF AllSound, PublisherInit, NewExec, Sound

\* What an execution with a deployment comes to, attempt by attempt.
LEMMA AttemptKeepsInv ==
  ASSUME PublisherInv, NEW e \in Execs,
         AliasAnswered(e) \/ AliasRefused(e) \/ AliasFails(e) \/ AliasAgain(e)
  PROVE  PublisherInv' /\ Carries
<1> DEFINE r == exec[e]
<1>1. /\ exec \in [Execs -> Execution] /\ r \in Execution
      /\ alias \in [Execs \cup {"proposal"} -> Execs \cup {None}]
      /\ ready \subseteq Execs
      /\ Sound(e, r, alias[e])
  BY InvIsSound DEF AllSound
<1>2. None # e
  BY PublisherAssumption
<1>3. /\ r.left \in Int /\ r.nap \in Int /\ r.delay \in Int /\ r.late = FALSE
      /\ r.refused \in BOOLEAN /\ r.raw \in Raws \cup {None}
  BY <1>1 DEF Execution, Sound
<1>4. ASSUME NEW x, Step(e, x), x.raw = r.raw, x.pc \notin {"idle"}, r.pc \in {"aliasing", "sleeping"}
      PROVE  Carries
  BY <1>1, <1>4 DEF Carries, Step, Execution
<1>5. CASE AliasAnswered(e)
  <2> DEFINE x == [r EXCEPT !.pc = "returned", !.base = "alias", !.delay = 0,
                            !.left = 0]
  <2>1. Step(e, x) /\ r.pc = "aliasing" /\ ready' = ready
    BY <1>5 DEF AliasAnswered, Returns
  <2>2. /\ alias' = alias \/ alias' = [alias EXCEPT ![e] = e]
        /\ alias'[e] = e
    BY <1>1, <1>5 DEF AliasAnswered, Host, Sound
  <2>3. x \in Execution /\ x.late = r.late /\ x.pc = "returned" /\ x.base = "alias"
        /\ x.raw = r.raw
    BY <1>1, Edits DEF Execution
  <2>4. Sound(e, x, alias'[e])
    BY <1>3, <2>2, <2>3 DEF Sound
  <2>5. Carries
    BY <1>4, <2>1, <2>3
  <2>6. PublisherInv'
    BY <1>1, <2>1, <2>2, <2>4, OneExecutionChanges
  <2>7. QED
    BY <2>5, <2>6
<1>6. CASE AliasRefused(e)
  <2> DEFINE x == [r EXCEPT !.pc = "returned", !.base = "deployment",
                            !.refused = TRUE, !.left = 0, !.delay = 0]
  <2>1. Step(e, x) /\ r.pc = "aliasing" /\ ready' = ready /\ alias' = alias
    BY <1>6 DEF AliasRefused
  <2>2. x \in Execution /\ x.late = r.late /\ x.pc = "returned" /\ x.refused
        /\ x.raw = r.raw /\ x.base = "deployment"
    BY <1>1, Edits DEF Execution
  <2>3. Sound(e, x, alias'[e])
    BY <1>1, <1>3, <2>1, <2>2 DEF Sound
  <2>4. Carries
    BY <1>4, <2>1, <2>2
  <2>5. PublisherInv'
    BY <1>1, <2>1, <2>3, OneExecutionChanges
  <2>6. QED
    BY <2>4, <2>5
<1>7. CASE AliasFails(e)
  <2>1. r.pc = "aliasing" /\ ready' = ready
    BY <1>7 DEF AliasFails
  <2>2. /\ alias' = alias \/ alias' = [alias EXCEPT ![e] = e]
        /\ alias'[e] \in {None, e}
    BY <1>1, <1>7 DEF AliasFails, Host, Sound
  <2>3. r.base = "none"
    BY <1>1, <2>1 DEF Sound
  <2>4. CASE r.left <= 0
    <3> DEFINE x == [r EXCEPT !.pc = "returned", !.base = "deployment",
                              !.delay = 0, !.left = r.left]
    <3>1. Step(e, x)
      BY <1>7, <2>4 DEF AliasFails, Returns
    <3>2. x \in Execution /\ x.late = r.late /\ x.pc = "returned"
          /\ x.raw = r.raw /\ x.base = "deployment" /\ x.left = r.left
      <4>1. x \in Execution
        BY <1>1, <1>3, Edits
      <4>2. QED
        BY <1>1, <4>1 DEF Execution
    <3>3. Sound(e, x, alias'[e])
      BY <1>3, <2>2, <2>4, <3>2 DEF Sound
    <3>4. Carries
      BY <1>4, <2>1, <3>1, <3>2
    <3>5. PublisherInv'
      BY <1>1, <2>1, <2>2, <3>1, <3>3, OneExecutionChanges
    <3>6. QED
      BY <3>4, <3>5
  <2>5. CASE ~(r.left <= 0)
    <3> DEFINE x == [r EXCEPT !.pc = "sleeping", !.nap = RetryDelay(e),
                              !.delay = 2 * r.delay]
    <3>1. Step(e, x)
      BY <1>7, <2>5 DEF AliasFails
    <3>2. RetryDelay(e) \in Int /\ RetryDelay(e) <= r.left
      BY <1>3, SmallestOfThree, PublisherAssumption DEF RetryDelay
    <3> HIDE DEF x
    <3>3. x \in Execution /\ x.late = r.late /\ x.pc = "sleeping"
          /\ x.raw = r.raw /\ x.base = "none" /\ x.left = r.left
          /\ x.nap = RetryDelay(e)
      <4>1. 2 * r.delay \in Int
        BY <1>3
      <4>2. x \in Execution
        BY <1>1, <3>2, <4>1, Edits DEF x
      <4>3. QED
        BY <1>1, <2>3, <4>2 DEF Execution, x
    <3>4. Sound(e, x, alias'[e])
      BY <1>3, <2>2, <3>2, <3>3 DEF Sound
    <3>5. Carries
      BY <1>4, <2>1, <3>1, <3>3
    <3>6. PublisherInv'
      BY <1>1, <2>1, <2>2, <3>1, <3>4, OneExecutionChanges
    <3>7. QED
      BY <3>5, <3>6
  <2>6. QED
    BY <2>4, <2>5
<1>8. CASE AliasAgain(e)
  <2> DEFINE x == [r EXCEPT !.pc = "aliasing", !.late = FALSE]
  <2>1. r.pc = "sleeping" /\ r.nap = 0 /\ ready' = ready /\ alias' = alias
    BY <1>8 DEF AliasAgain
  <2>2. r.left >= 0 /\ r.base = "none"
    BY <1>1, <1>3, <2>1 DEF Sound
  <2>3. (r.left < 0) = FALSE
    BY <1>3, <2>2
  <2>4. Step(e, x)
    BY <1>8, <2>3 DEF AliasAgain
  <2>5. x \in Execution
    <3>1. "aliasing" \in States
      BY DEF States
    <3>2. QED
      BY <1>1, <3>1 DEF Execution
  <2>6. x.late = FALSE /\ x.pc = "aliasing" /\ x.raw = r.raw /\ x.base = "none"
    BY <1>1, <2>2, <2>5 DEF Execution
  <2>7. Sound(e, x, alias'[e])
    BY <1>1, <2>1, <2>5, <2>6 DEF Sound
  <2>8. Carries
    BY <1>4, <2>1, <2>4, <2>6
  <2>9. PublisherInv'
    BY <1>1, <2>1, <2>4, <2>7, OneExecutionChanges
  <2>10. QED
    BY <2>8, <2>9
<1>9. QED
  BY <1>5, <1>6, <1>7, <1>8

LEMMA DeploymentKeepsInv ==
  ASSUME PublisherInv, NEW e \in Execs,
         createDeployment(e) \/ DeploymentFails(e) \/ BecomesReady(e)
  PROVE  PublisherInv' /\ Carries
<1> DEFINE r == exec[e]
<1>1. /\ exec \in [Execs -> Execution] /\ r \in Execution
      /\ alias \in [Execs \cup {"proposal"} -> Execs \cup {None}]
      /\ ready \subseteq Execs
      /\ \A d \in Execs : Sound(d, exec[d], alias[d])
  BY InvIsSound DEF AllSound
<1>2. CASE createDeployment(e)
  <2> DEFINE x == [r EXCEPT !.pc = "aliasing", !.left = AliasBudget,
                            !.delay = RetryBase]
  <2>1. Step(e, x) /\ r.pc = "creating" /\ ready' = ready /\ alias' = alias
    BY <1>2 DEF createDeployment
  <2>2. x \in Execution
    <3>1. AliasBudget \in Int /\ RetryBase \in Int
      BY PublisherAssumption
    <3>2. QED
      BY <1>1, <3>1, Edits
  <2>3. x.late = r.late /\ x.pc = "aliasing" /\ x.raw = r.raw /\ x.base = r.base
    BY <1>1, <2>2 DEF Execution
  <2>4. Sound(e, x, alias'[e])
    BY <1>1, <2>1, <2>2, <2>3 DEF Sound
  <2>5. PublisherInv'
    BY <2>1, <2>4, <1>1, OneExecutionChanges
  <2>6. Carries
    BY <1>1, <2>1, <2>3 DEF Carries, Step
  <2>7. QED
    BY <2>5, <2>6
<1>3. CASE DeploymentFails(e)
  <2> DEFINE x == [r EXCEPT !.pc = "failed"]
  <2>1. Step(e, x) /\ r.pc = "creating" /\ ready' = ready /\ alias' = alias
    BY <1>3 DEF DeploymentFails
  <2>2. x \in Execution
    BY <1>1 DEF Execution, States
  <2>3. x.late = r.late /\ x.pc = "failed" /\ x.raw = r.raw /\ x.base = r.base
    BY <1>1, <2>2 DEF Execution
  <2>4. Sound(e, x, alias'[e])
    BY <1>1, <2>1, <2>2, <2>3 DEF Sound
  <2>5. PublisherInv'
    BY <2>1, <2>4, <1>1, OneExecutionChanges
  <2>6. Carries
    BY <1>1, <2>1, <2>3 DEF Carries, Step
  <2>7. QED
    BY <2>5, <2>6
<1>4. CASE BecomesReady(e)
  <2>1. exec' = exec /\ alias' = alias /\ ready' \subseteq Execs
    BY <1>1, <1>4 DEF BecomesReady
  <2>2. AllSound'
    BY <1>1, <2>1 DEF AllSound
  <2>3. PublisherInv'
    BY <2>2, InvIsSound, PTL
  <2>4. QED
    BY <2>1, <2>3 DEF Carries
<1>5. QED
  BY <1>2, <1>3, <1>4

LEMMA TickKeepsInv ==
  ASSUME PublisherInv, Tick
  PROVE  PublisherInv' /\ Carries
<1>1. /\ exec \in [Execs -> Execution]
      /\ alias \in [Execs \cup {"proposal"} -> Execs \cup {None}]
      /\ ready \subseteq Execs
      /\ \A d \in Execs : Sound(d, exec[d], alias[d])
  BY InvIsSound DEF AllSound
<1>2. ready' = ready /\ alias' = alias
  BY DEF Tick
<1>3. ASSUME NEW d \in Execs
      PROVE  /\ exec'[d] \in Execution /\ exec'[d].pc = exec[d].pc
             /\ exec'[d].raw = exec[d].raw /\ Sound(d, exec'[d], alias[d])
  <2> DEFINE r == exec[d]
  <2>1. CASE r.pc \notin {"aliasing", "sleeping"}
    <3>1. exec'[d] = r
      BY <2>1 DEF Tick
    <3>2. QED
      BY <1>1, <3>1
  <2>2. CASE r.pc \in {"aliasing", "sleeping"}
    <3>1. PICK i, j : i = Max({r.left - 1, -1}) /\ j = Max({r.nap - 1, 0})
      OBVIOUS
    <3>2. r \in Execution /\ r.left \in Int /\ r.nap \in Int
      BY <1>1 DEF Execution
    <3>3. i \in {r.left - 1, -1} /\ i >= r.left - 1 /\ i >= -1 /\ i \in Int
      <4>1. r.left - 1 \in Int /\ -1 \in Int
        BY <3>2
      <4>2. QED
        BY <3>1, <4>1, LargerOfTwo
    <3>4. j \in {r.nap - 1, 0} /\ j >= 0 /\ j \in Int
      <4>1. r.nap - 1 \in Int /\ 0 \in Int
        BY <3>2
      <4>2. QED
        BY <3>1, <4>1, LargerOfTwo
    <3> DEFINE x == [r EXCEPT !.left = i, !.nap = j]
    <3>5. exec'[d] = x
      BY <2>2, <3>1 DEF Tick
    <3>6. x \in Execution
      BY <3>2, <3>3, <3>4 DEF Execution
    <3>7. /\ x.pc = r.pc /\ x.raw = r.raw /\ x.left = i /\ x.nap = j
          /\ x.late = r.late /\ x.base = r.base /\ x.refused = r.refused
      BY <3>2 DEF Execution
    <3>8. r.base = "none"
      BY <1>1, <2>2 DEF Sound
    <3>9. ASSUME r.pc = "sleeping"
          PROVE  j <= i
      <4>1. r.nap > 0 /\ r.nap <= r.left
        BY <1>1, <3>9 DEF Tick, Sound
      <4>2. QED
        BY <3>2, <3>3, <3>4, <4>1
    <3>10. Sound(d, x, alias[d])
      BY <1>1, <3>6, <3>7, <3>8, <3>9 DEF Sound
    <3>11. QED
      BY <3>5, <3>6, <3>7, <3>10
  <2>3. QED
    BY <2>1, <2>2
<1>4. exec' \in [Execs -> Execution]
  <2>1. exec' = [e \in Execs |-> exec'[e]]
    BY DEF Tick
  <2>2. QED
    BY <1>3, <2>1
<1>5. AllSound'
  BY <1>1, <1>2, <1>3, <1>4 DEF AllSound
<1>6. PublisherInv'
  BY <1>5, InvIsSound, PTL
<1>7. QED
  BY <1>3, <1>6 DEF Carries

\* Whatever the publishers and Vercel do.
LEMMA PublisherKeepsInv ==
  ASSUME PublisherInv, PublisherNext
  PROVE  PublisherInv' /\ Carries
BY AttemptKeepsInv, DeploymentKeepsInv, TickKeepsInv DEF PublisherNext
-----------------------------------------------------------------------------
(* The runs and the slots.                                                 *)

Stages == {"idle", "posting", "deploying", "ended"}
Ways == {"cli", "share", None}
RunRecord ==
  [pc: Stages, via: Ways,
   raw: Sent \cup {None}, dir: BOOLEAN, exec: Execs \cup {None},
   link: Links \cup {None}]

\* What is asked of one run.
Served(x) ==
  /\ x \in RunRecord
  /\ x.pc = "idle" => x.raw = None /\ x.exec = None
  /\ x.exec # None => x.raw # None /\ exec[x.exec].raw = x.raw
  /\ x.link # None => x.exec # None /\ x.link.exec = x.exec

LEMMA InvIsServed ==
  ShareInv <=>
    /\ PublisherInv /\ SlotIsHeld /\ HolderFits
    /\ file \in Artifacts \cup {"loose", "invalid", None}
    /\ run \in [Runs -> RunRecord] /\ \A r \in Runs : Served(run[r])
    /\ slot \in [Raws \cup Runs -> Execs \cup {None}] /\ lookup \subseteq Execs
BY DEF ShareInv, ClientTypes, RunIsServed, Served, RunRecord, Stages, Ways

LEMMA ShareStarts == Init => ShareInv
<1> SUFFICES ASSUME Init
             PROVE  ShareInv
  OBVIOUS
<1>1. PublisherInv
  BY PublisherStarts DEF Init
<1>2. NewRun \in RunRecord /\ NewRun.raw = None /\ NewRun.exec = None /\ NewRun.link = None
  BY DEF NewRun, RunRecord, Stages, Ways
<1>3. SlotIsHeld /\ HolderFits
  BY DEF Init, PublisherInit, NewExec, SlotIsHeld, HolderFits
<1>4. \A r \in Runs : Served(run[r])
  BY <1>2 DEF Init, Served
<1>5. QED
  BY <1>1, <1>2, <1>3, <1>4, InvIsServed DEF Init

\* The runs and the slots do not mind what publishers do.
LEMMA CarryingKeepsInv ==
  ASSUME ShareInv, PublisherInv', Carries, UNCHANGED <<clients, slot>>,
         lookup' \subseteq Execs
  PROVE  ShareInv'
<1>1. ClientTypes'
  BY DEF ShareInv, ClientTypes, clients
<1>2. SlotIsHeld'
  BY DEF ShareInv, SlotIsHeld, Carries
<1>3. HolderFits'
  <2>1. \A k \in DOMAIN slot : slot[k] # None => slot[k] \in Execs
    BY DEF ShareInv, ClientTypes
  <2>2. QED
    BY <2>1 DEF ShareInv, HolderFits, Carries
<1>4. RunIsServed'
  <2>1. \A r \in Runs : run[r].exec # None => run[r].exec \in Execs
    BY InvIsServed DEF RunRecord
  <2>2. QED
    BY <2>1 DEF ShareInv, RunIsServed, Carries, clients
<1>5. QED
  BY <1>1, <1>2, <1>3, <1>4 DEF ShareInv

LEMMA RecordKeepsInv ==
  ASSUME ShareInv, NEW e \in Execs, Record(e)
  PROVE  ShareInv'
<1> DEFINE r == exec[e]
           x == [r EXCEPT !.pc = "recorded"]
<1>1. /\ exec \in [Execs -> Execution] /\ r \in Execution /\ ready \subseteq Execs
      /\ Sound(e, r, alias[e]) /\ PublisherInv /\ lookup \subseteq Execs
  BY InvIsSound DEF AllSound, ShareInv, ClientTypes
<1>2. Step(e, x) /\ r.pc = "returned" /\ ready' = ready /\ alias' = alias
  BY DEF Record
<1>3. x \in Execution
  <2>1. "recorded" \in States
    BY DEF States
  <2>2. QED
    BY <1>1, <2>1 DEF Execution
<1>4. /\ x.pc = "recorded" /\ x.late = r.late /\ x.base = r.base /\ x.raw = r.raw
      /\ x.refused = r.refused /\ x.left = r.left
  BY <1>1, <1>3 DEF Execution
<1>5. Sound(e, x, alias'[e])
  BY <1>1, <1>2, <1>3, <1>4 DEF Sound
<1>6. PublisherInv'
  BY <1>1, <1>2, <1>5, OneExecutionChanges
<1>7. Carries
  BY <1>1, <1>2, <1>4 DEF Carries, Step
<1>8. lookup' \subseteq Execs
  BY <1>1 DEF Record
<1>9. QED
  BY <1>6, <1>7, <1>8, CarryingKeepsInv DEF Record

\* A run that goes on is served if what it becomes is.
LEMMA OneRunChanges ==
  ASSUME ShareInv, NEW r \in Runs, NEW x, Go(r, x), Served(x),
         UNCHANGED <<publishing, file, slot, lookup>>
  PROVE  ShareInv'
<1>1. /\ PublisherInv /\ SlotIsHeld /\ HolderFits /\ ClientTypes
      /\ run \in [Runs -> RunRecord] /\ \A q \in Runs : Served(run[q])
  BY InvIsServed DEF ShareInv
<1>2. run' \in [Runs -> RunRecord]
  BY <1>1 DEF Go, Served
<1>3. RunIsServed'
  <2>1. \A q \in Runs : run'[q] = IF q = r THEN x ELSE run[q]
    BY <1>1 DEF Go
  <2>2. QED
    BY <1>1, <2>1 DEF RunIsServed, Served, publishing
<1>4. PublisherInv' /\ SlotIsHeld' /\ HolderFits'
  BY <1>1 DEF PublisherInv, PublisherTypes, AliasBudgetIsUsed, SleepFits,
              HandedOut, HostIsOwn, Host, SlotIsHeld, HolderFits, publishing
<1>5. ClientTypes'
  BY <1>1, <1>2 DEF ClientTypes, RunRecord, Stages, Ways
<1>6. QED
  BY <1>3, <1>4, <1>5 DEF ShareInv

LEMMA SendingIsARecord ==
  ASSUME NEW x \in RunRecord, NEW way \in {"cli", "share"}, NEW a \in Sent
  PROVE  [x EXCEPT !.pc = "posting", !.via = way, !.raw = a] \in RunRecord
<1>1. "posting" \in Stages /\ way \in Ways
  BY DEF Stages, Ways
<1>2. QED
  BY <1>1 DEF RunRecord

\* A run that has not sent anything, and will not.
LEMMA RunEndsKeepsInv ==
  ASSUME ShareInv, NEW r \in Runs,
         ArtifactRejected(r) \/ ValidateOnly(r) \/ DeployDirectly(r)
           \/ DeployEnds(r) \/ NotAccepted(r) \/ GivesUp(r)
  PROVE  ShareInv'
<1> DEFINE x == run[r]
<1>1. x \in RunRecord /\ Served(x)
  BY InvIsServed
<1>2. CASE ArtifactRejected(r) \/ ValidateOnly(r) \/ GivesUp(r)
  <2> DEFINE y == [x EXCEPT !.pc = "ended"]
  <2>1. Go(r, y) /\ UNCHANGED <<publishing, file, slot, lookup>>
    BY <1>2 DEF ArtifactRejected, ValidateOnly, GivesUp, End
  <2>2. y \in RunRecord
    BY <1>1 DEF RunRecord, Stages
  <2>3. y.pc = "ended" /\ y.raw = x.raw /\ y.exec = x.exec /\ y.link = x.link
    BY <1>1 DEF RunRecord
  <2>4. Served(y)
    BY <1>1, <2>2, <2>3 DEF Served
  <2>5. QED
    BY <2>1, <2>4, OneRunChanges
<1>3. CASE NotAccepted(r)
  <2> DEFINE y == [x EXCEPT !.pc = "ended", !.raw = None]
  <2>1. Go(r, y) /\ UNCHANGED <<publishing, file, slot, lookup>> /\ x.exec = None
    BY <1>3 DEF NotAccepted
  <2>2. y \in RunRecord
    BY <1>1 DEF RunRecord, Stages
  <2>3. y.pc = "ended" /\ y.exec = None /\ y.link = x.link
    BY <1>1, <2>1 DEF RunRecord
  <2>4. Served(y)
    BY <1>1, <2>1, <2>2, <2>3 DEF Served
  <2>5. QED
    BY <2>1, <2>4, OneRunChanges
<1>4. CASE DeployDirectly(r)
  <2> DEFINE y == [x EXCEPT !.pc = "deploying", !.dir = TRUE]
  <2>1. Go(r, y) /\ UNCHANGED <<publishing, file, slot, lookup>>
    BY <1>4 DEF DeployDirectly
  <2>2. y \in RunRecord
    BY <1>1 DEF RunRecord, Stages
  <2>3. y.pc = "deploying" /\ y.raw = x.raw /\ y.exec = x.exec /\ y.link = x.link
    BY <1>1 DEF RunRecord
  <2>4. Served(y)
    BY <1>1, <2>2, <2>3 DEF Served
  <2>5. QED
    BY <2>1, <2>4, OneRunChanges
<1>5. CASE DeployEnds(r)
  <2>1. PICK kept \in BOOLEAN : Go(r, [x EXCEPT !.pc = "ended", !.dir = kept])
    BY <1>5 DEF DeployEnds
  <2> DEFINE y == [x EXCEPT !.pc = "ended", !.dir = kept]
  <2>2. y \in RunRecord
    BY <1>1 DEF RunRecord, Stages
  <2>3. y.pc = "ended" /\ y.raw = x.raw /\ y.exec = x.exec /\ y.link = x.link
    BY <1>1 DEF RunRecord
  <2>4. Served(y) /\ UNCHANGED <<publishing, file, slot, lookup>>
    BY <1>1, <1>5, <2>2, <2>3 DEF Served, DeployEnds
  <2>5. QED
    BY <2>1, <2>4, OneRunChanges
<1>6. QED
  BY <1>2, <1>3, <1>4, <1>5

LEMMA SendingKeepsInv ==
  ASSUME ShareInv, NEW r \in Runs, Upload(r) \/ Share(r)
  PROVE  ShareInv'
<1> DEFINE x == run[r]
<1>1. x \in RunRecord /\ Served(x) /\ x.pc = "idle"
  BY InvIsServed DEF Upload, Share
<1>2. PICK way \in {"cli", "share"} : Sends(r, way)
  BY DEF Upload, Share
<1> DEFINE y == [x EXCEPT !.pc = "posting", !.via = way, !.raw = Raw(file, way)]
<1>3. file \in Artifacts \cup {"loose"} /\ UNCHANGED <<publishing, file, slot, lookup>>
  BY DEF Upload, Share, Publishable, Parses
<1>4. Raw(file, way) \in Sent
  BY <1>3 DEF Raw, Sent
<1>5. Go(r, y)
  BY <1>2 DEF Sends
<1> HIDE DEF y
<1>6. y \in RunRecord /\ y.pc = "posting" /\ y.exec = None /\ y.link = None
  <2>1. x.exec = None /\ x.link = None
    BY <1>1 DEF Served
  <2>2. y \in RunRecord
    BY <1>1, <1>4, SendingIsARecord DEF y
  <2>3. QED
    BY <1>1, <2>1, <2>2 DEF RunRecord, y
<1>7. Served(y)
  BY <1>6 DEF Served
<1>8. QED
  BY <1>3, <1>5, <1>7, OneRunChanges

\* The answer: a link, or none, to the execution that the run has waited for.
LEMMA AnsweredKeepsInv ==
  ASSUME ShareInv, NEW r \in Runs, Answered(r)
  PROVE  ShareInv'
<1> DEFINE x == run[r]
           e == x.exec
<1>1. x \in RunRecord /\ Served(x) /\ e \in Execs /\ e # None
  <2>1. x \in RunRecord /\ Served(x) /\ e # None
    BY InvIsServed DEF Answered
  <2>2. QED
    BY <2>1 DEF RunRecord
<1>2. PICK link : link = IF exec[e].pc = "failed" THEN None ELSE ShareUrl(e)
  OBVIOUS
<1>3. link \in Links \cup {None} /\ (link # None => link.exec = e)
  BY <1>1, <1>2 DEF ShareUrl, Links
<1> DEFINE y == [x EXCEPT !.pc = "ended", !.link = link]
<1>4. Go(r, y) /\ UNCHANGED <<publishing, file, slot, lookup>>
  BY <1>2 DEF Answered
<1>5. y \in RunRecord
  BY <1>1, <1>3 DEF RunRecord, Stages
<1>6. y.pc = "ended" /\ y.raw = x.raw /\ y.exec = e /\ y.link = link
  BY <1>1 DEF RunRecord
<1>7. Served(y)
  BY <1>1, <1>3, <1>5, <1>6 DEF Served
<1>8. QED
  BY <1>4, <1>7, OneRunChanges

\* A request is accepted: by the execution that holds its slot, or by a new one.
LEMMA AcceptKeepsInv ==
  ASSUME ShareInv, NEW r \in Runs, Accept(r)
  PROVE  ShareInv'
<1> DEFINE x == run[r]
           k == x.raw
<1>1. x \in RunRecord /\ Served(x) /\ k # None /\ x.exec = None /\ x.pc # "idle"
  BY InvIsServed DEF Accept, Served
<1>2. k \in Raws
  <2>1. k \in Sent /\ k.artifact \in Artifacts
    BY <1>1 DEF RunRecord, Accept, Publishable
  <2>2. k \in [artifact: Artifacts, via: {"cli", "share"}]
    BY <2>1 DEF Sent
  <2>3. QED
    BY <2>2, UploadAssumption
<1>3. Key(r) = k /\ slot \in [Raws \cup Runs -> Execs \cup {None}]
  BY DEF Key, ShareInv, ClientTypes
<1>4. ASSUME NEW e \in Execs
      PROVE  LET y == [x EXCEPT !.exec = e] IN
             /\ y \in RunRecord /\ y.pc = x.pc /\ y.raw = k /\ y.exec = e
             /\ y.link = None
  <2>1. x.link = None
    BY <1>1 DEF Served
  <2>2. QED
    BY <1>1, <2>1 DEF RunRecord
<1>5. CASE slot[k] # None
  <2>1. PICK e \in Execs : e = slot[k]
    BY <1>2, <1>3, <1>5
  <2> DEFINE y == [x EXCEPT !.exec = e]
  <2>2. exec[e].raw = k
    BY <1>2, <1>3, <1>5, <2>1 DEF ShareInv, HolderFits
  <2>3. Served(y)
    BY <1>1, <1>4, <2>2 DEF Served
  <2>4. Go(r, y) /\ UNCHANGED <<publishing, file, slot, lookup>>
    BY <1>3, <1>5, <2>1 DEF Accept, Go, publishing
  <2>5. QED
    BY <2>3, <2>4, OneRunChanges
<1>6. CASE slot[k] = None
  <2>1. PICK e \in Execs : /\ exec[e].pc = "idle"
                           /\ Step(e, [exec[e] EXCEPT !.pc = "creating", !.raw = k])
                           /\ slot' = [slot EXCEPT ![k] = e]
                           /\ run' = [run EXCEPT ![r].exec = e]
                           /\ UNCHANGED <<ready, alias, file, log, lookup>>
    BY <1>3, <1>6 DEF Accept
  <2> DEFINE c == [exec[e] EXCEPT !.pc = "creating", !.raw = k]
             y == [x EXCEPT !.exec = e]
  <2>2. /\ exec \in [Execs -> Execution] /\ exec[e] \in Execution
        /\ Sound(e, exec[e], alias[e]) /\ ready \subseteq Execs
    BY InvIsSound DEF AllSound, ShareInv
  <2>3. c \in Execution
    <3>1. "creating" \in States
      BY DEF States
    <3>2. QED
      BY <1>2, <2>2, <3>1 DEF Execution
  <2>4. /\ c.pc = "creating" /\ c.late = exec[e].late /\ c.base = exec[e].base
        /\ c.raw = k
    BY <2>2, <2>3 DEF Execution
  <2>5. Sound(e, c, alias'[e])
    BY <2>1, <2>2, <2>3, <2>4 DEF Sound
  <2>6. PublisherInv'
    BY <2>1, <2>2, <2>5, OneExecutionChanges DEF ShareInv
  <2>7. \A d \in Execs : exec'[d] = IF d = e THEN c ELSE exec[d]
    BY <2>1, <2>2 DEF Step
  <2>8. \A q \in Runs : run'[q] = IF q = r THEN y ELSE run[q]
    BY <2>1, InvIsServed
  <2>9. \A j \in Raws \cup Runs : slot'[j] = IF j = k THEN e ELSE slot[j]
    BY <1>3, <2>1
  <2>10. exec[e].raw = None
    BY <2>1 DEF ShareInv, SlotIsHeld
  <2>11. e # None /\ k # None
    BY <1>2, PublisherAssumption
  <2>12. SlotIsHeld'
    <3> SUFFICES ASSUME NEW d \in Execs
                 PROVE  /\ exec'[d].raw = None <=> exec'[d].pc = "idle"
                        /\ exec'[d].raw # None /\ exec'[d].pc # "failed" =>
                             slot'[exec'[d].raw] = d
      BY DEF SlotIsHeld
    <3>1. CASE d = e
      BY <1>2, <2>4, <2>7, <2>9, <2>11, <3>1
    <3>2. CASE d # e
      <4>1. exec'[d] = exec[d] /\ exec[d].raw \in Raws \cup {None}
        BY <2>2, <2>7, <3>2 DEF Execution
      <4>2. /\ exec[d].raw = None <=> exec[d].pc = "idle"
            /\ exec[d].raw # None /\ exec[d].pc # "failed" => slot[exec[d].raw] = d
        BY DEF ShareInv, SlotIsHeld
      <4>3. d # None
        BY PublisherAssumption
      <4>4. QED
        BY <1>6, <2>9, <4>1, <4>2, <4>3
    <3>3. QED
      BY <3>1, <3>2
  <2>13. HolderFits'
    <3>1. DOMAIN slot' = Raws \cup Runs
      BY <1>3, <2>1
    <3> SUFFICES ASSUME NEW j \in Raws \cup Runs, slot'[j] # None
                 PROVE  exec'[slot'[j]].raw = j
      BY <3>1 DEF HolderFits
    <3>2. CASE j = k
      BY <2>4, <2>7, <2>9, <3>2
    <3>3. CASE j # k
      <4>1. slot'[j] = slot[j] /\ slot[j] \in Execs /\ exec[slot[j]].raw = j
        BY <1>3, <2>9, <3>3 DEF ShareInv, HolderFits
      <4>2. j # None
        BY <2>11, UploadAssumption, PublisherAssumption
      <4>3. QED
        BY <2>7, <2>10, <4>1, <4>2
    <3>4. QED
      BY <3>2, <3>3
  <2>14. RunIsServed'
    <3> SUFFICES ASSUME NEW q \in Runs
                 PROVE  /\ run'[q].pc = "idle" => run'[q].raw = None /\ run'[q].exec = None
                        /\ run'[q].exec # None =>
                             run'[q].raw # None /\ exec'[run'[q].exec].raw = run'[q].raw
                        /\ run'[q].link # None =>
                             run'[q].exec # None /\ run'[q].link.exec = run'[q].exec
      BY DEF RunIsServed
    <3>1. CASE q = r
      <4>1. run'[q] = y /\ y.pc = x.pc /\ y.raw = k /\ y.exec = e /\ y.link = None
        BY <1>4, <2>8, <3>1
      <4>2. exec'[e].raw = k
        BY <2>4, <2>7
      <4>3. QED
        BY <1>1, <4>1, <4>2
    <3>2. CASE q # r
      <4>1. run'[q] = run[q] /\ Served(run[q])
        BY <2>8, <3>2, InvIsServed
      <4>2. run[q].exec # None => run[q].exec \in Execs /\ run[q].exec # e
        BY <2>10, <4>1 DEF Served, RunRecord
      <4>3. QED
        BY <2>7, <4>1, <4>2 DEF Served
    <3>3. QED
      BY <3>1, <3>2
  <2>15. ClientTypes'
    <3>1. /\ run \in [Runs -> RunRecord] /\ y \in RunRecord
          /\ file \in Artifacts \cup {"loose", "invalid", None} /\ lookup \subseteq Execs
      BY <1>4, InvIsServed
    <3>2. run' \in [Runs -> RunRecord]
      BY <2>1, <3>1
    <3>3. slot' \in [Raws \cup Runs -> Execs \cup {None}]
      BY <1>2, <1>3, <2>1
    <3>4. QED
      BY <2>1, <3>1, <3>2, <3>3 DEF ClientTypes, RunRecord, Stages, Ways
  <2>16. QED
    BY <2>6, <2>12, <2>13, <2>14, <2>15 DEF ShareInv
<1>7. QED
  BY <1>5, <1>6

\* A key is freed by a failed execution, which nothing else holds it for.
LEMMA ReleaseKeepsInv ==
  ASSUME ShareInv, NEW k \in DOMAIN slot, Release(k)
  PROVE  ShareInv'
<1>1. /\ slot \in [Raws \cup Runs -> Execs \cup {None}] /\ k \in Raws \cup Runs
      /\ exec[slot[k]].pc = "failed"
  BY DEF ShareInv, ClientTypes, Release
<1>2. \A j \in Raws \cup Runs : slot'[j] = IF j = k THEN None ELSE slot[j]
  BY <1>1 DEF Release
<1>3. exec' = exec /\ run' = run /\ file' = file /\ lookup' = lookup
  BY DEF Release, publishing, clients
<1>4. PublisherInv'
  BY DEF ShareInv, PublisherInv, PublisherTypes, AliasBudgetIsUsed, SleepFits,
         HandedOut, HostIsOwn, Host, publishing, Release
<1>5. SlotIsHeld'
  <2> SUFFICES ASSUME NEW e \in Execs, exec[e].raw # None, exec[e].pc # "failed"
               PROVE  slot'[exec[e].raw] = e
    BY <1>3 DEF ShareInv, SlotIsHeld
  <2>1. slot[exec[e].raw] = e
    BY DEF ShareInv, SlotIsHeld
  <2>2. exec[e].raw \in Raws
    BY InvIsSound DEF ShareInv, AllSound, Execution
  <2>3. QED
    BY <1>1, <1>2, <2>1, <2>2
<1>6. HolderFits'
  <2>1. DOMAIN slot' = Raws \cup Runs
    BY <1>1 DEF Release
  <2>2. QED
    BY <1>1, <1>2, <1>3, <2>1 DEF ShareInv, HolderFits
<1>7. RunIsServed'
  BY <1>3 DEF ShareInv, RunIsServed
<1>8. ClientTypes'
  BY <1>1, <1>3 DEF ShareInv, ClientTypes, Release
<1>9. QED
  BY <1>4, <1>5, <1>6, <1>7, <1>8 DEF ShareInv

LEMMA UntouchedKeepsInv ==
  ASSUME ShareInv, UNCHANGED <<publishing, run, slot, lookup>>,
         file' \in Artifacts \cup {"loose", "invalid", None}
  PROVE  ShareInv'
<1>1. PublisherInv' /\ SlotIsHeld' /\ HolderFits' /\ RunIsServed'
  BY DEF ShareInv, PublisherInv, PublisherTypes, AliasBudgetIsUsed, SleepFits,
         HandedOut, HostIsOwn, Host, publishing, SlotIsHeld, HolderFits, RunIsServed
<1>2. ClientTypes'
  BY DEF ShareInv, ClientTypes
<1>3. QED
  BY <1>1, <1>2 DEF ShareInv

LEMMA StepKeepsInv == ShareInv /\ [Next]_vars => ShareInv'
<1> SUFFICES ASSUME ShareInv, [Next]_vars
             PROVE  ShareInv'
  OBVIOUS
<1>1. CASE UNCHANGED vars \/ Resimulate
  <2>1. UNCHANGED <<publishing, run, slot, lookup>>
    BY <1>1 DEF vars, Resimulate, clients
  <2>2. file' \in Artifacts \cup {"loose", "invalid", None}
    BY <1>1 DEF vars, Resimulate, clients, ShareInv, ClientTypes
  <2>3. QED
    BY <2>1, <2>2, UntouchedKeepsInv
<1>2. CASE PublisherNext /\ UNCHANGED <<clients, slot, lookup>>
  <2>1. PublisherInv' /\ Carries
    BY <1>2, PublisherKeepsInv DEF ShareInv
  <2>2. lookup' \subseteq Execs
    BY <1>2 DEF ShareInv, ClientTypes
  <2>3. QED
    BY <1>2, <2>1, <2>2, CarryingKeepsInv
<1>3. ASSUME NEW r \in Runs,
             \/ ArtifactRejected(r) \/ ValidateOnly(r) \/ Upload(r)
             \/ Share(r) \/ DeployDirectly(r) \/ DeployEnds(r)
             \/ Accept(r) \/ NotAccepted(r)
             \/ Answered(r) \/ GivesUp(r)
      PROVE  ShareInv'
  BY <1>3, RunEndsKeepsInv, SendingKeepsInv, AcceptKeepsInv, AnsweredKeepsInv
<1>4. ASSUME NEW e \in Execs, Record(e)
      PROVE  ShareInv'
  BY <1>4, RecordKeepsInv
<1>5. ASSUME NEW k \in DOMAIN slot, Release(k)
      PROVE  ShareInv'
  BY <1>5, ReleaseKeepsInv
<1>6. QED
  BY <1>1, <1>2, <1>3, <1>4, <1>5 DEF Next
-----------------------------------------------------------------------------
(* The theorems.                                                           *)

(***************************************************************************)
(* The inductive invariant of publishers, slots and runs.                  *)
(***************************************************************************)
THEOREM ShareInvariant == Spec => []ShareInv
BY ShareStarts, StepKeepsInv, PTL DEF Spec

(***************************************************************************)
(* createPublishAliasWithRetry, for any budget, delays and number of       *)
(* publishes: no attempt begins after the budget, and the pretty address   *)
(* is given up only when it is spent or Vercel has refused for good.       *)
(***************************************************************************)
THEOREM ShareAliasBudgetIsUsed == Spec => []AliasBudgetIsUsed
<1>1. ShareInv => AliasBudgetIsUsed
  BY DEF ShareInv, PublisherInv
<1>2. QED
  BY <1>1, ShareInvariant, PTL

(***************************************************************************)
(* What was sent is published once, however many runs are repeated while   *)
(* the relay goes on: only a failure leaves room for another execution.    *)
(***************************************************************************)
THEOREM ShareRerunsPublishOnce == Spec => []RerunsPublishOnce
<1>1. ShareInv => RerunsPublishOnce
  BY DEF ShareInv, SlotIsHeld, RerunsPublishOnce
<1>2. QED
  BY <1>1, ShareInvariant, PTL

\* What an execution's address serves is its own deployment.
LEMMA AddressIsOwn ==
  ASSUME ShareInv, NEW e \in Execs
  PROVE  Serving(e) = e
BY DEF ShareInv, PublisherInv, HandedOut, Serving

LEMMA InvImpliesShown == ShareInv => LinkShowsWhatWasSent
<1> SUFFICES ASSUME ShareInv, NEW r \in Runs, run[r].link # None,
                    NEW p \in Pages(run[r].link), p # Failed
             PROVE  p.shown = run[r].raw /\ p.trust # "blocked"
  BY DEF LinkShowsWhatWasSent
<1>1. PICK e \in Execs : e = run[r].exec /\ run[r].link.exec = e /\ exec[e].raw = run[r].raw
  <2>1. run[r] \in RunRecord /\ Served(run[r])
    BY InvIsServed
  <2>2. run[r].exec \in Execs
    BY <2>1 DEF Served, RunRecord
  <2>3. QED
    BY <2>1, <2>2 DEF Served
<1>2. PICK raw : raw = exec[e].raw
  OBVIOUS
<1>3. PICK m \in {MetadataOf(e), Nothing} :
        p = IF run[r].link.kind = "pretty"
              THEN ByPublishId([id |-> e, hash |-> raw], Fetched(e), m)
              ELSE ByArtifact(Fetched(e), m)
  BY <1>1, <1>2, AddressIsOwn DEF Pages
<1>4. Fetched(e) # Nothing
  BY <1>3 DEF ByPublishId, ByArtifact
<1>5. Fetched(e) = raw
  BY <1>2, <1>4 DEF Fetched
<1>6. m = Nothing \/ (m = Metadata(e, raw) /\ m.publish_id = e /\ m.artifact_hash = raw)
  BY <1>2, <1>3 DEF MetadataOf, Metadata
<1>7. CASE run[r].link.kind = "pretty"
  <2>1. Trust([id |-> e, hash |-> raw], m, raw) # "blocked"
    BY <1>6 DEF Trust
  <2>2. p = Page(raw, Trust([id |-> e, hash |-> raw], m, raw))
    BY <1>3, <1>4, <1>5, <1>7 DEF ByPublishId
  <2>3. QED
    BY <1>1, <1>2, <2>1, <2>2 DEF Page
<1>8. CASE run[r].link.kind # "pretty" /\ m = Nothing
  BY <1>1, <1>2, <1>3, <1>4, <1>5, <1>8 DEF ByArtifact, Page
<1>9. CASE run[r].link.kind # "pretty" /\ m # Nothing
  <2>1. Trust([id |-> e, hash |-> raw], m, raw) # "blocked"
    BY <1>6 DEF Trust
  <2>2. p = Page(raw, Trust([id |-> e, hash |-> raw], m, raw))
    BY <1>3, <1>4, <1>5, <1>6, <1>9 DEF ByArtifact
  <2>3. QED
    BY <1>1, <1>2, <2>1, <2>2 DEF Page
<1>10. QED
  BY <1>7, <1>8, <1>9

(***************************************************************************)
(* Every link that upload or share button hands out shows, when it shows   *)
(* anything, what its run has read from the results file, unblocked, by    *)
(* whichever address and after whichever rerun it came about.              *)
(***************************************************************************)
THEOREM ShareLinkShowsWhatWasSent == Spec => []LinkShowsWhatWasSent
BY ShareInvariant, InvImpliesShown, PTL
=============================================================================
