-------------------------- MODULE PublishRelayProofs --------------------------
(***************************************************************************)
(* Proofs about PublishRelay, for any number of instances, requests, keys  *)
(* and artifacts, any caps and any rate limit.                             *)
(***************************************************************************)
EXTENDS PublishRelay, FiniteSetTheorems, TLAPS

\* Pruning keeps a map of well-formed buckets, and charging a bucket that
\* admits keeps it within the allowance.
LEMMA BucketsStayTyped ==
  ASSUME NEW b \in [Clients -> Bucket], NEW t \in Nat
  PROVE  /\ Pruned(b, t) \in [Clients -> Bucket]
         /\ \A bucket \in Bucket :
              Admits(bucket, t) => Charged(bucket, t) \in Bucket
<1> USE RateLimitAssumption
<1>1. NoBucket \in Bucket
  BY DEF NoBucket, Bucket
<1>2. Pruned(b, t) \in [Clients -> Bucket]
  BY <1>1 DEF Pruned
<1>3. ASSUME NEW bucket \in Bucket, Admits(bucket, t)
      PROVE  Charged(bucket, t) \in Bucket
  <2>1. CASE ~RateLimitEnabled
    BY <2>1 DEF Charged
  <2>2. CASE RateLimitEnabled /\ OpensWindow(bucket, t)
    <3>1. Charged(bucket, t) = [count |-> 1, start |-> t]
      BY <2>2 DEF Charged
    <3>2. QED
      BY <3>1 DEF Bucket
  <2>3. CASE RateLimitEnabled /\ ~OpensWindow(bucket, t)
    <3>1. Charged(bucket, t) = [bucket EXCEPT !.count = @ + 1]
      BY <2>3 DEF Charged
    <3>2. bucket.count < MaxRequests
      BY <1>3, <2>3 DEF Admits
    <3>3. QED
      BY <3>1, <3>2 DEF Bucket
  <2>4. QED
    BY <2>1, <2>2, <2>3
<1>4. QED
  BY <1>2, <1>3

\* A capped map's entries are entries of the map before, no more than cap.
LEMMA CappedKeepsEntries ==
  ASSUME NEW S, NEW s \in Seq(S), NEW cap \in Nat \ {0}, Len(s) <= cap + 1
  PROVE  /\ Capped(s, cap) \in Seq(S)
         /\ Len(Capped(s, cap)) <= cap
         /\ \A n \in DOMAIN Capped(s, cap) :
              \E m \in DOMAIN s : Capped(s, cap)[n] = s[m]
<1>1. CASE Len(s) > cap
  <2>1. /\ Tail(s) \in Seq(S) /\ Len(Tail(s)) = Len(s) - 1
        /\ \A n \in 1..Len(Tail(s)) : Tail(s)[n] = s[n + 1]
    BY <1>1
  <2>2. \A n \in 1..Len(Tail(s)) : n + 1 \in DOMAIN s
    BY <2>1
  <2>3. QED
    BY <1>1, <2>1, <2>2 DEF Capped
<1>2. CASE ~(Len(s) > cap)
  BY <1>2 DEF Capped
<1>3. QED
  BY <1>1, <1>2

\* Setting a record adds no entry but that record, and at most one.
LEMMA RememberAddsOne ==
  ASSUME NEW s \in Seq(Record), NEW rec \in Record
  PROVE  /\ Remember(s, rec) \in Seq(Record)
         /\ Len(Remember(s, rec)) <= Len(s) + 1
         /\ \A n \in DOMAIN Remember(s, rec) :
              \/ Remember(s, rec)[n] = rec
              \/ \E m \in DOMAIN s : Remember(s, rec)[n] = s[m]
<1>1. CASE \E n \in DOMAIN s : s[n].key = rec.key
  <2> DEFINE t == [n \in DOMAIN s |-> IF s[n].key = rec.key THEN rec ELSE s[n]]
  <2>1. Remember(s, rec) = t
    BY <1>1 DEF Remember
  <2>2. DOMAIN s = 1..Len(s) /\ Len(s) \in Nat
    OBVIOUS
  <2>3. t \in [1..Len(s) -> Record]
    BY <2>2
  <2>4. t \in Seq(Record) /\ Len(t) = Len(s)
    BY <2>2, <2>3
  <2>5. QED
    BY <2>1, <2>4
<1>2. CASE ~\E n \in DOMAIN s : s[n].key = rec.key
  BY <1>2 DEF Remember
<1>3. QED
  BY <1>1, <1>2

\* The history of an instance grows by one event of the key at a time.
LEMMA LogIsTyped ==
  ASSUME TypeOK, NEW r \in Requests, req[r].inst \in Instances, req[r].key \in Keys,
         NEW step \in {"start", "record"}, Log(r, step)
  PROVE  /\ published' \in [Instances -> Seq(PublishEvent)]
         /\ published'[req[r].inst] =
              Append(published[req[r].inst], [step |-> step, key |-> req[r].key])
         /\ \A i \in Instances : i # req[r].inst => published'[i] = published[i]
<1>1. PICK e : e = [step |-> step, key |-> req[r].key]
  OBVIOUS
<1>2. e \in PublishEvent
  BY <1>1 DEF PublishEvent
<1>3. published' = [published EXCEPT ![req[r].inst] = Append(@, e)]
  BY <1>1 DEF Log
<1>4. published \in [Instances -> Seq(PublishEvent)]
  BY DEF TypeOK
<1> QED
  BY <1>1, <1>2, <1>3, <1>4

\* Every failure answered is a response body.
LEMMA FailureIsBody ==
  \A s \in {400, 409, 429, 502, 504} :
    Failure(s) \in Body /\ Failure(s).status # 201
BY DEF Failure, NoBody, Body

LEMMA InitIInv == Init => IInv
<1> SUFFICES ASSUME Init PROVE IInv
  OBVIOUS
<1> USE RelayAssumption, RateLimitAssumption DEF Init
<1>1. TypeOK
  BY DEF TypeOK, Phases, NoBucket, Bucket
<1>2. InFlightIsLive
  BY DEF InFlightIsLive, Live
<1>3. SentIsTyped /\ RecordingIsDeployed /\ JoinedAsksTheSame
  BY DEF SentIsTyped, RecordingIsDeployed, JoinedAsksTheSame
<1>4. OutcomeIsBacked /\ RecordIsBacked /\ ReplyIsBacked
  BY DEF OutcomeIsBacked, RecordIsBacked, ReplyIsBacked, NoBody
<1>5. QED
  BY <1>1, <1>2, <1>3, <1>4 DEF IInv

LEMMA RecordsAreTyped ==
  ASSUME TypeOK, NEW i \in Instances, NEW n \in DOMAIN completed[i]
  PROVE  completed[i][n] \in Record /\ completed[i][n].result \in Body
<1>1. completed[i] \in Seq(Record)
  BY DEF TypeOK
<1>2. completed[i][n] \in Record
  BY <1>1
<1>3. QED
  BY <1>2 DEF Record

\* A handler that has not started or joined an execution, or waits for one,
\* answers and leaves everything else alone.
LEMMA AnswerKeepsIInv ==
  ASSUME IInv, NEW r \in Requests, phase[r] \in {"reading", "waiting"},
         NEW b \in Body,
         b.status = 201 => Backed(b) /\ AsksFor(r, b.key, b.hash),
         Answer(r, b),
         UNCHANGED <<limiter, req, joined, outcome, completed, inFlight, stores,
                     epoch>>
  PROVE  IInv'
<1> USE DEF IInv, Answer, Goto, limiter, stores, epoch
<1>1. TypeOK'
  BY DEF TypeOK, Phases
<1>2. SentIsTyped'
  BY DEF SentIsTyped, TypeOK
<1>3. InFlightIsLive'
  BY DEF InFlightIsLive, Live, TypeOK
<1>4. \A d \in Body : Backed(d) => Backed(d)'
  BY DEF Backed, TypeOK
<1>5. \A q \in Requests : \A k, h : AsksFor(q, k, h) => AsksFor(q, k, h)'
  BY DEF AsksFor, TypeOK
<1>6. RecordingIsDeployed'
  BY DEF RecordingIsDeployed, TypeOK
<1>7. OutcomeIsBacked'
  BY <1>4, <1>5 DEF OutcomeIsBacked, TypeOK, NoBody
<1>8. JoinedAsksTheSame'
  BY <1>5 DEF JoinedAsksTheSame, TypeOK
<1>9. RecordIsBacked'
  BY <1>4, RecordsAreTyped DEF RecordIsBacked
<1>10. ReplyIsBacked'
  BY <1>4, <1>5 DEF ReplyIsBacked, TypeOK, NoBody
<1>11. QED
  BY <1>1, <1>2, <1>3, <1>6, <1>7, <1>8, <1>9, <1>10

LEMMA ReceiveKeepsIInv ==
  ASSUME IInv, NEW r \in Requests, NEW i \in Instances, NEW c \in Clients,
         NEW k \in Keys, NEW h \in Hashes, Receive(r, i, c, k, h)
  PROVE  IInv'
<1> DEFINE b == Pruned(buckets[i], now)
<1> USE DEF IInv, stores, epoch
<1>1. /\ phase[r] = "unsent"
      /\ req' = [req EXCEPT ![r] = [inst |-> i, client |-> c, key |-> k,
                                    hash |-> h]]
      /\ UNCHANGED <<now, joined, outcome, completed, inFlight, stores, epoch>>
  BY DEF Receive
<1>2. \/ /\ phase' = [phase EXCEPT ![r] = "reading"] /\ reply' = reply
         /\ buckets' = [buckets EXCEPT ![i] = [b EXCEPT ![c] = Charged(@, now)]]
         /\ Admits(b[c], now)
      \/ /\ phase' = [phase EXCEPT ![r] = "answered"]
         /\ reply' = [reply EXCEPT ![r] = Failure(429)]
         /\ buckets' = [buckets EXCEPT ![i] = b]
  BY DEF Receive, Goto, Answer
<1>3. now \in Nat /\ buckets[i] \in [Clients -> Bucket]
  BY RelayAssumption DEF TypeOK
<1>4. b \in [Clients -> Bucket]
  BY <1>3, BucketsStayTyped
<1>5. Admits(b[c], now) => Charged(b[c], now) \in Bucket
  BY <1>3, <1>4, BucketsStayTyped
<1> HIDE DEF b
<1>6. buckets' \in [Instances -> [Clients -> Bucket]]
  <2>1. Admits(b[c], now) =>
          [b EXCEPT ![c] = Charged(@, now)] \in [Clients -> Bucket]
    BY <1>4, <1>5
  <2>2. PICK nb \in [Clients -> Bucket] : buckets' = [buckets EXCEPT ![i] = nb]
    BY <1>2, <1>4, <2>1
  <2>3. QED
    BY <2>2 DEF TypeOK
<1>f. Failure(429) \in Body /\ Failure(429).status # 201
  BY FailureIsBody
<1>7. TypeOK'
  <2>1. req' \in [Requests -> Asked \cup {NotSent}]
    BY <1>1 DEF TypeOK, Asked
  <2>2. phase' \in [Requests -> Phases]
    BY <1>2 DEF TypeOK, Phases
  <2>3. reply' \in [Requests -> Body \cup {NoBody}]
    <3>1. reply \in [Requests -> Body \cup {NoBody}]
      BY DEF TypeOK
    <3>2. reply' = reply \/ reply' = [reply EXCEPT ![r] = Failure(429)]
      BY <1>2
    <3>3. QED
      BY <1>f, <3>1, <3>2
  <2>4. QED
    BY <1>1, <1>6, <2>1, <2>2, <2>3 DEF TypeOK
<1>8. SentIsTyped'
  BY <1>1, <1>2 DEF SentIsTyped, TypeOK, Asked
<1>9. InFlightIsLive'
  BY <1>1, <1>2 DEF InFlightIsLive, Live, TypeOK
<1>10. \A d \in Body : Backed(d) => Backed(d)'
  BY <1>1, <1>2 DEF Backed, TypeOK
<1>11. \A q \in Requests : \A kk, hh : AsksFor(q, kk, hh) => AsksFor(q, kk, hh)'
  BY <1>1, <1>2 DEF AsksFor, TypeOK
<1>12. RecordingIsDeployed'
  BY <1>1, <1>2 DEF RecordingIsDeployed, TypeOK
<1>13. OutcomeIsBacked'
  BY <1>1, <1>10, <1>11 DEF OutcomeIsBacked, TypeOK, NoBody
<1>14. JoinedAsksTheSame'
  BY <1>1, <1>2, <1>11 DEF JoinedAsksTheSame, TypeOK
<1>15. RecordIsBacked'
  BY <1>1, <1>10, RecordsAreTyped DEF RecordIsBacked
<1>16. ReplyIsBacked'
  <2> SUFFICES ASSUME NEW q \in Requests, (reply[q].status = 201)'
               PROVE  (Backed(reply[q]) /\ AsksFor(q, reply[q].key, reply[q].hash))'
    BY DEF ReplyIsBacked
  <2>1. reply'[q] = reply[q]
    BY <1>2, <1>f DEF TypeOK
  <2>2. reply[q] \in Body
    BY <2>1 DEF TypeOK, NoBody
  <2>3. Backed(reply[q]) /\ AsksFor(q, reply[q].key, reply[q].hash)
    BY <2>1 DEF ReplyIsBacked
  <2>4. QED
    BY <1>10, <1>11, <2>1, <2>2, <2>3
<1>17. QED
  BY <1>7, <1>8, <1>9, <1>12, <1>13, <1>14, <1>15, <1>16

LEMMA RejectBodyKeepsIInv ==
  ASSUME IInv, NEW r \in Requests, RejectBody(r)
  PROVE  IInv'
BY AnswerKeepsIInv, FailureIsBody DEF RejectBody

LEMMA AnswerFromRecordKeepsIInv ==
  ASSUME IInv, NEW r \in Requests, AnswerFromRecord(r)
  PROVE  IInv'
<1> DEFINE i == req[r].inst
           rec == RecordOf(i, req[r].key)
           b == IF rec.hash = req[r].hash THEN rec.result ELSE Failure(409)
<1>1. phase[r] = "reading" /\ Remembers(i, req[r].key) /\ Answer(r, b)
  BY DEF AnswerFromRecord
<1>2. UNCHANGED <<limiter, req, joined, outcome, completed, inFlight, stores,
                  epoch>>
  BY DEF AnswerFromRecord
<1>3. i \in Instances
  BY <1>1 DEF IInv, SentIsTyped, Asked
<1>4. PICK n \in DOMAIN completed[i] : rec = completed[i][n] /\ rec.key = req[r].key
  BY <1>1 DEF Remembers, RecordOf
<1>5. /\ rec.result \in Body /\ Backed(rec.result)
      /\ rec.key = rec.result.key /\ rec.hash = rec.result.hash
  BY <1>3, <1>4, RecordsAreTyped DEF IInv, RecordIsBacked
<1>6. b \in Body
  BY <1>5, FailureIsBody
<1>7. b.status = 201 => Backed(b) /\ AsksFor(r, b.key, b.hash)
  <2>1. CASE rec.hash = req[r].hash
    BY <1>1, <1>4, <1>5, <2>1 DEF AsksFor
  <2>2. CASE rec.hash # req[r].hash
    BY <2>2, FailureIsBody
  <2>3. QED
    BY <2>1, <2>2
<1> HIDE DEF b
<1>8. QED
  BY <1>1, <1>2, <1>6, <1>7, AnswerKeepsIInv

LEMMA ResumeJoinedKeepsIInv ==
  ASSUME IInv, NEW r \in Requests, ResumeJoined(r)
  PROVE  IInv'
<1> DEFINE o == joined[r]
<1>1. /\ phase[r] = "waiting" /\ Answer(r, outcome[o]) /\ outcome[o] # NoBody
      /\ UNCHANGED <<limiter, req, joined, outcome, completed, inFlight, stores,
                     epoch>>
  BY DEF ResumeJoined
<1>2. o \in Requests /\ AsksFor(o, req[r].key, req[r].hash)
  BY <1>1 DEF IInv, JoinedAsksTheSame
<1>3. outcome[o] \in Body
  BY <1>1, <1>2 DEF IInv, TypeOK
<1>4. outcome[o].status = 201 =>
        Backed(outcome[o]) /\ AsksFor(r, outcome[o].key, outcome[o].hash)
  BY <1>1, <1>2 DEF IInv, OutcomeIsBacked, AsksFor
<1>5. QED
  BY <1>1, <1>3, <1>4, AnswerKeepsIInv

LEMMA JoinInFlightKeepsIInv ==
  ASSUME IInv, NEW r \in Requests, JoinInFlight(r)
  PROVE  IInv'
<1> DEFINE i == req[r].inst
           k == req[r].key
           o == inFlight[i][k]
<1>1. /\ phase[r] = "reading" /\ o # None
      /\ UNCHANGED <<limiter, req, outcome, completed, inFlight, stores, epoch>>
  BY DEF JoinInFlight
<1>2. req[r] \in Asked
  BY <1>1 DEF IInv, SentIsTyped
<1>3. o \in Requests
  BY <1>1, <1>2 DEF IInv, TypeOK, Asked
<1>4. AsksFor(o, k, req[o].hash) /\ req[o] \in Asked
  BY <1>2, <1>3 DEF IInv, InFlightIsLive, Live, AsksFor, Asked, SentIsTyped
<1>5. CASE req[o].hash = req[r].hash
  <2> USE DEF IInv
  <2>1. /\ phase' = [phase EXCEPT ![r] = "waiting"]
        /\ joined' = [joined EXCEPT ![r] = o]
        /\ reply' = reply
    BY <1>5 DEF JoinInFlight, Goto
  <2>2. TypeOK'
    BY <1>1, <1>3, <2>1 DEF TypeOK, Phases, limiter, stores, epoch
  <2>3. SentIsTyped'
    BY <1>1, <2>1 DEF SentIsTyped, TypeOK
  <2>4. InFlightIsLive'
    BY <1>1, <2>1 DEF InFlightIsLive, Live, TypeOK
  <2>5. \A d \in Body : Backed(d) => Backed(d)'
    BY <1>1, <2>1 DEF Backed, TypeOK, stores
  <2>6. \A q \in Requests : \A kk, hh :
          AsksFor(q, kk, hh) => AsksFor(q, kk, hh)'
    BY <1>1, <2>1 DEF AsksFor, TypeOK
  <2>7. RecordingIsDeployed'
    BY <1>1, <2>1 DEF RecordingIsDeployed, TypeOK, stores
  <2>8. OutcomeIsBacked'
    BY <1>1, <2>5, <2>6 DEF OutcomeIsBacked, TypeOK, NoBody
  <2>9. JoinedAsksTheSame'
    BY <1>1, <1>3, <1>4, <1>5, <2>1, <2>6 DEF JoinedAsksTheSame, TypeOK
  <2>10. RecordIsBacked'
    BY <1>1, <2>5, RecordsAreTyped DEF RecordIsBacked
  <2>11. ReplyIsBacked'
    BY <2>1, <2>5, <2>6 DEF ReplyIsBacked, TypeOK, NoBody
  <2>12. QED
    BY <2>2, <2>3, <2>4, <2>7, <2>8, <2>9, <2>10, <2>11
<1>6. CASE req[o].hash # req[r].hash
  <2>1. Answer(r, Failure(409)) /\ UNCHANGED joined
    BY <1>6 DEF JoinInFlight
  <2>2. Failure(409) \in Body /\ Failure(409).status # 201
    BY FailureIsBody
  <2>3. QED
    BY <1>1, <2>1, <2>2, AnswerKeepsIInv
<1>7. QED
  BY <1>5, <1>6

LEMMA StartPublishKeepsIInv ==
  ASSUME IInv, NEW r \in Requests, StartPublish(r)
  PROVE  IInv'
<1> USE DEF IInv
<1> DEFINE i == req[r].inst
           k == req[r].key
<1>1. /\ phase[r] = "reading" /\ inFlight[i][k] = None
      /\ phase' = [phase EXCEPT ![r] = "publishing"]
      /\ joined' = [joined EXCEPT ![r] = r]
      /\ inFlight' = [inFlight EXCEPT ![i][k] = r]
      /\ UNCHANGED <<limiter, req, outcome, reply, completed, stores, restarts, past>>
  BY DEF StartPublish, Goto
<1>2. i \in Instances /\ k \in Keys
  BY <1>1 DEF SentIsTyped, Asked
<1>e. published' \in [Instances -> Seq(PublishEvent)]
  BY <1>2, LogIsTyped DEF StartPublish
<1>3. TypeOK'
  BY <1>1, <1>2, <1>e DEF TypeOK, Phases, limiter, stores
<1>4. SentIsTyped'
  BY <1>1 DEF SentIsTyped, TypeOK
<1>5. InFlightIsLive'
  <2> SUFFICES ASSUME NEW i2 \in Instances, NEW k2 \in Keys, NEW q \in Requests
               PROVE  (inFlight[i2][k2] = q <=>
                         Live(q) /\ req[q].inst = i2 /\ req[q].key = k2)'
    BY DEF InFlightIsLive
  <2>1. Live(q)' <=> Live(q) \/ q = r
    BY <1>1 DEF Live, TypeOK
  <2>2. inFlight'[i2][k2] = IF i2 = i /\ k2 = k THEN r ELSE inFlight[i2][k2]
    BY <1>1, <1>2 DEF TypeOK
  <2>3. None \notin Requests
    BY RelayAssumption
  <2>4. ~Live(r)
    BY <1>1 DEF Live
  <2>5. QED
    BY <1>1, <1>2, <2>1, <2>2, <2>3, <2>4 DEF InFlightIsLive
<1>6. \A d \in Body : Backed(d) => Backed(d)'
  BY <1>1 DEF Backed, TypeOK, stores
<1>7. \A q \in Requests : \A kk, hh : AsksFor(q, kk, hh) => AsksFor(q, kk, hh)'
  BY <1>1 DEF AsksFor, TypeOK
<1>8. RecordingIsDeployed'
  BY <1>1 DEF RecordingIsDeployed, TypeOK, stores
<1>9. OutcomeIsBacked'
  BY <1>1, <1>6, <1>7 DEF OutcomeIsBacked, TypeOK, NoBody
<1>10. JoinedAsksTheSame'
  BY <1>1, <1>7 DEF JoinedAsksTheSame, TypeOK
<1>11. RecordIsBacked'
  BY <1>1, <1>6, RecordsAreTyped DEF RecordIsBacked
<1>12. ReplyIsBacked'
  BY <1>1, <1>6, <1>7 DEF ReplyIsBacked, TypeOK, NoBody
<1>13. QED
  BY <1>3, <1>4, <1>5, <1>8, <1>9, <1>10, <1>11, <1>12

\* Steps that move a live handler on, to another live phase or to its settled
\* outcome, and add to the deployments or the stores.
LEMMA ExecutionKeepsIInv ==
  ASSUME IInv, NEW r \in Requests, Live(r),
         NEW p \in {"publishing", "recording", "settled"},
         phase' = [phase EXCEPT ![r] = p],
         deployed \subseteq deployed', deployed' \subseteq Requests,
         p = "recording" => r \in deployed',
         redis \subseteq redis', redis' \subseteq Requests,
         memory' \in [Instances -> Seq(Requests)],
         \A i \in Instances : Len(memory'[i]) <= LookupCap,
         NEW b \in Body \cup {NoBody},
         outcome' = [outcome EXCEPT ![r] = b],
         b.status = 201 => (Backed(b) /\ AsksFor(r, b.key, b.hash))',
         UNCHANGED <<limiter, req, joined, reply, completed, inFlight, epoch>>
  PROVE  IInv'
<1> USE DEF IInv
<1>1. phase[r] # "unsent" /\ phase[r] # "waiting"
  BY DEF Live
<1>2. TypeOK'
  <2>1. phase' \in [Requests -> Phases]
    BY DEF TypeOK, Phases
  <2>2. outcome' \in [Requests -> Body \cup {NoBody}]
    BY DEF TypeOK
  <2>3. QED
    BY <2>1, <2>2 DEF TypeOK, limiter, epoch
<1>3. SentIsTyped'
  BY <1>1 DEF SentIsTyped, TypeOK
<1>4. InFlightIsLive'
  <2>1. \A q \in Requests : Live(q)' <=> Live(q)
    BY DEF Live, TypeOK
  <2>2. QED
    BY <2>1 DEF InFlightIsLive
<1>5. \A d \in Body : Backed(d) => Backed(d)'
  BY <1>1 DEF Backed, TypeOK
<1>6. \A q \in Requests : \A k, h : AsksFor(q, k, h) => AsksFor(q, k, h)'
  BY <1>1 DEF AsksFor, TypeOK
<1>7. RecordingIsDeployed'
  BY DEF RecordingIsDeployed, TypeOK
<1>8. OutcomeIsBacked'
  <2> SUFFICES ASSUME NEW q \in Requests, (outcome[q].status = 201)'
               PROVE  (Backed(outcome[q])
                        /\ AsksFor(q, outcome[q].key, outcome[q].hash))'
    BY DEF OutcomeIsBacked
  <2>1. CASE q = r
    BY <2>1 DEF TypeOK
  <2>2. CASE q # r
    <3>1. outcome'[q] = outcome[q]
      BY <2>2 DEF TypeOK
    <3>2. outcome[q] \in Body
      BY <3>1 DEF TypeOK, NoBody
    <3>3. Backed(outcome[q]) /\ AsksFor(q, outcome[q].key, outcome[q].hash)
      BY <3>1 DEF OutcomeIsBacked
    <3>4. QED
      BY <1>5, <1>6, <3>1, <3>2, <3>3
  <2>3. QED
    BY <2>1, <2>2
<1>9. JoinedAsksTheSame'
  BY <1>1, <1>6 DEF JoinedAsksTheSame, TypeOK
<1>10. RecordIsBacked'
  BY <1>5, RecordsAreTyped DEF RecordIsBacked
<1>11. ReplyIsBacked'
  BY <1>5, <1>6 DEF ReplyIsBacked, TypeOK, NoBody
<1>12. QED
  BY <1>2, <1>3, <1>4, <1>7, <1>8, <1>9, <1>10, <1>11

LEMMA DeployKeepsIInv ==
  ASSUME IInv, NEW r \in Requests, Deploy(r)
  PROVE  IInv'
<1> USE DEF IInv
<1>1. /\ deployed' = deployed \cup {r}
      /\ UNCHANGED <<now, buckets, req, phase, joined, outcome, reply,
                     completed, inFlight, redis, memory, restarts, past,
                     published>>
  BY DEF Deploy, limiter, epoch
<1>2. TypeOK' /\ SentIsTyped'
  BY <1>1 DEF TypeOK, SentIsTyped
<1>3. InFlightIsLive' /\ RecordingIsDeployed'
  BY <1>1 DEF InFlightIsLive, Live, RecordingIsDeployed
<1>4. OutcomeIsBacked' /\ JoinedAsksTheSame'
  BY <1>1 DEF OutcomeIsBacked, JoinedAsksTheSame, Backed, AsksFor
<1>5. RecordIsBacked' /\ ReplyIsBacked'
  BY <1>1 DEF RecordIsBacked, ReplyIsBacked, Backed, AsksFor
<1>6. QED
  BY <1>2, <1>3, <1>4, <1>5

LEMMA PublisherReturnsKeepsIInv ==
  ASSUME IInv, NEW r \in Requests, PublisherReturns(r)
  PROVE  IInv'
<1> USE DEF IInv, TypeOK
<1>1. Live(r) /\ phase' = [phase EXCEPT ![r] = "recording"] /\ r \in deployed
  BY DEF PublisherReturns, Live, Goto
<1>2. outcome' = [outcome EXCEPT ![r] = outcome[r]]
  BY DEF PublisherReturns
<1>3. UNCHANGED <<limiter, req, joined, outcome, reply, completed, inFlight,
                  epoch, deployed, redis, memory>>
  BY DEF PublisherReturns, stores
<1>4. PICK b \in Body \cup {NoBody} : b = outcome[r]
  OBVIOUS
<1>5. b.status = 201 => (Backed(b) /\ AsksFor(r, b.key, b.hash))'
  <2>1. b.status = 201 =>
          b \in Body /\ Backed(b) /\ AsksFor(r, b.key, b.hash)
    BY <1>4 DEF OutcomeIsBacked, NoBody
  <2>2. \A q \in Requests : phase[q] # "unsent" => phase'[q] # "unsent"
    BY <1>1
  <2>3. b.status = 201 => b.deployment \in Requests
    BY <2>1 DEF Backed
  <2>4. QED
    BY <1>3, <2>1, <2>2, <2>3 DEF Backed, AsksFor
<1>6. QED
  BY <1>1, <1>2, <1>3, <1>4, <1>5, ExecutionKeepsIInv

LEMMA PublisherFailsKeepsIInv ==
  ASSUME IInv, NEW r \in Requests, PublisherFails(r)
  PROVE  IInv'
<1>1. PICK b \in Body \cup {NoBody} :
        b.status # 201 /\ outcome' = [outcome EXCEPT ![r] = b]
  <2>1. PICK b \in {Failure(502), Failure(504)} :
          outcome' = [outcome EXCEPT ![r] = b]
    BY DEF PublisherFails
  <2>2. b \in Body /\ b.status # 201
    <3>1. CASE b = Failure(502)
      BY ONLY <3>1, FailureIsBody, SMT
    <3>2. CASE b = Failure(504)
      BY ONLY <3>2, FailureIsBody, SMT
    <3>3. QED
      BY ONLY b \in {Failure(502), Failure(504)}, <3>1, <3>2, SMT
  <2>3. QED
    BY <2>1, <2>2
<1>2. PICK p \in {"publishing", "recording", "settled"} :
        p # "recording" /\ phase' = [phase EXCEPT ![r] = p]
  BY DEF PublisherFails, Goto
<1>3. Live(r)
  BY DEF PublisherFails, Live
<1>4. /\ deployed \subseteq deployed' /\ deployed' \subseteq Requests
      /\ redis \subseteq redis' /\ redis' \subseteq Requests
      /\ memory' \in [Instances -> Seq(Requests)]
      /\ \A i \in Instances : Len(memory'[i]) <= LookupCap
  BY DEF PublisherFails, stores, IInv, TypeOK
<1>5. UNCHANGED <<limiter, req, joined, reply, completed, inFlight, epoch>>
  BY DEF PublisherFails
<1>6. b.status = 201 => (Backed(b) /\ AsksFor(r, b.key, b.hash))'
  BY <1>1
<1>7. p = "recording" => r \in deployed'
  BY <1>2
<1>8. QED
  BY <1>1, <1>2, <1>3, <1>4, <1>5, <1>6, <1>7, ExecutionKeepsIInv

LEMMA WriteLookupKeepsIInv ==
  ASSUME IInv, NEW r \in Requests, WriteLookup(r)
  PROVE  IInv'
<1> USE DEF IInv, TypeOK
<1> DEFINE i == req[r].inst
           pushed == Capped(Append(memory[i], r), LookupCap)
<1>1. /\ Live(r) /\ phase[r] # "unsent"
      /\ phase' = [phase EXCEPT ![r] = "settled"]
      /\ r \in deployed
  BY DEF WriteLookup, Live, Goto, RecordingIsDeployed
<1>2. UNCHANGED <<limiter, req, joined, reply, completed, inFlight, deployed,
                  epoch>>
  BY DEF WriteLookup
<1>3. req[r] \in Asked
  BY <1>1 DEF SentIsTyped
<1>4. PICK w \in BOOLEAN :
        /\ outcome' = [outcome EXCEPT ![r] = Published(r, w)]
        /\ w /\ StoreMode = "upstash" => r \in redis'
  <2>1. PICK w \in BOOLEAN :
          /\ outcome' = [outcome EXCEPT ![r] = Published(r, w)]
          /\ StoreMode = "upstash" => RedisSet(r, w)
    BY DEF WriteLookup
  <2>2. RedisSet(r, w) /\ w => r \in redis'
    BY DEF RedisSet
  <2>3. QED
    BY <2>1, <2>2
<1>5. redis \subseteq redis' /\ redis' \subseteq Requests
  BY DEF WriteLookup, RedisSet
<1>6. /\ memory' \in [Instances -> Seq(Requests)]
      /\ \A j \in Instances : Len(memory'[j]) <= LookupCap
  <2>1. /\ i \in Instances /\ memory[i] \in Seq(Requests)
        /\ Len(memory[i]) <= LookupCap /\ LookupCap \in Nat
    BY <1>3, RelayAssumption DEF Asked
  <2>2. /\ Append(memory[i], r) \in Seq(Requests)
        /\ Len(Append(memory[i], r)) <= LookupCap + 1
    BY <2>1
  <2>3. LookupCap \in Nat \ {0}
    BY RelayAssumption
  <2>4. pushed \in Seq(Requests) /\ Len(pushed) <= LookupCap
    BY <2>2, <2>3, CappedKeepsEntries
  <2>5. memory' = memory \/ memory' = [memory EXCEPT ![i] = pushed]
    BY DEF WriteLookup, MemorySet
  <2> HIDE DEF pushed
  <2>6. QED
    BY <2>1, <2>4, <2>5
<1>7. /\ Published(r, w) \in Body
      /\ (Backed(Published(r, w))
           /\ AsksFor(r, Published(r, w).key, Published(r, w).hash))'
  <2>1. \A q : phase'[r] = "settled" /\ q = r => phase'[q] # "unsent"
    BY <1>1
  <2>2. Published(r, w) \in Body
    BY <1>3 DEF Published, Body, Asked
  <2>3. Backed(Published(r, w))'
    BY <1>1, <1>2, <1>4 DEF Published, Backed
  <2>4. AsksFor(r, Published(r, w).key, Published(r, w).hash)'
    BY <1>1, <1>2 DEF Published, AsksFor
  <2>5. QED
    BY <2>2, <2>3, <2>4
<1>8. Published(r, w)' = Published(r, w)
  BY <1>2 DEF Published
<1>9. PICK b \in Body \cup {NoBody} : b = Published(r, w)
  BY <1>7
<1>10. b.status = 201 => (Backed(b) /\ AsksFor(r, b.key, b.hash))'
  BY <1>7, <1>8, <1>9 DEF Backed, AsksFor
<1>11. QED
  BY <1>1, <1>2, <1>4, <1>5, <1>6, <1>9, <1>10, ExecutionKeepsIInv

LEMMA SettleKeepsIInv ==
  ASSUME IInv, NEW r \in Requests, Settle(r)
  PROVE  IInv'
<1> USE DEF IInv
<1> DEFINE i == req[r].inst
           k == req[r].key
           rec == [key |-> k, hash |-> req[r].hash, result |-> outcome[r]]
           kept == Capped(Remember(completed[i], rec), CompletedCap)
<1>1. /\ phase[r] = "settled"
      /\ phase' = [phase EXCEPT ![r] = "answered"]
      /\ reply' = [reply EXCEPT ![r] = outcome[r]]
      /\ inFlight' = [inFlight EXCEPT ![i][k] = None]
      /\ UNCHANGED <<limiter, req, joined, outcome, stores, restarts, past>>
  BY DEF Settle, Answer, Goto
<1>2. completed' = IF outcome[r].status = 201
                     THEN [completed EXCEPT ![i] = kept] ELSE completed
  BY DEF Settle
<1>3. req[r] \in Asked /\ i \in Instances /\ k \in Keys
  BY <1>1 DEF SentIsTyped, Asked
<1>4. outcome[r].status = 201 =>
        /\ outcome[r] \in Body /\ Backed(outcome[r])
        /\ outcome[r].key = k /\ outcome[r].hash = req[r].hash
  BY DEF OutcomeIsBacked, AsksFor, TypeOK, NoBody
<1>5. outcome[r].status = 201 => rec \in Record
  BY <1>3, <1>4 DEF Record, Asked
<1>6. completed[i] \in Seq(Record) /\ Len(completed[i]) <= CompletedCap
  BY <1>3 DEF TypeOK
<1>7. outcome[r].status = 201 =>
        /\ kept \in Seq(Record) /\ Len(kept) <= CompletedCap
        /\ \A n \in DOMAIN kept :
             kept[n] = rec \/ \E m \in DOMAIN completed[i] : kept[n] = completed[i][m]
  <2> SUFFICES ASSUME outcome[r].status = 201
               PROVE  /\ kept \in Seq(Record) /\ Len(kept) <= CompletedCap
                      /\ \A n \in DOMAIN kept :
                           \/ kept[n] = rec
                           \/ \E m \in DOMAIN completed[i] : kept[n] = completed[i][m]
    OBVIOUS
  <2> DEFINE t == Remember(completed[i], rec)
  <2>1. /\ t \in Seq(Record) /\ Len(t) <= Len(completed[i]) + 1
        /\ \A n \in DOMAIN t :
             t[n] = rec \/ \E m \in DOMAIN completed[i] : t[n] = completed[i][m]
    <3>1. rec \in Record /\ completed[i] \in Seq(Record)
      BY <1>5, <1>6
    <3> HIDE DEF rec
    <3>2. QED
      BY <3>1, RememberAddsOne, SMTT(30)
  <2>2. CompletedCap \in Nat \ {0} /\ Len(t) <= CompletedCap + 1
    BY <1>6, <2>1, RelayAssumption
  <2> HIDE DEF t
  <2>3. /\ Capped(t, CompletedCap) \in Seq(Record)
        /\ Len(Capped(t, CompletedCap)) <= CompletedCap
        /\ \A n \in DOMAIN Capped(t, CompletedCap) :
             \E m \in DOMAIN t : Capped(t, CompletedCap)[n] = t[m]
    BY <2>1, <2>2, CappedKeepsEntries
  <2>4. kept = Capped(t, CompletedCap)
    BY DEF t
  <2> HIDE DEF kept
  <2>5. QED
    BY <2>1, <2>3, <2>4
<1> HIDE DEF kept
<1>8. TypeOK'
  <2>1. /\ completed' \in [Instances -> Seq(Record)]
        /\ \A j \in Instances : Len(completed'[j]) <= CompletedCap
    BY <1>2, <1>3, <1>7 DEF TypeOK
  <2>2. inFlight' \in [Instances -> [Keys -> Requests \cup {None}]]
    BY <1>1, <1>3 DEF TypeOK
  <2>3. phase' \in [Requests -> Phases] /\ reply' \in [Requests -> Body \cup {NoBody}]
    BY <1>1 DEF TypeOK, Phases
  <2>4. published' \in [Instances -> Seq(PublishEvent)]
    BY <1>3, LogIsTyped DEF Settle, TypeOK
  <2>5. QED
    BY <1>1, <2>1, <2>2, <2>3, <2>4 DEF TypeOK, limiter, stores
<1>9. SentIsTyped'
  BY <1>1 DEF SentIsTyped, TypeOK
<1>10. InFlightIsLive'
  <2> SUFFICES ASSUME NEW i2 \in Instances, NEW k2 \in Keys, NEW q \in Requests
               PROVE  (inFlight[i2][k2] = q <=>
                         Live(q) /\ req[q].inst = i2 /\ req[q].key = k2)'
    BY DEF InFlightIsLive
  <2>1. Live(q)' <=> Live(q) /\ q # r
    BY <1>1 DEF Live, TypeOK
  <2>2. inFlight'[i2][k2] = IF i2 = i /\ k2 = k THEN None ELSE inFlight[i2][k2]
    BY <1>1, <1>3 DEF TypeOK
  <2>3. None \notin Requests
    BY RelayAssumption
  <2>4. inFlight[i][k] = r
    BY <1>1, <1>3 DEF Live, InFlightIsLive
  <2>5. QED
    BY <1>1, <1>3, <2>1, <2>2, <2>3, <2>4 DEF InFlightIsLive
<1>11. \A d \in Body : Backed(d) => Backed(d)'
  BY <1>1 DEF Backed, TypeOK, stores
<1>12. \A q \in Requests : \A kk, hh : AsksFor(q, kk, hh) => AsksFor(q, kk, hh)'
  BY <1>1 DEF AsksFor, TypeOK
<1>13. RecordingIsDeployed'
  BY <1>1 DEF RecordingIsDeployed, TypeOK, stores
<1>14. OutcomeIsBacked'
  BY <1>1, <1>11, <1>12 DEF OutcomeIsBacked, TypeOK, NoBody
<1>15. JoinedAsksTheSame'
  BY <1>1, <1>12 DEF JoinedAsksTheSame, TypeOK
<1>16. RecordIsBacked'
  <2> DEFINE Good(x) == /\ x.result \in Body /\ x.result.status = 201
                        /\ Backed(x.result)
                        /\ x.key = x.result.key /\ x.hash = x.result.hash
  <2>1. \A j \in Instances : \A n \in DOMAIN completed[j] : Good(completed[j][n])
    BY RecordsAreTyped DEF RecordIsBacked
  <2>2. outcome[r].status = 201 => Good(rec)
    BY <1>4
  <2> SUFFICES ASSUME NEW j \in Instances, NEW n \in DOMAIN completed'[j]
               PROVE  Good(completed'[j][n])
    BY <1>11 DEF RecordIsBacked
  <2>3. CASE outcome[r].status = 201 /\ j = i
    <3>1. completed'[j] = kept
      BY <1>2, <1>3, <2>3 DEF TypeOK
    <3> HIDE DEF Good, rec
    <3>2. QED
      BY <1>3, <1>7, <2>1, <2>2, <2>3, <3>1
  <2>4. CASE ~(outcome[r].status = 201 /\ j = i)
    <3>1. completed'[j] = completed[j]
      BY <1>2, <2>4 DEF TypeOK
    <3> HIDE DEF Good
    <3>2. QED
      BY <2>1, <3>1
  <2>5. QED
    BY <2>3, <2>4
<1>17. ReplyIsBacked'
  <2> SUFFICES ASSUME NEW q \in Requests, (reply[q].status = 201)'
               PROVE  (Backed(reply[q]) /\ AsksFor(q, reply[q].key, reply[q].hash))'
    BY DEF ReplyIsBacked
  <2>1. CASE q = r
    <3>1. reply'[q] = outcome[r]
      BY <1>1, <2>1 DEF TypeOK
    <3>2. Backed(outcome[r])' /\ AsksFor(r, outcome[r].key, outcome[r].hash)
      BY <1>1, <1>4, <1>11, <3>1 DEF AsksFor
    <3>3. QED
      BY <1>1, <1>12, <2>1, <3>1, <3>2 DEF Backed, AsksFor
  <2>2. CASE q # r
    <3>1. reply'[q] = reply[q]
      BY <1>1, <2>2 DEF TypeOK
    <3>2. reply[q] \in Body
      BY <3>1 DEF TypeOK, NoBody
    <3>3. Backed(reply[q]) /\ AsksFor(q, reply[q].key, reply[q].hash)
      BY <3>1 DEF ReplyIsBacked
    <3>4. QED
      BY <1>11, <1>12, <3>1, <3>2, <3>3
  <2>3. QED
    BY <2>1, <2>2
<1>18. QED
  BY <1>8, <1>9, <1>10, <1>13, <1>14, <1>15, <1>16, <1>17

LEMMA RestartKeepsIInv ==
  ASSUME IInv, NEW i \in Instances, Restart(i)
  PROVE  IInv'
<1> USE DEF IInv
<1> DEFINE mine == {r \in Requests : req[r].inst = i}
<1>1. /\ restarts < MaxRestarts /\ restarts' = restarts + 1
      /\ past' = past \cup mine
      /\ phase' = [r \in Requests |->
                     IF r \in mine /\ phase[r] # "answered" THEN "dropped"
                                                            ELSE phase[r]]
      /\ buckets' = [buckets EXCEPT ![i] = [c \in Clients |-> NoBucket]]
      /\ completed' = [completed EXCEPT ![i] = <<>>]
      /\ inFlight' = [inFlight EXCEPT ![i] = [k \in Keys |-> None]]
      /\ memory' = [memory EXCEPT ![i] = <<>>]
      /\ published' = [published EXCEPT ![i] = <<>>]
      /\ UNCHANGED <<now, req, joined, outcome, reply, deployed, redis>>
  BY DEF Restart
<1>2. TypeOK'
  <2>1. phase' \in [Requests -> Phases]
    BY <1>1 DEF TypeOK, Phases
  <2>2. NoBucket \in Bucket
    BY RateLimitAssumption DEF NoBucket, Bucket
  <2>3. buckets' \in [Instances -> [Clients -> Bucket]]
    BY <1>1, <2>2 DEF TypeOK
  <2>4. /\ completed' \in [Instances -> Seq(Record)]
        /\ \A j \in Instances : Len(completed'[j]) <= CompletedCap
    BY <1>1, RelayAssumption DEF TypeOK
  <2>5. inFlight' \in [Instances -> [Keys -> Requests \cup {None}]]
    BY <1>1 DEF TypeOK
  <2>6. /\ memory' \in [Instances -> Seq(Requests)]
        /\ \A j \in Instances : Len(memory'[j]) <= LookupCap
    BY <1>1, RelayAssumption DEF TypeOK
  <2>7. /\ restarts' \in 0..MaxRestarts /\ past' \subseteq Requests
        /\ published' \in [Instances -> Seq(PublishEvent)]
    BY <1>1, RelayAssumption DEF TypeOK
  <2>8. QED
    BY <1>1, <2>1, <2>3, <2>4, <2>5, <2>6, <2>7 DEF TypeOK
<1>3. SentIsTyped'
  <2>1. \A r \in mine : req[r] \in Asked
    BY RelayAssumption DEF TypeOK, NotSent
  <2>2. QED
    BY <1>1, <2>1 DEF SentIsTyped
<1>4. InFlightIsLive'
  <2>1. \A r \in Requests : Live(r)' <=> Live(r) /\ r \notin mine
    BY <1>1 DEF Live
  <2>2. \A j \in Instances, k \in Keys :
          inFlight'[j][k] = IF j = i THEN None ELSE inFlight[j][k]
    BY <1>1 DEF TypeOK
  <2>3. None \notin Requests
    BY RelayAssumption
  <2>4. QED
    BY <1>1, <2>1, <2>2, <2>3 DEF InFlightIsLive
<1>5. \A r \in Requests : phase[r] # "unsent" => phase'[r] # "unsent"
  BY <1>1
<1>6. \A d \in Body : Backed(d) => Backed(d)'
  BY <1>1, <1>5 DEF Backed, TypeOK
<1>7. \A r \in Requests : \A k, h : AsksFor(r, k, h) => AsksFor(r, k, h)'
  BY <1>1, <1>5 DEF AsksFor
<1>8. RecordingIsDeployed'
  BY <1>1 DEF RecordingIsDeployed
<1>9. OutcomeIsBacked'
  BY <1>1, <1>6, <1>7 DEF OutcomeIsBacked, TypeOK, NoBody
<1>10. JoinedAsksTheSame'
  BY <1>1, <1>7 DEF JoinedAsksTheSame
<1>11. RecordIsBacked'
  <2> SUFFICES ASSUME NEW j \in Instances, NEW n \in DOMAIN completed'[j]
               PROVE  /\ j # i
                      /\ completed'[j] = completed[j]
    BY <1>6, RecordsAreTyped DEF RecordIsBacked
  <2>1. QED
    BY <1>1 DEF TypeOK
<1>12. ReplyIsBacked'
  BY <1>1, <1>6, <1>7 DEF ReplyIsBacked, TypeOK, NoBody
<1>13. QED
  BY <1>2, <1>3, <1>4, <1>8, <1>9, <1>10, <1>11, <1>12

\* A step that changes at most the clock.
LEMMA IdleKeepsIInv ==
  ASSUME IInv, Tick \/ UNCHANGED vars
  PROVE  IInv'
<1> USE DEF IInv
<1>1. /\ now' \in 0..MaxTime
      /\ UNCHANGED <<buckets, req, phase, joined, outcome, reply, completed,
                     inFlight, deployed, redis, memory, restarts, past, published>>
  BY RelayAssumption DEF Tick, vars, limiter, stores, epoch, TypeOK
<1>2. TypeOK' /\ SentIsTyped'
  BY <1>1 DEF TypeOK, SentIsTyped
<1>3. InFlightIsLive' /\ RecordingIsDeployed'
  BY <1>1 DEF InFlightIsLive, Live, RecordingIsDeployed
<1>4. OutcomeIsBacked' /\ JoinedAsksTheSame'
  BY <1>1 DEF OutcomeIsBacked, JoinedAsksTheSame, Backed, AsksFor
<1>5. RecordIsBacked' /\ ReplyIsBacked'
  BY <1>1 DEF RecordIsBacked, ReplyIsBacked, Backed, AsksFor
<1>6. QED
  BY <1>2, <1>3, <1>4, <1>5

\* Every step of the relay keeps the inductive invariant.
LEMMA NextKeepsIInv == IInv /\ [Next]_vars => IInv'
<1> SUFFICES ASSUME IInv, [Next]_vars PROVE IInv'
  OBVIOUS
<1>1. ASSUME NEW r \in Requests, NEW i \in Instances, NEW c \in Clients,
             NEW k \in Keys, NEW h \in Hashes, Receive(r, i, c, k, h)
      PROVE  IInv'
  BY <1>1, ReceiveKeepsIInv
<1>2. ASSUME NEW r \in Requests, RejectBody(r) PROVE IInv'
  BY <1>2, RejectBodyKeepsIInv
<1>3. ASSUME NEW r \in Requests, Decide(r) PROVE IInv'
  BY <1>3, AnswerFromRecordKeepsIInv, JoinInFlightKeepsIInv,
     StartPublishKeepsIInv DEF Decide
<1>4. ASSUME NEW r \in Requests, Deploy(r) PROVE IInv'
  BY <1>4, DeployKeepsIInv
<1>5. ASSUME NEW r \in Requests, Progress(r) PROVE IInv'
  BY <1>5, PublisherReturnsKeepsIInv, PublisherFailsKeepsIInv,
     WriteLookupKeepsIInv, SettleKeepsIInv, ResumeJoinedKeepsIInv DEF Progress
<1>6. ASSUME NEW i \in Instances, Restart(i) PROVE IInv'
  BY <1>6, RestartKeepsIInv
<1>7. CASE Tick \/ UNCHANGED vars
  BY <1>7, IdleKeepsIInv
<1>8. QED
  BY <1>1, <1>2, <1>3, <1>4, <1>5, <1>6, <1>7 DEF Next
-----------------------------------------------------------------------------
(***************************************************************************)
(* The relay's variables keep their types and its maps their caps, for     *)
(* every cap, rate limit and number of instances.                          *)
(***************************************************************************)
THEOREM RelayTypeCorrect == Spec => []TypeOK
<1>1. IInv => TypeOK
  BY DEF IInv
<1>2. QED
  BY InitIInv, NextKeepsIInv, <1>1, PTL DEF Spec

(***************************************************************************)
(* One live execution per instance and key, and no stranded in-flight      *)
(* record, under every interleaving of handlers, failures and restarts.    *)
(***************************************************************************)
THEOREM RelayInFlightIsLive == Spec => []InFlightIsLive
<1>1. IInv => InFlightIsLive
  BY DEF IInv
<1>2. QED
  BY InitIInv, NextKeepsIInv, <1>1, PTL DEF Spec

(***************************************************************************)
(* Every 201, fresh or replayed, is for the key and artifact of the        *)
(* request it answers and names a deployment of that artifact that exists. *)
(***************************************************************************)
THEOREM RelayAnswersTheArtifact == Spec => []AnswerIsForThisArtifact
<1>1. IInv => AnswerIsForThisArtifact
  BY DEF IInv, ReplyIsBacked, Backed, AsksFor, AnswerIsForThisArtifact
<1>2. QED
  BY InitIInv, NextKeepsIInv, <1>1, PTL DEF Spec

\* Only a 201 carries a publishId.
OnlySuccessHasId ==
  \A r \in Requests :
    /\ outcome[r].publishId # None => outcome[r].status = 201
    /\ reply[r].publishId # None => reply[r].status = 201

\* Whoever answers r with a failure, a record or the outcome of an execution
\* gives no publishId without a 201.
LEMMA NextKeepsIds == IInv /\ OnlySuccessHasId /\ [Next]_vars => OnlySuccessHasId'
<1> SUFFICES ASSUME IInv, OnlySuccessHasId, [Next]_vars PROVE OnlySuccessHasId'
  OBVIOUS
<1> DEFINE Fine(b) == b.publishId # None => b.status = 201
<1>1. \A s : Fine(Failure(s))
  BY DEF Failure, NoBody
<1>2. \A r \in Requests : \A w : Fine(Published(r, w))
  BY DEF Published
<1>3. /\ outcome \in [Requests -> Body \cup {NoBody}]
      /\ reply \in [Requests -> Body \cup {NoBody}]
      /\ joined \in [Requests -> Requests \cup {None}]
  BY DEF IInv, TypeOK
<1>4. \A r \in Requests : Fine(outcome[r]) /\ Fine(reply[r])
  BY DEF OnlySuccessHasId
<1> SUFFICES /\ \A r \in Requests : Fine(outcome'[r])
             /\ \A r \in Requests : Fine(reply'[r])
  BY DEF OnlySuccessHasId
<1>5. ASSUME NEW r \in Requests, NEW b, Fine(b), Answer(r, b), UNCHANGED outcome
      PROVE  \A q \in Requests : Fine(outcome'[q]) /\ Fine(reply'[q])
  <2>1. reply' = [reply EXCEPT ![r] = b]
    BY <1>5 DEF Answer
  <2>2. \A q \in Requests : reply'[q] = IF q = r THEN b ELSE reply[q]
    BY <1>3, <2>1
  <2>3. QED
    BY <1>4, <1>5, <2>2
<1>6. ASSUME UNCHANGED <<outcome, reply>>
      PROVE  \A q \in Requests : Fine(outcome'[q]) /\ Fine(reply'[q])
  BY <1>4, <1>6
<1>7. ASSUME NEW r \in Requests, NEW i \in Instances, NEW c \in Clients,
             NEW k \in Keys, NEW h \in Hashes, Receive(r, i, c, k, h)
      PROVE  \A q \in Requests : Fine(outcome'[q]) /\ Fine(reply'[q])
  <2>1. UNCHANGED outcome /\ (UNCHANGED reply \/ Answer(r, Failure(429)))
    BY <1>7 DEF Receive
  <2>2. QED
    BY <1>1, <1>5, <1>6, <2>1
<1>8. ASSUME NEW r \in Requests, RejectBody(r)
      PROVE  \A q \in Requests : Fine(outcome'[q]) /\ Fine(reply'[q])
  BY <1>1, <1>5, <1>8 DEF RejectBody
<1>9. ASSUME NEW r \in Requests, Decide(r)
       PROVE  \A q \in Requests : Fine(outcome'[q]) /\ Fine(reply'[q])
  <2>1. CASE AnswerFromRecord(r)
    <3> DEFINE i == req[r].inst
               rec == RecordOf(i, req[r].key)
               b == IF rec.hash = req[r].hash THEN rec.result ELSE Failure(409)
    <3>1. /\ phase[r] = "reading" /\ Remembers(i, req[r].key)
          /\ Answer(r, b) /\ UNCHANGED outcome
      BY <2>1 DEF AnswerFromRecord
    <3>2. i \in Instances
      BY <3>1 DEF IInv, SentIsTyped, Asked
    <3>3. PICK n \in DOMAIN completed[i] : rec = completed[i][n]
      BY <3>1 DEF Remembers, RecordOf
    <3>4. rec.result.status = 201
      BY <3>2, <3>3 DEF IInv, RecordIsBacked
    <3>5. Fine(b)
      BY <1>1, <3>4
    <3> HIDE DEF b
    <3>6. QED
      BY <1>5, <3>1, <3>5
  <2>2. CASE JoinInFlight(r)
    <3>1. UNCHANGED outcome /\ (UNCHANGED reply \/ Answer(r, Failure(409)))
      BY <2>2 DEF JoinInFlight
    <3>2. QED
      BY <1>1, <1>5, <1>6, <3>1
  <2>3. CASE StartPublish(r)
    BY <1>6, <2>3 DEF StartPublish
  <2>4. QED
    BY <1>9, <2>1, <2>2, <2>3 DEF Decide
<1>10. ASSUME NEW r \in Requests, Progress(r)
       PROVE  \A q \in Requests : Fine(outcome'[q]) /\ Fine(reply'[q])
  <2>1. CASE PublisherReturns(r)
    BY <1>6, <2>1 DEF PublisherReturns
  <2>2. CASE PublisherFails(r)
    <3>1. PICK b \in {Failure(502), Failure(504)} : outcome' = [outcome EXCEPT ![r] = b]
      BY <2>2 DEF PublisherFails
    <3>2. UNCHANGED reply
      BY <2>2 DEF PublisherFails
    <3>3. Fine(b)
      BY <1>1
    <3>4. \A q \in Requests : outcome'[q] = IF q = r THEN b ELSE outcome[q]
      BY <1>3, <3>1
    <3>5. QED
      BY <1>4, <3>2, <3>3, <3>4
  <2>3. CASE WriteLookup(r)
    <3>1. PICK w \in BOOLEAN : outcome' = [outcome EXCEPT ![r] = Published(r, w)]
      BY <2>3 DEF WriteLookup
    <3>2. UNCHANGED reply
      BY <2>3 DEF WriteLookup
    <3>3. Fine(Published(r, w))
      BY <1>2
    <3>4. \A q \in Requests : outcome'[q] = IF q = r THEN Published(r, w) ELSE outcome[q]
      BY <1>3, <3>1
    <3>5. QED
      BY <1>4, <3>2, <3>3, <3>4
  <2>4. CASE Settle(r)
    BY <1>4, <1>5, <2>4 DEF Settle
  <2>5. CASE ResumeJoined(r)
    <3>1. joined[r] \in Requests
      BY <2>5 DEF ResumeJoined, IInv, JoinedAsksTheSame
    <3>2. QED
      BY <1>4, <1>5, <2>5, <3>1 DEF ResumeJoined
  <2>6. QED
    BY <1>10, <2>1, <2>2, <2>3, <2>4, <2>5 DEF Progress
<1>11. CASE \/ \E r \in Requests : Deploy(r)
            \/ \E i \in Instances : Restart(i)
            \/ Tick
            \/ UNCHANGED vars
  BY <1>6, <1>11 DEF Deploy, Restart, Tick, vars
<1>12. QED
  BY <1>7, <1>8, <1>9, <1>10, <1>11 DEF Next
-----------------------------------------------------------------------------
(***************************************************************************)
(* The refinement of IdempotentPublish.  RefinementInv is inductive beside *)
(* IInv; then every step of the relay is a step of the abstract endpoint.  *)
(***************************************************************************)
\* A step that leaves the completed records and the outcomes as they are.
LEMMA RecordsStay ==
  ASSUME RefinementInv, UNCHANGED <<completed, outcome>>
  PROVE  OneRecordPerKey' /\ RecordIsProduced'
BY DEF RefinementInv, OneRecordPerKey, RecordIsProduced, Produced

\* A handler that has no outcome of its own and is not live answers.
LEMMA AnswerKeepsRefinementInv ==
  ASSUME IInv, RefinementInv, NEW r \in Requests,
         phase[r] \in {"reading", "waiting"}, NEW b, Answer(r, b),
         UNCHANGED <<req, outcome, completed, inFlight>>
  PROVE  RefinementInv'
<1>1. OneRecordPerKey' /\ RecordIsProduced'
  BY RecordsStay
<1>2. RememberedIsAtRest'
  BY DEF RefinementInv, RememberedIsAtRest, Remembers
<1>3. NothingYet'
  <2>1. /\ phase' = [phase EXCEPT ![r] = "answered"]
        /\ reply' = [reply EXCEPT ![r] = b]
    BY DEF Answer, Goto
  <2>2. QED
    BY <2>1 DEF RefinementInv, NothingYet, IInv, TypeOK
<1>4. QED
  BY <1>1, <1>2, <1>3 DEF RefinementInv

LEMMA ReceiveKeepsRefinementInv ==
  ASSUME IInv, RefinementInv, NEW r \in Requests, NEW i \in Instances,
         NEW c \in Clients, NEW k \in Keys, NEW h \in Hashes,
         Receive(r, i, c, k, h)
  PROVE  RefinementInv'
<1>1. /\ phase[r] = "unsent"
      /\ req' = [req EXCEPT ![r] = [inst |-> i, client |-> c, key |-> k,
                                    hash |-> h]]
      /\ UNCHANGED <<outcome, completed, inFlight>>
      /\ \/ phase' = [phase EXCEPT ![r] = "reading"] /\ UNCHANGED reply
         \/ /\ phase' = [phase EXCEPT ![r] = "answered"]
            /\ reply' = [reply EXCEPT ![r] = Failure(429)]
  BY DEF Receive, Answer, Goto
<1>2. OneRecordPerKey' /\ RecordIsProduced'
  BY <1>1, RecordsStay
<1>3. RememberedIsAtRest'
  BY <1>1 DEF RefinementInv, RememberedIsAtRest, Remembers
<1>4. NothingYet'
  BY <1>1 DEF RefinementInv, NothingYet, IInv, TypeOK
<1>5. QED
  BY <1>2, <1>3, <1>4 DEF RefinementInv

\* A record that is found is one of the instance's, and of that key.
LEMMA RecordIsFound ==
  ASSUME NEW i, NEW k, Remembers(i, k)
  PROVE  \E n \in DOMAIN completed[i] :
           RecordOf(i, k) = completed[i][n] /\ completed[i][n].key = k
BY DEF Remembers, RecordOf

LEMMA DecideKeepsRefinementInv ==
  ASSUME IInv, RefinementInv, NEW r \in Requests, Decide(r)
  PROVE  RefinementInv'
<1>1. CASE AnswerFromRecord(r)
  BY <1>1, AnswerKeepsRefinementInv DEF AnswerFromRecord
<1>2. CASE JoinInFlight(r)
  <2>1. /\ phase[r] = "reading"
        /\ UNCHANGED <<req, outcome, completed, inFlight>>
        /\ \/ phase' = [phase EXCEPT ![r] = "waiting"] /\ UNCHANGED reply
           \/ Answer(r, Failure(409))
    BY <1>2 DEF JoinInFlight, Goto
  <2>2. CASE Answer(r, Failure(409))
    BY <2>1, <2>2, AnswerKeepsRefinementInv
  <2>3. CASE phase' = [phase EXCEPT ![r] = "waiting"] /\ UNCHANGED reply
    <3>1. OneRecordPerKey' /\ RecordIsProduced'
      BY <2>1, RecordsStay
    <3>2. RememberedIsAtRest'
      BY <2>1 DEF RefinementInv, RememberedIsAtRest, Remembers
    <3>3. NothingYet'
      BY <2>1, <2>3 DEF RefinementInv, NothingYet, IInv, TypeOK
    <3>4. QED
      BY <3>1, <3>2, <3>3 DEF RefinementInv
  <2>4. QED
    BY <2>1, <2>2, <2>3
<1>3. CASE StartPublish(r)
  <2> DEFINE i == req[r].inst
             k == req[r].key
  <2>1. /\ phase[r] = "reading" /\ ~Remembers(i, k)
        /\ phase' = [phase EXCEPT ![r] = "publishing"]
        /\ inFlight' = [inFlight EXCEPT ![i][k] = r]
        /\ UNCHANGED <<req, outcome, reply, completed>>
    BY <1>3 DEF StartPublish, Goto
  <2>2. OneRecordPerKey' /\ RecordIsProduced'
    BY <2>1, RecordsStay
  <2>3. RememberedIsAtRest'
    <3>1. \A j \in Instances, l \in Keys :
            inFlight'[j][l] = IF j = i /\ l = k THEN r ELSE inFlight[j][l]
      BY <2>1 DEF IInv, TypeOK
    <3>2. \A j \in Instances, l \in Keys : Remembers(j, l)' <=> Remembers(j, l)
      BY <2>1 DEF Remembers
    <3>3. QED
      BY <2>1, <3>1, <3>2 DEF RefinementInv, RememberedIsAtRest
  <2>4. NothingYet'
    BY <2>1 DEF RefinementInv, NothingYet, IInv, TypeOK
  <2>5. QED
    BY <2>2, <2>3, <2>4 DEF RefinementInv
<1>4. QED
  BY <1>1, <1>2, <1>3 DEF Decide

\* An execution that goes on, or comes to its outcome.
LEMMA ExecutionKeepsRefinementInv ==
  ASSUME IInv, RefinementInv, NEW r \in Requests,
         phase[r] \in {"publishing", "recording"},
         \/ phase' = [phase EXCEPT ![r] = "recording"] /\ UNCHANGED outcome
         \/ /\ phase' = [phase EXCEPT ![r] = "settled"]
            /\ \E b : outcome' = [outcome EXCEPT ![r] = b],
         UNCHANGED <<req, reply, completed, inFlight>>
  PROVE  RefinementInv' /\ Produced \subseteq Produced'
<1>1. outcome[r] = NoBody
  BY DEF RefinementInv, NothingYet
<1>2. \A q \in Requests : q # r => outcome'[q] = outcome[q]
  BY DEF IInv, TypeOK
<1>3. Produced \subseteq Produced'
  BY <1>1, <1>2 DEF Produced, NoBody
<1>4. OneRecordPerKey'
  BY DEF RefinementInv, OneRecordPerKey
<1>5. RecordIsProduced'
  BY <1>3 DEF RefinementInv, RecordIsProduced
<1>6. RememberedIsAtRest'
  BY DEF RefinementInv, RememberedIsAtRest, Remembers
<1>7. NothingYet'
  BY <1>2 DEF RefinementInv, NothingYet, IInv, TypeOK
<1>8. QED
  BY <1>3, <1>4, <1>5, <1>6, <1>7 DEF RefinementInv

\* Adding an entry to a capped map drops none, or the oldest one.
LEMMA CappedAppend ==
  ASSUME NEW S, NEW s \in Seq(S), NEW rec \in S, NEW cap \in Nat \ {0},
         NEW t, t = Capped(Append(s, rec), cap)
  PROVE  \E d \in {0, 1} :
           /\ d = IF Len(s) + 1 > cap THEN 1 ELSE 0
           /\ DOMAIN t = 1..(Len(s) + 1 - d)
           /\ Len(s) + 1 - d \in DOMAIN t
           /\ t[Len(s) + 1 - d] = rec
           /\ \A n \in 1..(Len(s) - d) : t[n] = s[n + d] /\ n + d \in DOMAIN s
<1> DEFINE u == Append(s, rec)
<1>1. /\ u \in Seq(S) /\ Len(u) = Len(s) + 1 /\ u[Len(s) + 1] = rec
      /\ \A n \in 1..Len(s) : u[n] = s[n]
  OBVIOUS
<1>2. Len(s) \in Nat /\ DOMAIN s = 1..Len(s)
  OBVIOUS
<1> HIDE DEF u
<1>3. CASE Len(s) + 1 > cap
  <2>1. t = Tail(u)
    BY <1>1, <1>3 DEF Capped, u
  <2>2. /\ t \in Seq(S) /\ Len(t) = Len(s)
        /\ \A n \in 1..Len(s) : t[n] = u[n + 1]
    BY <1>1, <1>2, <2>1
  <2>3. Len(s) \in DOMAIN t /\ DOMAIN t = 1..Len(s)
    BY <1>2, <1>3, <2>2
  <2>4. t[Len(s)] = rec
    BY <1>1, <2>2, <2>3
  <2>5. ASSUME NEW n \in 1..(Len(s) - 1)
        PROVE  t[n] = s[n + 1] /\ n + 1 \in 1..Len(s)
    <3>1. n \in 1..Len(s) /\ n + 1 \in 1..Len(s)
      BY <1>2
    <3>2. t[n] = u[n + 1] /\ u[n + 1] = s[n + 1]
      BY <1>1, <2>2, <3>1
    <3>3. QED
      BY <3>1, <3>2
  <2>6. Len(s) + 1 - 1 = Len(s)
    BY <1>2
  <2>7. QED
    BY <1>2, <1>3, <2>3, <2>4, <2>5, <2>6
<1>4. CASE ~(Len(s) + 1 > cap)
  <2>1. t = u
    BY <1>1, <1>4 DEF Capped, u
  <2>2. QED
    BY <1>1, <1>2, <1>4, <2>1
<1>5. QED
  BY <1>3, <1>4

\* What an owner's continuation finds and does.
LEMMA SettleEffect ==
  ASSUME IInv, RefinementInv, NEW r \in Requests, Settle(r),
         NEW i, i = req[r].inst, NEW k, k = req[r].key
  PROVE  /\ i \in Instances /\ k \in Keys /\ req[r].hash \in Hashes
         /\ phase[r] = "settled" /\ inFlight[i][k] = r /\ ~Remembers(i, k)
         /\ phase' = [phase EXCEPT ![r] = "answered"]
         /\ reply' = [reply EXCEPT ![r] = outcome[r]]
         /\ UNCHANGED <<req, outcome>>
         /\ \A j \in Instances, l \in Keys :
              inFlight'[j][l] = IF j = i /\ l = k THEN None ELSE inFlight[j][l]
         /\ \A j \in Instances : j # i => completed'[j] = completed[j]
         /\ outcome[r].status # 201 => completed' = completed
         /\ outcome[r].status = 201 =>
              LET rec == [key |-> k, hash |-> req[r].hash, result |-> outcome[r]]
              IN  /\ rec \in Record
                  /\ completed'[i] = Capped(Append(completed[i], rec), CompletedCap)
<1> DEFINE rec == [key |-> k, hash |-> req[r].hash, result |-> outcome[r]]
<1>1. /\ phase[r] = "settled"
      /\ phase' = [phase EXCEPT ![r] = "answered"]
      /\ reply' = [reply EXCEPT ![r] = outcome[r]]
      /\ inFlight' = [inFlight EXCEPT ![i][k] = None]
      /\ completed' = IF outcome[r].status = 201
                        THEN [completed EXCEPT ![i] =
                                Capped(Remember(@, rec), CompletedCap)]
                        ELSE completed
      /\ UNCHANGED <<req, outcome>>
  BY DEF Settle, Answer, Goto
<1>2. i \in Instances /\ k \in Keys /\ req[r].hash \in Hashes
  BY <1>1 DEF IInv, SentIsTyped, Asked
<1>3. inFlight[i][k] = r
  BY <1>1, <1>2 DEF IInv, InFlightIsLive, Live
<1>4. ~Remembers(i, k)
  BY <1>2, <1>3, RelayAssumption DEF RefinementInv, RememberedIsAtRest
<1>5. \A j \in Instances, l \in Keys :
        inFlight'[j][l] = IF j = i /\ l = k THEN None ELSE inFlight[j][l]
  BY <1>1, <1>2 DEF IInv, TypeOK
<1>6. Remember(completed[i], rec) = Append(completed[i], rec)
  BY <1>4 DEF Remember, Remembers
<1>7. outcome[r].status = 201 => rec \in Record
  BY <1>2 DEF Record, IInv, TypeOK, NoBody
<1>8. /\ \A j \in Instances : j # i => completed'[j] = completed[j]
      /\ outcome[r].status = 201 =>
           completed'[i] = Capped(Remember(completed[i], rec), CompletedCap)
  BY <1>1, <1>2 DEF IInv, TypeOK
<1>9. QED
  BY <1>1, <1>2, <1>3, <1>4, <1>5, <1>6, <1>7, <1>8

LEMMA SettleKeepsRefinementInv ==
  ASSUME IInv, RefinementInv, NEW r \in Requests, Settle(r)
  PROVE  RefinementInv'
<1> DEFINE i == req[r].inst
           k == req[r].key
           rec == [key |-> k, hash |-> req[r].hash, result |-> outcome[r]]
<1>1. /\ i \in Instances /\ k \in Keys
      /\ ~Remembers(i, k)
      /\ phase' = [phase EXCEPT ![r] = "answered"]
      /\ reply' = [reply EXCEPT ![r] = outcome[r]]
      /\ UNCHANGED <<req, outcome>>
      /\ \A j \in Instances, l \in Keys :
           inFlight'[j][l] = IF j = i /\ l = k THEN None ELSE inFlight[j][l]
      /\ \A j \in Instances : j # i => completed'[j] = completed[j]
      /\ outcome[r].status # 201 => completed' = completed
      /\ outcome[r].status = 201 =>
           /\ rec \in Record
           /\ completed'[i] = Capped(Append(completed[i], rec), CompletedCap)
  BY SettleEffect
<1>2. NothingYet'
  BY <1>1 DEF RefinementInv, NothingYet, IInv, TypeOK
<1>3. Produced' = Produced
  BY <1>1 DEF Produced
<1>4. CASE outcome[r].status # 201
  <2>1. OneRecordPerKey' /\ RecordIsProduced'
    BY <1>1, <1>4, RecordsStay
  <2>2. RememberedIsAtRest'
    BY <1>1, <1>4 DEF RefinementInv, RememberedIsAtRest, Remembers
  <2>3. QED
    BY <1>2, <2>1, <2>2 DEF RefinementInv
<1>5. CASE outcome[r].status = 201
  <2> DEFINE s == completed[i]
             t == completed'[i]
  <2>1. s \in Seq(Record) /\ DOMAIN s = 1..Len(s) /\ Len(s) \in Nat
    BY <1>1 DEF IInv, TypeOK
  <2>2. PICK d \in {0, 1} :
          /\ DOMAIN t = 1..(Len(s) + 1 - d)
          /\ t[Len(s) + 1 - d] = rec
          /\ \A n \in 1..(Len(s) - d) : t[n] = s[n + d] /\ n + d \in DOMAIN s
    <3>1. CompletedCap \in Nat \ {0}
      BY RelayAssumption
    <3>2. rec \in Record /\ t = Capped(Append(s, rec), CompletedCap)
      BY <1>1, <1>5
    <3> HIDE DEF s, t, rec
    <3>3. QED
      BY <2>1, <3>1, <3>2, CappedAppend
  <2>3. \A n \in DOMAIN t : n # Len(s) + 1 - d => n \in 1..(Len(s) - d)
    BY <2>1, <2>2
  <2>4. \A n \in DOMAIN s : s[n].key # k
    BY <1>1 DEF Remembers
  <2> HIDE DEF s, t
  <2>5. OneRecordPerKey'
    <3>1. \A m, n \in DOMAIN s : s[m].key = s[n].key => m = n
      BY <1>1 DEF RefinementInv, OneRecordPerKey, s
    <3>2. \A m, n \in 1..(Len(s) - d) : t[m].key = t[n].key => m = n
      <4> SUFFICES ASSUME NEW m \in 1..(Len(s) - d), NEW n \in 1..(Len(s) - d),
                          t[m].key = t[n].key
                   PROVE  m = n
        OBVIOUS
      <4>1. m + d = n + d
        BY <2>2, <3>1
      <4>2. QED
        BY <2>1, <4>1
    <3>3. rec.key = k /\ \A n \in 1..(Len(s) - d) : t[n].key # k
      BY <2>2, <2>4
    <3>4. \A m, n \in DOMAIN t : t[m].key = t[n].key => m = n
      <4> HIDE DEF rec, k
      <4> QED
        BY <2>2, <2>3, <3>2, <3>3
    <3>5. QED
      BY <1>1, <3>4 DEF RefinementInv, OneRecordPerKey, t
  <2>6. RecordIsProduced'
    <3>1. rec.result \in Produced
      BY <1>5 DEF Produced
    <3>2. \A n \in DOMAIN s : s[n].result \in Produced
      BY <1>1 DEF RefinementInv, RecordIsProduced, s
    <3>3. \A n \in DOMAIN t : t[n].result \in Produced
      <4> HIDE DEF rec
      <4> QED
        BY <2>2, <2>3, <3>1, <3>2
    <3>4. QED
      BY <1>1, <1>3, <3>3 DEF RefinementInv, RecordIsProduced, t
  <2>7. RememberedIsAtRest'
    <3> SUFFICES ASSUME NEW j \in Instances, NEW l \in Keys, Remembers(j, l)'
                 PROVE  inFlight'[j][l] = None
      BY DEF RememberedIsAtRest
    <3>1. CASE j # i
      BY <1>1, <3>1 DEF RefinementInv, RememberedIsAtRest, Remembers
    <3>2. CASE j = i /\ l = k
      BY <1>1, <3>2
    <3>3. CASE j = i /\ l # k
      <4>1. PICK n \in DOMAIN t : t[n].key = l
        BY <3>3 DEF Remembers, t
      <4>2. n # Len(s) + 1 - d
        BY <2>2, <3>3, <4>1
      <4>3. n + d \in DOMAIN s /\ s[n + d].key = l
        BY <2>2, <2>3, <4>1, <4>2
      <4>4. Remembers(i, l)
        BY <4>3 DEF Remembers, s
      <4>5. QED
        BY <1>1, <3>3, <4>4 DEF RefinementInv, RememberedIsAtRest
    <3>4. QED
      BY <3>1, <3>2, <3>3
  <2>8. QED
    BY <1>2, <2>5, <2>6, <2>7 DEF RefinementInv
<1>6. QED
  BY <1>4, <1>5

LEMMA RestartKeepsRefinementInv ==
  ASSUME IInv, RefinementInv, NEW i \in Instances, Restart(i)
  PROVE  RefinementInv'
<1>1. /\ UNCHANGED <<req, outcome, reply>>
      /\ \A j \in Instances :
           /\ completed'[j] = IF j = i THEN <<>> ELSE completed[j]
           /\ \A k \in Keys : inFlight'[j][k] = IF j = i THEN None ELSE inFlight[j][k]
  BY DEF Restart, IInv, TypeOK
<1>2. \A r \in Requests :
        \/ phase'[r] = phase[r]
        \/ phase'[r] = "dropped" /\ phase[r] # "answered" /\ req[r].inst = i
  BY DEF Restart
<1>3. OneRecordPerKey' /\ RecordIsProduced'
  BY <1>1 DEF RefinementInv, OneRecordPerKey, RecordIsProduced, Produced
<1>4. RememberedIsAtRest'
  BY <1>1 DEF RefinementInv, RememberedIsAtRest, Remembers
<1>5. NothingYet'
  BY <1>1, <1>2 DEF RefinementInv, NothingYet
<1>6. QED
  BY <1>3, <1>4, <1>5 DEF RefinementInv

LEMMA NextKeepsRefinementInv ==
  IInv /\ RefinementInv /\ [Next]_vars => RefinementInv'
<1> SUFFICES ASSUME IInv, RefinementInv, [Next]_vars PROVE RefinementInv'
  OBVIOUS
<1>1. ASSUME UNCHANGED <<req, phase, outcome, reply, completed, inFlight>>
      PROVE  RefinementInv'
  <2>1. OneRecordPerKey' /\ RecordIsProduced'
    BY <1>1, RecordsStay
  <2>2. RememberedIsAtRest' /\ NothingYet'
    BY <1>1 DEF RefinementInv, RememberedIsAtRest, Remembers, NothingYet
  <2>3. QED
    BY <2>1, <2>2 DEF RefinementInv
<1>2. ASSUME NEW r \in Requests, NEW i \in Instances, NEW c \in Clients,
             NEW k \in Keys, NEW h \in Hashes, Receive(r, i, c, k, h)
      PROVE  RefinementInv'
  BY <1>2, ReceiveKeepsRefinementInv
<1>3. ASSUME NEW r \in Requests, RejectBody(r) PROVE RefinementInv'
  BY <1>3, AnswerKeepsRefinementInv DEF RejectBody
<1>4. ASSUME NEW r \in Requests, Decide(r) PROVE RefinementInv'
  BY <1>4, DecideKeepsRefinementInv
<1>5. ASSUME NEW r \in Requests, Progress(r) PROVE RefinementInv'
  <2>1. CASE PublisherReturns(r)
    BY <2>1, ExecutionKeepsRefinementInv DEF PublisherReturns, Goto
  <2>2. CASE PublisherFails(r)
    BY <2>2, ExecutionKeepsRefinementInv DEF PublisherFails, Goto
  <2>3. CASE WriteLookup(r)
    BY <2>3, ExecutionKeepsRefinementInv DEF WriteLookup, Goto
  <2>4. CASE Settle(r)
    BY <2>4, SettleKeepsRefinementInv
  <2>5. CASE ResumeJoined(r)
    BY <2>5, AnswerKeepsRefinementInv DEF ResumeJoined
  <2>6. QED
    BY <1>5, <2>1, <2>2, <2>3, <2>4, <2>5 DEF Progress
<1>6. ASSUME NEW i \in Instances, Restart(i) PROVE RefinementInv'
  BY <1>6, RestartKeepsRefinementInv
<1>7. CASE \/ \E r \in Requests : Deploy(r)
           \/ Tick
           \/ UNCHANGED vars
  BY <1>1, <1>7 DEF Deploy, Tick, vars
<1>8. QED
  BY <1>2, <1>3, <1>4, <1>5, <1>6, <1>7 DEF Next

LEMMA InitRefinementInv == Init => RefinementInv
BY DEF Init, RefinementInv, OneRecordPerKey, RememberedIsAtRest, Remembers,
       RecordIsProduced, NothingYet

\* Where records, in-flight entries and the requests behind them stay, so does
\* the slot.
LEMMA SlotStays ==
  ASSUME IInv, NEW i \in Instances, NEW k \in Keys,
         completed'[i] = completed[i], inFlight'[i][k] = inFlight[i][k],
         \A q \in Requests : Live(q) => req'[q] = req[q]
  PROVE  Slot(i, k)' = Slot(i, k)
<1>1. Remembers(i, k)' <=> Remembers(i, k)
  BY DEF Remembers
<1>2. RecordOf(i, k)' = RecordOf(i, k)
  BY DEF RecordOf
<1>3. inFlight[i][k] # None => req'[inFlight[i][k]] = req[inFlight[i][k]]
  <2>1. inFlight[i][k] \in Requests \cup {None}
    BY DEF IInv, TypeOK
  <2>2. inFlight[i][k] \in Requests => Live(inFlight[i][k])
    BY DEF IInv, InFlightIsLive
  <2>3. QED
    BY <2>1, <2>2
<1>4. QED
  BY <1>1, <1>2, <1>3 DEF Slot

\* The abstract step, said of the relay's own state.
AbstractSlot(i, k) ==
  LET old == Slot(i, k)
      new == Slot(i, k)'
  IN
  \/ new = old
  \/ new = Abstract!Free
  \/ old = Abstract!Free /\ \E h \in Hashes : new = Abstract!Pending(h)
  \/ /\ old.st = "pending"
     /\ \E b \in Produced : /\ b.key = k /\ b.hash = old.hash
                            /\ new = Abstract!Done(old.hash, b)

AbstractProduce ==
  /\ Produced \subseteq Produced'
  /\ \A b \in Produced' \ Produced :
       \E i \in Instances, k \in Keys : /\ Slot(i, k).st = "pending"
                                        /\ b.key = k
                                        /\ b.hash = Slot(i, k).hash

AbstractTell(r) ==
  \/ reply'[r] = reply[r]
  \/ reply[r] = NoBody /\ reply'[r].status # 201
  \/ /\ reply[r] = NoBody
     /\ reply'[r] \in Produced
     /\ reply'[r].key = req[r].key /\ reply'[r].hash = req[r].hash

AbstractAsk(r) == req'[r] = req[r] \/ req[r] = NotSent

AbstractStep ==
  /\ \A i \in Instances, k \in Keys : AbstractSlot(i, k)
  /\ AbstractProduce
  /\ \A r \in Requests : AbstractAsk(r) /\ AbstractTell(r)

LEMMA AbstractStepIsNext == AbstractStep => Abstract!Next
<1> SUFFICES ASSUME AbstractStep PROVE Abstract!Next
  OBVIOUS
<1>1. \A i \in Instances, k \in Keys : Abstract!SlotStep(i, k)
  BY DEF AbstractStep, AbstractSlot, Abstract!SlotStep
<1>2. Abstract!Produce
  BY DEF AbstractStep, AbstractProduce, Abstract!Produce
<1>3. ASSUME NEW r \in Requests PROVE Abstract!Ask(r) /\ Abstract!Tell(r)
  <2>1. Abstract!Ask(r)
    BY DEF AbstractStep, AbstractAsk, Abstract!Ask, NotSent
  <2>2. Abstract!Tell(r)
    BY DEF AbstractStep, AbstractTell, Abstract!Tell, NoBody, Produced
  <2>3. QED
    BY <2>1, <2>2
<1>4. QED
  BY <1>1, <1>2, <1>3 DEF Abstract!Next

\* A live execution holds its key's slot, pending for its artifact.
LEMMA LiveIsPending ==
  ASSUME IInv, RefinementInv, NEW r \in Requests, Live(r)
  PROVE  /\ req[r].inst \in Instances /\ req[r].key \in Keys
         /\ req[r].hash \in Hashes
         /\ Slot(req[r].inst, req[r].key) = Abstract!Pending(req[r].hash)
<1> DEFINE i == req[r].inst
           k == req[r].key
<1>1. i \in Instances /\ k \in Keys /\ req[r].hash \in Hashes
  BY DEF IInv, SentIsTyped, Asked, Live
<1>2. inFlight[i][k] = r /\ r # None
  BY <1>1, RelayAssumption DEF IInv, InFlightIsLive
<1>3. ~Remembers(i, k)
  BY <1>1, <1>2 DEF RefinementInv, RememberedIsAtRest
<1>4. QED
  BY <1>1, <1>2, <1>3 DEF Slot, Abstract!Pending

\* A handler that answers, and whose answer, if a success, was produced for the
\* key and the artifact of its request.
LEMMA AnswerIsAbstract ==
  ASSUME IInv, RefinementInv, NEW r \in Requests,
         phase[r] \in {"reading", "waiting"}, NEW b, Answer(r, b),
         b.status = 201 =>
           b \in Produced /\ b.key = req[r].key /\ b.hash = req[r].hash,
         UNCHANGED <<req, outcome, completed, inFlight>>
  PROVE  AbstractStep
<1>1. \A i \in Instances, k \in Keys : AbstractSlot(i, k)
  BY SlotStays DEF AbstractSlot
<1>2. AbstractProduce
  BY DEF AbstractProduce, Produced
<1>3. reply[r] = NoBody
  BY DEF RefinementInv, NothingYet
<1>4. \A q \in Requests : reply'[q] = IF q = r THEN b ELSE reply[q]
  BY DEF Answer, IInv, TypeOK
<1>5. \A q \in Requests : AbstractAsk(q) /\ AbstractTell(q)
  BY <1>3, <1>4 DEF AbstractAsk, AbstractTell
<1>6. QED
  BY <1>1, <1>2, <1>5 DEF AbstractStep

LEMMA ReceiveIsAbstract ==
  ASSUME IInv, RefinementInv, NEW r \in Requests, NEW i \in Instances,
         NEW c \in Clients, NEW k \in Keys, NEW h \in Hashes,
         Receive(r, i, c, k, h)
  PROVE  AbstractStep
<1>1. /\ phase[r] = "unsent"
      /\ req' = [req EXCEPT ![r] = [inst |-> i, client |-> c, key |-> k,
                                    hash |-> h]]
      /\ UNCHANGED <<outcome, completed, inFlight>>
      /\ UNCHANGED reply \/ reply' = [reply EXCEPT ![r] = Failure(429)]
  BY DEF Receive, Answer, Goto
<1>2. \A q \in Requests : q # r => req'[q] = req[q]
  BY <1>1 DEF IInv, TypeOK
<1>3. ~Live(r)
  BY <1>1 DEF Live
<1>4. \A j \in Instances, l \in Keys : AbstractSlot(j, l)
  BY <1>1, <1>2, <1>3, SlotStays DEF AbstractSlot
<1>5. AbstractProduce
  BY <1>1 DEF AbstractProduce, Produced
<1>6. req[r] = NotSent /\ reply[r] = NoBody
  BY <1>1 DEF RefinementInv, NothingYet
<1>7. \A q \in Requests :
        reply'[q] = reply[q] \/ (q = r /\ reply'[q] = Failure(429))
  <2>1. reply \in [Requests -> Body \cup {NoBody}]
    BY DEF IInv, TypeOK
  <2>2. QED
    BY <1>1, <2>1
<1>8. Failure(429).status # 201
  BY FailureIsBody
<1>9. \A q \in Requests : AbstractAsk(q) /\ AbstractTell(q)
  BY <1>2, <1>6, <1>7, <1>8 DEF AbstractAsk, AbstractTell
<1>10. QED
  BY <1>4, <1>5, <1>9 DEF AbstractStep

LEMMA DecideIsAbstract ==
  ASSUME IInv, RefinementInv, NEW r \in Requests, Decide(r)
  PROVE  AbstractStep
<1>i. PICK i, k : i = req[r].inst /\ k = req[r].key
  OBVIOUS
<1>1. phase[r] = "reading"
  BY DEF Decide, AnswerFromRecord, JoinInFlight, StartPublish
<1>2. i \in Instances /\ k \in Keys /\ req[r].hash \in Hashes
  BY <1>i, <1>1 DEF IInv, SentIsTyped, Asked
<1>3. Failure(409).status # 201
  BY FailureIsBody
<1>4. CASE AnswerFromRecord(r)
  <2> DEFINE rec == RecordOf(i, k)
             b == IF rec.hash = req[r].hash THEN rec.result ELSE Failure(409)
  <2>1. /\ Remembers(i, k) /\ Answer(r, b)
        /\ UNCHANGED <<req, outcome, completed, inFlight>>
    BY <1>i, <1>4 DEF AnswerFromRecord
  <2>2. PICK n \in DOMAIN completed[i] : rec = completed[i][n] /\ rec.key = k
    BY <2>1, RecordIsFound
  <2>3. /\ rec.result \in Produced
        /\ rec.key = rec.result.key /\ rec.hash = rec.result.hash
    BY <1>2, <2>2 DEF RefinementInv, RecordIsProduced, IInv, RecordIsBacked
  <2>4. b.status = 201 =>
          b \in Produced /\ b.key = req[r].key /\ b.hash = req[r].hash
    BY <1>i, <1>3, <2>2, <2>3
  <2> HIDE DEF b
  <2>5. QED
    BY <1>1, <2>1, <2>4, AnswerIsAbstract
<1>5. CASE JoinInFlight(r)
  <2>1. /\ UNCHANGED <<req, outcome, completed, inFlight>>
        /\ UNCHANGED reply \/ Answer(r, Failure(409))
    BY <1>5 DEF JoinInFlight
  <2>2. CASE Answer(r, Failure(409))
    BY <1>1, <1>3, <2>1, <2>2, AnswerIsAbstract
  <2>3. CASE UNCHANGED reply
    <3>1. \A j \in Instances, l \in Keys : AbstractSlot(j, l)
      BY <2>1, SlotStays DEF AbstractSlot
    <3>2. QED
      BY <2>1, <2>3, <3>1
      DEF AbstractStep, AbstractProduce, Produced, AbstractAsk, AbstractTell
  <2>4. QED
    BY <2>1, <2>2, <2>3
<1>6. CASE StartPublish(r)
  <2>1. /\ ~Remembers(i, k) /\ inFlight[i][k] = None
        /\ inFlight' = [inFlight EXCEPT ![i][k] = r]
        /\ UNCHANGED <<req, outcome, reply, completed>>
    BY <1>i, <1>6 DEF StartPublish
  <2>2. Slot(i, k) = Abstract!Free
    BY <2>1 DEF Slot, Abstract!Free
  <2>3. \A j \in Instances, l \in Keys :
          inFlight'[j][l] = IF j = i /\ l = k THEN r ELSE inFlight[j][l]
    BY <1>2, <2>1 DEF IInv, TypeOK
  <2>4. Slot(i, k)' = Abstract!Pending(req[r].hash)
    <3>1. ~Remembers(i, k)' /\ inFlight'[i][k] = r /\ r # None
      BY <1>2, <2>1, <2>3, RelayAssumption DEF Remembers
    <3>2. QED
      BY <2>1, <3>1 DEF Slot, Abstract!Pending
  <2>5. \A j \in Instances, l \in Keys : AbstractSlot(j, l)
    <3> SUFFICES ASSUME NEW j \in Instances, NEW l \in Keys
                 PROVE  AbstractSlot(j, l)
      OBVIOUS
    <3>1. CASE j = i /\ l = k
      BY <1>2, <2>2, <2>4, <3>1 DEF AbstractSlot
    <3>2. CASE ~(j = i /\ l = k)
      BY <2>1, <2>3, <3>2, SlotStays DEF AbstractSlot
    <3>3. QED
      BY <3>1, <3>2
  <2>6. QED
    BY <2>1, <2>5
    DEF AbstractStep, AbstractProduce, Produced, AbstractAsk, AbstractTell
<1>7. QED
  BY <1>4, <1>5, <1>6 DEF Decide

\* An execution comes to its outcome: a failure, or the result it produces.
LEMMA OutcomeIsAbstract ==
  ASSUME IInv, RefinementInv, NEW r \in Requests,
         phase[r] \in {"publishing", "recording"}, NEW b,
         b.status = 201 => b.key = req[r].key /\ b.hash = req[r].hash,
         outcome' = [outcome EXCEPT ![r] = b],
         UNCHANGED <<req, reply, completed, inFlight>>
  PROVE  AbstractStep
<1>1. \A i \in Instances, k \in Keys : AbstractSlot(i, k)
  BY SlotStays DEF AbstractSlot
<1>2. outcome[r] = NoBody
  BY DEF RefinementInv, NothingYet
<1>3. \A q \in Requests : outcome'[q] = IF q = r THEN b ELSE outcome[q]
  BY DEF IInv, TypeOK
<1>4. Produced \subseteq Produced'
  BY <1>2, <1>3 DEF Produced, NoBody
<1>5. \A p \in Produced' \ Produced : p = b /\ b.status = 201
  BY <1>3 DEF Produced
<1>6. /\ req[r].inst \in Instances /\ req[r].key \in Keys
      /\ Slot(req[r].inst, req[r].key) = Abstract!Pending(req[r].hash)
  BY LiveIsPending DEF Live
<1>7. AbstractProduce
  BY <1>4, <1>5, <1>6 DEF AbstractProduce, Abstract!Pending
<1>8. QED
  BY <1>1, <1>7 DEF AbstractStep, AbstractAsk, AbstractTell

LEMMA SettleIsAbstract ==
  ASSUME IInv, RefinementInv, RefinementInv', NEW r \in Requests, Settle(r)
  PROVE  AbstractStep
<1>i. PICK i, k : i = req[r].inst /\ k = req[r].key
  OBVIOUS
<1> DEFINE rec == [key |-> k, hash |-> req[r].hash, result |-> outcome[r]]
<1>1. /\ i \in Instances /\ k \in Keys
      /\ phase[r] = "settled" /\ ~Remembers(i, k)
      /\ reply' = [reply EXCEPT ![r] = outcome[r]]
      /\ UNCHANGED <<req, outcome>>
      /\ \A j \in Instances, l \in Keys :
           inFlight'[j][l] = IF j = i /\ l = k THEN None ELSE inFlight[j][l]
      /\ \A j \in Instances : j # i => completed'[j] = completed[j]
      /\ outcome[r].status # 201 => completed' = completed
      /\ outcome[r].status = 201 =>
           /\ rec \in Record
           /\ completed'[i] = Capped(Append(completed[i], rec), CompletedCap)
  BY <1>i, SettleEffect
<1>2. Slot(i, k) = Abstract!Pending(req[r].hash)
  BY <1>i, <1>1, LiveIsPending DEF Live
<1>3. outcome[r].status = 201 =>
        /\ outcome[r] \in Produced
        /\ outcome[r].key = k /\ outcome[r].hash = req[r].hash
  BY <1>i DEF Produced, IInv, OutcomeIsBacked, AsksFor
<1>4. \A q \in Requests : AbstractAsk(q) /\ AbstractTell(q)
  <2>1. reply[r] = NoBody
    BY <1>1 DEF RefinementInv, NothingYet
  <2>2. \A q \in Requests : reply'[q] = IF q = r THEN outcome[r] ELSE reply[q]
    BY <1>1 DEF IInv, TypeOK
  <2>3. QED
    BY <1>i, <1>1, <1>3, <2>1, <2>2 DEF AbstractAsk, AbstractTell
<1>5. AbstractProduce
  BY <1>1 DEF AbstractProduce, Produced
<1>6. \A j \in Instances, l \in Keys : j # i => AbstractSlot(j, l)
  BY <1>1, SlotStays DEF AbstractSlot
<1>7. CASE outcome[r].status # 201
  <2>1. ~Remembers(i, k)' /\ inFlight'[i][k] = None
    BY <1>1, <1>7 DEF Remembers
  <2>2. Slot(i, k)' = Abstract!Free
    BY <2>1 DEF Slot, Abstract!Free
  <2>3. \A l \in Keys : l # k => AbstractSlot(i, l)
    BY <1>1, <1>7, SlotStays DEF AbstractSlot
  <2>4. AbstractSlot(i, k)
    BY <2>2 DEF AbstractSlot
  <2>5. QED
    BY <1>4, <1>5, <1>6, <2>3, <2>4 DEF AbstractStep
<1>8. CASE outcome[r].status = 201
  <2> DEFINE s == completed[i]
             t == completed'[i]
  <2>1. s \in Seq(Record) /\ DOMAIN s = 1..Len(s) /\ Len(s) \in Nat
    BY <1>1 DEF IInv, TypeOK
  <2>2. PICK d \in {0, 1} :
          /\ DOMAIN t = 1..(Len(s) + 1 - d)
          /\ Len(s) + 1 - d \in DOMAIN t
          /\ t[Len(s) + 1 - d] = rec
          /\ \A n \in 1..(Len(s) - d) : t[n] = s[n + d] /\ n + d \in DOMAIN s
    <3>1. CompletedCap \in Nat \ {0}
      BY RelayAssumption
    <3>2. rec \in Record /\ t = Capped(Append(s, rec), CompletedCap)
      BY <1>1, <1>8
    <3> HIDE DEF s, t, rec
    <3>3. QED
      BY <2>1, <3>1, <3>2, CappedAppend
  <2>3. \A n \in DOMAIN t : n = Len(s) + 1 - d \/ n \in 1..(Len(s) - d)
    BY <2>1, <2>2
  <2>4. \A m, n \in DOMAIN s : s[m].key = s[n].key => m = n
    BY <1>1 DEF RefinementInv, OneRecordPerKey
  <2>5. \A m, n \in DOMAIN t : t[m].key = t[n].key => m = n
    BY <1>1 DEF RefinementInv, OneRecordPerKey
  <2>6. rec.key = k /\ rec.hash = req[r].hash /\ rec.result = outcome[r]
    OBVIOUS
  <2> HIDE DEF rec
  <2>7. \A l \in Keys : Remembers(i, l)' => \E n \in DOMAIN t :
          t[n].key = l /\ RecordOf(i, l)' = t[n]
    BY DEF Remembers, RecordOf
  <2>8. AbstractSlot(i, k)
    <3>1. Remembers(i, k)'
      BY <2>2, <2>6 DEF Remembers
    <3>2. RecordOf(i, k)' = rec
      <4>1. PICK n \in DOMAIN t : t[n].key = k /\ RecordOf(i, k)' = t[n]
        BY <1>1, <2>7, <3>1
      <4>2. n = Len(s) + 1 - d
        BY <2>2, <2>5, <2>6, <4>1
      <4>3. QED
        BY <2>2, <4>1, <4>2
    <3>3. Slot(i, k)' = Abstract!Done(req[r].hash, outcome[r])
      BY <2>6, <3>1, <3>2 DEF Slot, Abstract!Done
    <3>4. QED
      BY <1>2, <1>3, <1>8, <3>3 DEF AbstractSlot, Abstract!Pending
  <2>9. ASSUME NEW l \in Keys, l # k PROVE AbstractSlot(i, l)
    <3>1. inFlight'[i][l] = inFlight[i][l]
      BY <1>1, <2>9
    <3>2. CASE Remembers(i, l)'
      <4>1. PICK n \in DOMAIN t : t[n].key = l /\ RecordOf(i, l)' = t[n]
        BY <2>7, <3>2
      <4>2. t[n] = s[n + d] /\ n + d \in DOMAIN s
        BY <2>2, <2>3, <2>6, <2>9, <4>1
      <4>3. Remembers(i, l)
        BY <4>1, <4>2 DEF Remembers
      <4>4. PICK m \in DOMAIN s : RecordOf(i, l) = s[m] /\ s[m].key = l
        BY <4>3, RecordIsFound
      <4>5. m = n + d
        BY <2>4, <4>1, <4>2, <4>4
      <4>6. RecordOf(i, l)' = RecordOf(i, l)
        BY <4>1, <4>2, <4>4, <4>5
      <4>7. Slot(i, l)' = Slot(i, l)
        BY <3>2, <4>3, <4>6 DEF Slot
      <4>8. QED
        BY <4>7 DEF AbstractSlot
    <3>3. CASE ~Remembers(i, l)' /\ Remembers(i, l)
      <4>1. inFlight'[i][l] = None
        BY <1>1, <3>1, <3>3 DEF RefinementInv, RememberedIsAtRest
      <4>2. Slot(i, l)' = Abstract!Free
        BY <3>3, <4>1 DEF Slot, Abstract!Free
      <4>3. QED
        BY <4>2 DEF AbstractSlot
    <3>4. CASE ~Remembers(i, l)' /\ ~Remembers(i, l)
      <4>1. Slot(i, l)' = Slot(i, l)
        BY <1>1, <3>1, <3>4 DEF Slot
      <4>2. QED
        BY <4>1 DEF AbstractSlot
    <3>5. QED
      BY <3>2, <3>3, <3>4
  <2>10. QED
    BY <1>4, <1>5, <1>6, <2>8, <2>9 DEF AbstractStep
<1>9. QED
  BY <1>7, <1>8

LEMMA RestartIsAbstract ==
  ASSUME IInv, RefinementInv, NEW i \in Instances, Restart(i)
  PROVE  AbstractStep
<1>1. /\ UNCHANGED <<req, outcome, reply>>
      /\ \A j \in Instances :
           /\ completed'[j] = IF j = i THEN <<>> ELSE completed[j]
           /\ \A k \in Keys : inFlight'[j][k] = IF j = i THEN None ELSE inFlight[j][k]
  BY DEF Restart, IInv, TypeOK
<1>2. \A k \in Keys : AbstractSlot(i, k)
  <2> SUFFICES ASSUME NEW k \in Keys PROVE Slot(i, k)' = Abstract!Free
    BY DEF AbstractSlot
  <2>1. ~Remembers(i, k)' /\ inFlight'[i][k] = None
    BY <1>1 DEF Remembers
  <2>2. QED
    BY <2>1 DEF Slot, Abstract!Free
<1>3. \A j \in Instances, k \in Keys : j # i => AbstractSlot(j, k)
  BY <1>1, SlotStays DEF AbstractSlot
<1>4. QED
  BY <1>1, <1>2, <1>3
  DEF AbstractStep, AbstractProduce, Produced, AbstractAsk, AbstractTell

\* Every step of the relay is one of the abstract endpoint.
LEMMA StepIsAbstract ==
  IInv /\ RefinementInv /\ [Next]_vars => AbstractStep
<1> SUFFICES ASSUME IInv, RefinementInv, [Next]_vars PROVE AbstractStep
  OBVIOUS
<1>1. ASSUME UNCHANGED <<req, outcome, reply, completed, inFlight>>
      PROVE  AbstractStep
  <2>1. \A i \in Instances, k \in Keys : AbstractSlot(i, k)
    BY <1>1, SlotStays DEF AbstractSlot
  <2>2. QED
    BY <1>1, <2>1
    DEF AbstractStep, AbstractProduce, Produced, AbstractAsk, AbstractTell
<1>2. ASSUME NEW r \in Requests, NEW i \in Instances, NEW c \in Clients,
             NEW k \in Keys, NEW h \in Hashes, Receive(r, i, c, k, h)
      PROVE  AbstractStep
  BY <1>2, ReceiveIsAbstract
<1>3. ASSUME NEW r \in Requests, RejectBody(r) PROVE AbstractStep
  BY <1>3, AnswerIsAbstract, FailureIsBody DEF RejectBody
<1>4. ASSUME NEW r \in Requests, Decide(r) PROVE AbstractStep
  BY <1>4, DecideIsAbstract
<1>5. ASSUME NEW r \in Requests, Progress(r) PROVE AbstractStep
  <2>1. CASE PublisherReturns(r)
    BY <1>1, <2>1 DEF PublisherReturns
  <2>2. CASE PublisherFails(r)
    <3>1. PICK b \in {Failure(502), Failure(504)} :
            outcome' = [outcome EXCEPT ![r] = b]
      BY <2>2 DEF PublisherFails
    <3>2. /\ phase[r] = "publishing"
          /\ UNCHANGED <<req, reply, completed, inFlight>>
      BY <2>2 DEF PublisherFails
    <3>3. b.status # 201
      BY FailureIsBody
    <3>4. QED
      BY <3>1, <3>2, <3>3, OutcomeIsAbstract
  <2>3. CASE WriteLookup(r)
    <3>1. PICK written \in BOOLEAN : outcome' = [outcome EXCEPT ![r] = Published(r, written)]
      BY <2>3 DEF WriteLookup
    <3>2. /\ phase[r] = "recording"
          /\ UNCHANGED <<req, reply, completed, inFlight>>
      BY <2>3 DEF WriteLookup
    <3>3. /\ Published(r, written).key = req[r].key
          /\ Published(r, written).hash = req[r].hash
      BY DEF Published
    <3>4. QED
      BY <3>1, <3>2, <3>3, OutcomeIsAbstract
  <2>4. CASE Settle(r)
    BY <2>4, SettleIsAbstract, SettleKeepsRefinementInv
  <2>5. CASE ResumeJoined(r)
    <3> DEFINE o == joined[r]
    <3>1. /\ phase[r] = "waiting" /\ Answer(r, outcome[o])
          /\ UNCHANGED <<req, outcome, completed, inFlight>>
      BY <2>5 DEF ResumeJoined
    <3>2. o \in Requests /\ AsksFor(o, req[r].key, req[r].hash)
      BY <3>1 DEF IInv, JoinedAsksTheSame
    <3>3. outcome[o].status = 201 =>
            /\ outcome[o] \in Produced
            /\ outcome[o].key = req[r].key /\ outcome[o].hash = req[r].hash
      BY <3>2 DEF Produced, IInv, OutcomeIsBacked, AsksFor
    <3>4. QED
      BY <3>1, <3>3, AnswerIsAbstract
  <2>6. QED
    BY <1>5, <2>1, <2>2, <2>3, <2>4, <2>5 DEF Progress
<1>6. ASSUME NEW i \in Instances, Restart(i) PROVE AbstractStep
  BY <1>6, RestartIsAbstract
<1>7. CASE \/ \E r \in Requests : Deploy(r)
           \/ Tick
           \/ UNCHANGED vars
  BY <1>1, <1>7 DEF Deploy, Tick, vars
<1>8. QED
  BY <1>2, <1>3, <1>4, <1>5, <1>6, <1>7 DEF Next

LEMMA InitIsAbstract == Init => Abstract!Init
<1> SUFFICES ASSUME Init PROVE Abstract!Init
  OBVIOUS
<1>1. \A i \in Instances, k \in Keys : Slot(i, k) = Abstract!Free
  BY DEF Init, Slot, Remembers, Abstract!Free
<1>2. Produced = {}
  BY DEF Init, Produced, NoBody
<1>3. \A r \in Requests : reply[r] = NoBody /\ req[r] = NotSent
  BY DEF Init
<1>4. QED
  BY <1>1, <1>2, <1>3 DEF Abstract!Init, NotSent, NoBody

(***************************************************************************)
(* The relay implements the idempotent endpoint: whatever its handlers     *)
(* await, whatever fails, is evicted or dies, a key of an instance passes  *)
(* from nothing to one artifact to its result and never straight to        *)
(* another, and callers are told nothing but a result that was produced    *)
(* for the key and the artifact they sent.                                 *)
(***************************************************************************)
THEOREM RelayImplementsIdempotentPublish == Spec => ImplementsIdempotentPublish
<1>1. IInv /\ RefinementInv /\ [Next]_vars => [Abstract!Next]_Abstract!vars
  BY StepIsAbstract, AbstractStepIsNext
<1>2. QED
  BY InitIInv, InitRefinementInv, InitIsAbstract, NextKeepsIInv,
     NextKeepsRefinementInv, <1>1, PTL
  DEF Spec, ImplementsIdempotentPublish, Abstract!Spec
-----------------------------------------------------------------------------
(***************************************************************************)
(* Of one instance: the keys in a capped map against the history of what   *)
(* was recorded, as sequences, so that a step is one more event.           *)
(***************************************************************************)
KeyIn(c, k) == \E n \in DOMAIN c : c[n].key = k

StillKept(h, c) ==
  \A m \in DOMAIN h :
    h[m].step = "record" =>
      \/ KeyIn(c, h[m].key)
      \/ Cardinality(RecordedBetween(h, m, Len(h)) \ {h[m].key}) >= CompletedCap

InOrder(h, c) ==
  \A p, q \in DOMAIN c, m \in DOMAIN h :
    p < q /\ h[m].step = "record" /\ h[m].key = c[p].key
    => c[q].key \in RecordedBetween(h, m, Len(h))

OnlyAfterEviction(h) ==
  \A m, n \in DOMAIN h :
    m < n /\ h[m].step = "record" /\ h[n].key = h[m].key
    => Cardinality(RecordedBetween(h, m, n - 1) \ {h[m].key}) >= CompletedCap

Consistent(h, c) == StillKept(h, c) /\ InOrder(h, c) /\ OnlyAfterEviction(h)

\* The invariant is that of each instance.
LEMMA EvictionInvIs ==
  EvictionInv <=> \A i \in Instances : Consistent(published[i], completed[i])
BY DEF EvictionInv, KeptOrPushedOut, RecordsInOrder, RepublishOnlyAfterEviction, Consistent,
   StillKept, InOrder, OnlyAfterEviction, KeyIn, Remembers, RecordedAfter, IsRecord

\* The same of the next state.
LEMMA EvictionInvNext ==
  EvictionInv' <=> \A i \in Instances : Consistent(published'[i], completed'[i])
BY DEF EvictionInv, KeptOrPushedOut, RecordsInOrder, RepublishOnlyAfterEviction, Consistent,
   StillKept, InOrder, OnlyAfterEviction, KeyIn, Remembers, RecordedAfter, IsRecord

\* The longer history g: the events up to n are those of h; the last one, e,
\* adds its key if it is a record.
Longer(g, h, e) ==
  /\ Len(h) \in Nat /\ DOMAIN h = 1..Len(h) /\ Len(g) = Len(h) + 1
  /\ DOMAIN g = 1..(Len(h) + 1) /\ g[Len(h) + 1] = e
  /\ \A m \in 1..Len(h) : g[m] = h[m]
  /\ \A m \in 1..Len(h), n \in 0..Len(h) : RecordedBetween(g, m, n) = RecordedBetween(h, m, n)
  /\ \A m \in 1..Len(h) :
       RecordedBetween(g, m, Len(h) + 1) =
         RecordedBetween(h, m, Len(h)) \cup (IF e.step = "record" THEN {e.key} ELSE {})

\* One more event leaves what was recorded between earlier ones as it was.
LEMMA BetweenGrows ==
  ASSUME NEW h \in Seq(PublishEvent), NEW e \in PublishEvent
  PROVE  Longer(Append(h, e), h, e)
<1>g. PICK g : g = Append(h, e)
  OBVIOUS
<1>1. /\ Len(h) \in Nat /\ DOMAIN h = 1..Len(h) /\ Len(g) = Len(h) + 1
      /\ DOMAIN g = 1..(Len(h) + 1) /\ g[Len(h) + 1] = e
      /\ \A m \in 1..Len(h) : g[m] = h[m]
  BY <1>g
<1>2. ASSUME NEW m \in 1..Len(h), NEW n \in 0..Len(h)
      PROVE  RecordedBetween(g, m, n) = RecordedBetween(h, m, n)
  <2>1. \A q \in m..n : g[q] = h[q]
    BY <1>1
  <2> QED
    BY <2>1 DEF RecordedBetween
<1>3. ASSUME NEW m \in 1..Len(h)
      PROVE  RecordedBetween(g, m, Len(h) + 1) =
               RecordedBetween(h, m, Len(h)) \cup (IF e.step = "record" THEN {e.key} ELSE {})
  <2>1. m..(Len(h) + 1) = (m..Len(h)) \cup {Len(h) + 1}
    BY <1>1
  <2>2. \A q \in m..Len(h) : g[q] = h[q]
    BY <1>1
  <2> QED
    BY <1>1, <2>1, <2>2 DEF RecordedBetween
<1>4. Longer(g, h, e)
  BY <1>1, <1>2, <1>3 DEF Longer
<1> QED
  BY <1>g, <1>4

\* Only so many keys are recorded.
LEMMA BetweenIsFinite ==
  ASSUME NEW h, NEW m \in Int, NEW n \in Int
  PROVE  IsFiniteSet(RecordedBetween(h, m, n))
<1>1. PICK S, T : S = {p \in m..n : h[p].step = "record"} /\ T = {h[q].key : q \in S}
  OBVIOUS
<1>2. PICK f : f = [q \in S |-> h[q].key]
  OBVIOUS
<1>3. IsFiniteSet(S)
  BY <1>1, FS_Interval, FS_Subset
<1>4. f \in Surjection(S, T)
  BY <1>1, <1>2 DEF Surjection
<1>5. IsFiniteSet(T)
  BY <1>3, <1>4, FS_Surjection
<1> QED
  BY <1>1, <1>5 DEF RecordedBetween

\* An event of a key that is not remembered finds as many others recorded as
\* are kept since each record of the key.
LEMMA NextEventIsAfterEviction ==
  ASSUME NEW h \in Seq(PublishEvent), NEW e \in PublishEvent, NEW c,
         Consistent(h, c), ~KeyIn(c, e.key)
  PROVE  OnlyAfterEviction(Append(h, e))
<1>1. PICK g : g = Append(h, e)
  OBVIOUS
<1>g. Longer(g, h, e)
  BY <1>1, BetweenGrows
<1>2. /\ Len(h) \in Nat /\ DOMAIN h = 1..Len(h)
      /\ DOMAIN g = 1..(Len(h) + 1) /\ g[Len(h) + 1] = e
      /\ \A m \in 1..Len(h) : g[m] = h[m]
      /\ \A m \in 1..Len(h), n \in 0..Len(h) : RecordedBetween(g, m, n) = RecordedBetween(h, m, n)
  BY <1>g DEF Longer
<1>3. ASSUME NEW m \in DOMAIN g, NEW n \in DOMAIN g,
             m < n, g[m].step = "record", g[n].key = g[m].key
      PROVE  Cardinality(RecordedBetween(g, m, n - 1) \ {g[m].key}) >= CompletedCap
  <2>1. m \in 1..Len(h) /\ n - 1 \in 0..Len(h) /\ g[m] = h[m]
    BY <1>2, <1>3
  <2>2. RecordedBetween(g, m, n - 1) = RecordedBetween(h, m, n - 1)
    BY <1>2, <2>1
  <2>3. CASE n \in 1..Len(h)
    <3>1. g[n] = h[n] /\ n \in DOMAIN h /\ m \in DOMAIN h
      BY <1>2, <2>1, <2>3
    <3>2. Cardinality(RecordedBetween(h, m, n - 1) \ {h[m].key}) >= CompletedCap
      BY <1>3, <2>1, <3>1 DEF Consistent, OnlyAfterEviction
    <3> QED
      BY <2>1, <2>2, <3>2
  <2>4. CASE n = Len(h) + 1
    <3>1. h[m].key = e.key /\ h[m].step = "record" /\ m \in DOMAIN h /\ n - 1 = Len(h)
      BY <1>2, <1>3, <2>1, <2>4
    <3>2. Cardinality(RecordedBetween(h, m, Len(h)) \ {h[m].key}) >= CompletedCap
      BY <3>1 DEF Consistent, StillKept
    <3> QED
      BY <2>1, <2>2, <3>1, <3>2
  <2> QED
    BY <1>2, <2>3, <2>4
<1> QED
  BY <1>1, <1>3 DEF OnlyAfterEviction

\* The start of a publish of a key that is not remembered.
LEMMA StartIsConsistent ==
  ASSUME NEW h \in Seq(PublishEvent), NEW e \in PublishEvent, e.step = "start", NEW c,
         Consistent(h, c), ~KeyIn(c, e.key)
  PROVE  Consistent(Append(h, e), c)
<1>1. PICK g : g = Append(h, e)
  OBVIOUS
<1>g. Longer(g, h, e)
  BY <1>1, BetweenGrows
<1>2. /\ Len(h) \in Nat /\ DOMAIN h = 1..Len(h) /\ Len(g) = Len(h) + 1
      /\ DOMAIN g = 1..(Len(h) + 1) /\ g[Len(h) + 1] = e
      /\ \A m \in 1..Len(h) : g[m] = h[m]
      /\ \A m \in 1..Len(h) : RecordedBetween(g, m, Len(h) + 1) = RecordedBetween(h, m, Len(h))
  BY <1>g DEF Longer
<1>3. ASSUME NEW m \in DOMAIN g, g[m].step = "record"
      PROVE  /\ m \in DOMAIN h /\ h[m] = g[m]
             /\ RecordedBetween(g, m, Len(g)) = RecordedBetween(h, m, Len(h))
  <2>1. m \in 1..Len(h)
    BY <1>2, <1>3
  <2> QED
    BY <1>2, <2>1
<1>4. StillKept(g, c)
  BY <1>3 DEF Consistent, StillKept
<1>5. InOrder(g, c)
  BY <1>3 DEF Consistent, InOrder
<1> QED
  BY <1>1, <1>4, <1>5, NextEventIsAfterEviction DEF Consistent

\* When the oldest of full records goes, the others and the new one are of as
\* many keys as are kept, each recorded after the oldest one's.
LEMMA PushedOut ==
  ASSUME NEW t, NEW k, NEW K, IsFiniteSet(K), NEW cap \in Nat, DOMAIN t = 1..cap,
         \A p, q \in DOMAIN t : t[p].key = t[q].key => p = q,
         \A p \in DOMAIN t : t[p].key \in K /\ t[p].key # k
  PROVE  Cardinality(K \ {k}) >= cap
<1>1. PICK f : f = [n \in 1..cap |-> t[n].key]
  OBVIOUS
<1>2. PICK L : L = K \ {k}
  OBVIOUS
<1>3. f \in Injection(1..cap, L)
  BY <1>1, <1>2 DEF Injection, IsInjective
<1>4. IsFiniteSet(L)
  BY <1>2, FS_Subset
<1>5. Cardinality(1..cap) = cap
  BY FS_Interval
<1>6. Cardinality(1..cap) <= Cardinality(L)
  BY <1>3, <1>4, FS_Injection
<1> QED
  BY <1>2, <1>5, <1>6

\* The record of a key that is not remembered, with or without the oldest
\* record going.
LEMMA RecordIsConsistent ==
  ASSUME NEW h \in Seq(PublishEvent), NEW e \in PublishEvent, e.step = "record",
         NEW c \in Seq(Record), Len(c) <= CompletedCap, NEW rec \in Record, rec.key = e.key,
         \A m, n \in DOMAIN c : c[m].key = c[n].key => m = n,
         Consistent(h, c), ~KeyIn(c, e.key)
  PROVE  Consistent(Append(h, e), Capped(Append(c, rec), CompletedCap))
<1>1. PICK g, t, k, L, N : /\ g = Append(h, e) /\ k = e.key /\ L = Len(h) /\ N = Len(c)
                           /\ t = Capped(Append(c, rec), CompletedCap)
  OBVIOUS
<1>g. Longer(g, h, e)
  BY <1>1, BetweenGrows
<1>2. /\ L \in Nat /\ DOMAIN h = 1..L /\ Len(g) = L + 1
      /\ DOMAIN g = 1..(L + 1) /\ g[L + 1] = e
      /\ \A m \in 1..L : g[m] = h[m]
      /\ \A m \in 1..L : RecordedBetween(g, m, L + 1) = RecordedBetween(h, m, L) \cup {k}
  BY <1>1, <1>g DEF Longer
<1>3. N \in Nat /\ N <= CompletedCap /\ CompletedCap \in Nat \ {0} /\ DOMAIN c = 1..N
  BY <1>1, RelayAssumption
<1>4. PICK d \in {0, 1} :
        /\ d = IF N + 1 > CompletedCap THEN 1 ELSE 0
        /\ DOMAIN t = 1..(N + 1 - d) /\ N + 1 - d \in DOMAIN t /\ t[N + 1 - d] = rec
        /\ \A n \in 1..(N - d) : t[n] = c[n + d] /\ n + d \in DOMAIN c
  BY <1>1, <1>3, CappedAppend
<1>5. \A n \in DOMAIN t : n = N + 1 - d \/ n \in 1..(N - d)
  BY <1>3, <1>4
<1>6. \A n \in DOMAIN c : c[n].key # k
  BY <1>1 DEF KeyIn
<1>7. \A m \in DOMAIN g : m = L + 1 \/ (m \in DOMAIN h /\ g[m] = h[m])
  BY <1>2
<1>8. t[N + 1 - d].key = k
  BY <1>1, <1>4
<1>9. \A p, q \in DOMAIN t : t[p].key = t[q].key => p = q
  <2> SUFFICES ASSUME NEW p \in DOMAIN t, NEW q \in DOMAIN t, t[p].key = t[q].key PROVE p = q
    OBVIOUS
  <2>1. CASE p = N + 1 - d
    BY <1>4, <1>5, <1>6, <1>8, <2>1
  <2>2. CASE q = N + 1 - d
    BY <1>4, <1>5, <1>6, <1>8, <2>2
  <2>3. CASE p \in 1..(N - d) /\ q \in 1..(N - d)
    <3>1. c[p + d].key = c[q + d].key /\ p + d \in DOMAIN c /\ q + d \in DOMAIN c
      BY <1>4, <2>3
    <3>2. p + d = q + d
      BY <3>1
    <3> QED
      BY <1>3, <2>3, <3>2
  <2> QED
    BY <1>5, <2>1, <2>2, <2>3
<1>10. ASSUME NEW p \in DOMAIN t, NEW q \in DOMAIN t, NEW m \in DOMAIN g,
              p < q, g[m].step = "record", g[m].key = t[p].key
       PROVE  t[q].key \in RecordedBetween(g, m, Len(g))
  <2>1. p \in 1..(N - d) /\ t[p] = c[p + d] /\ p + d \in DOMAIN c
    BY <1>3, <1>4, <1>10
  <2>2. m \in 1..L /\ g[m] = h[m]
    BY <1>1, <1>2, <1>6, <1>7, <1>10, <2>1
  <2>3. RecordedBetween(g, m, Len(g)) = RecordedBetween(h, m, L) \cup {k}
    BY <1>2, <2>2
  <2>4. CASE q = N + 1 - d
    BY <1>8, <2>3, <2>4
  <2>5. CASE q \in 1..(N - d)
    <3>1. t[q] = c[q + d] /\ q + d \in DOMAIN c /\ p + d < q + d
      BY <1>3, <1>4, <1>10, <2>1, <2>5
    <3>2. c[q + d].key \in RecordedBetween(h, m, Len(h))
      BY <1>2, <1>10, <2>1, <2>2, <3>1 DEF Consistent, InOrder
    <3> QED
      BY <1>1, <2>3, <3>1, <3>2
  <2> QED
    BY <1>5, <2>4, <2>5
<1>11. ASSUME NEW m \in DOMAIN g, g[m].step = "record"
       PROVE  \/ KeyIn(t, g[m].key)
              \/ Cardinality(RecordedBetween(g, m, Len(g)) \ {g[m].key}) >= CompletedCap
  <2>1. CASE m = L + 1
    <3>1. g[m].key = k
      BY <1>1, <1>2, <2>1
    <3> QED
      BY <1>4, <1>8, <3>1 DEF KeyIn
  <2>2. CASE m \in DOMAIN h /\ g[m] = h[m]
    <3>1. RecordedBetween(g, m, Len(g)) = RecordedBetween(h, m, L) \cup {k}
      BY <1>2, <2>2
    <3>2. PICK K, K0, l : /\ l = g[m].key /\ K = RecordedBetween(g, m, Len(g))
                          /\ K0 = RecordedBetween(h, m, L)
      OBVIOUS
    <3>3. IsFiniteSet(K) /\ IsFiniteSet(K \ {l}) /\ K0 \ {l} \subseteq K \ {l}
      <4>1. m \in Int /\ Len(g) \in Int
        BY <1>2, <2>2
      <4>2. IsFiniteSet(K)
        BY <3>2, <4>1, BetweenIsFinite
      <4> QED
        BY <3>1, <3>2, <4>2, FS_Subset
    <3>4. CASE Cardinality(K0 \ {l}) >= CompletedCap
      <4>1. Cardinality(K0 \ {l}) <= Cardinality(K \ {l})
        BY <3>3, FS_Subset
      <4>2. IsFiniteSet(K0 \ {l})
        BY <3>3, FS_Subset
      <4>3. Cardinality(K0 \ {l}) \in Nat /\ Cardinality(K \ {l}) \in Nat
        BY <3>3, <4>2, FS_CardinalityType
      <4>4. Cardinality(K \ {l}) >= CompletedCap
        BY <1>3, <3>4, <4>1, <4>3
      <4> QED
        BY <3>2, <4>4
    <3>5. CASE KeyIn(c, l)
      <4>1. PICK n \in DOMAIN c : c[n].key = l
        BY <3>5 DEF KeyIn
      <4>2. CASE n - d \in 1..(N - d)
        <5>1. t[n - d] = c[(n - d) + d] /\ (n - d) + d = n /\ n - d \in DOMAIN t
          BY <1>3, <1>4, <4>1, <4>2
        <5>2. t[n - d].key = l
          BY <4>1, <5>1
        <5> QED
          BY <3>2, <5>1, <5>2 DEF KeyIn
      <4>3. CASE ~(n - d \in 1..(N - d))
        <5>1. d = 1 /\ n = 1 /\ N = CompletedCap
          BY <1>3, <1>4, <4>1, <4>3
        <5>2. DOMAIN t = 1..CompletedCap
          BY <1>3, <1>4, <5>1
        <5>3. ASSUME NEW p \in DOMAIN t PROVE t[p].key \in K /\ t[p].key # l
          <6>1. CASE p = N + 1 - d
            BY <1>6, <1>8, <3>1, <3>2, <4>1, <6>1
          <6>2. CASE p \in 1..(N - d)
            <7>1. t[p] = c[p + d] /\ p + d \in DOMAIN c /\ n < p + d /\ p + d # n
              BY <1>3, <1>4, <5>1, <6>2
            <7>2. c[p + d].key \in RecordedBetween(h, m, Len(h))
              BY <1>11, <2>2, <3>2, <4>1, <7>1 DEF Consistent, InOrder
            <7>3. c[p + d].key # l
              BY <4>1, <7>1
            <7> QED
              BY <1>1, <3>1, <3>2, <7>1, <7>2, <7>3
          <6> QED
            BY <1>5, <6>1, <6>2
        <5>4. Cardinality(K \ {l}) >= CompletedCap
          BY <1>3, <1>9, <3>3, <5>2, <5>3, PushedOut
        <5> QED
          BY <3>2, <5>4
      <4> QED
        BY <4>2, <4>3
    <3>6. KeyIn(c, h[m].key) \/ Cardinality(RecordedBetween(h, m, Len(h)) \ {h[m].key}) >= CompletedCap
      BY <1>11, <2>2 DEF Consistent, StillKept
    <3>7. KeyIn(c, l) \/ Cardinality(K0 \ {l}) >= CompletedCap
      BY <1>1, <2>2, <3>2, <3>6
    <3> QED
      BY <3>4, <3>5, <3>7
  <2> QED
    BY <1>7, <2>1, <2>2
<1>12. OnlyAfterEviction(g)
  BY <1>1, NextEventIsAfterEviction
<1>13. StillKept(g, t)
  BY <1>11 DEF StillKept
<1>14. InOrder(g, t)
  BY <1>10 DEF InOrder
<1>15. Consistent(g, t)
  BY <1>12, <1>13, <1>14 DEF Consistent
<1> QED
  BY <1>1, <1>15

\* A publish starts only when its key has no record: the record was pushed out.
LEMMA StartPublishKeepsEvictionInv ==
  ASSUME IInv, EvictionInv, NEW r \in Requests, StartPublish(r)
  PROVE  EvictionInv'
<1>1. PICK i, k, e : /\ i = req[r].inst /\ k = req[r].key
                     /\ e = [step |-> "start", key |-> k]
  OBVIOUS
<1>2. phase[r] = "reading" /\ ~Remembers(i, k) /\ Log(r, "start") /\ completed' = completed
  BY <1>1 DEF StartPublish
<1>3. i \in Instances /\ k \in Keys
  BY <1>1, <1>2 DEF IInv, SentIsTyped, Asked
<1>4. /\ published'[i] = Append(published[i], e)
      /\ \A j \in Instances : j # i => published'[j] = published[j]
  <2>1. req[r].inst \in Instances /\ req[r].key \in Keys /\ TypeOK
    BY <1>1, <1>3 DEF IInv
  <2>2. /\ published'[req[r].inst] =
             Append(published[req[r].inst], [step |-> "start", key |-> req[r].key])
        /\ \A j \in Instances : j # req[r].inst => published'[j] = published[j]
    BY <1>2, <2>1, LogIsTyped
  <2> QED
    BY <1>1, <2>2
<1>5. e \in PublishEvent /\ e.step = "start" /\ e.key = k /\ published[i] \in Seq(PublishEvent)
  BY <1>1, <1>3 DEF PublishEvent, IInv, TypeOK
<1>6. ~KeyIn(completed[i], e.key)
  BY <1>2, <1>5 DEF KeyIn, Remembers
<1>7. \A j \in Instances : Consistent(published[j], completed[j])
  BY EvictionInvIs
<1>8. Consistent(Append(published[i], e), completed[i])
  BY <1>3, <1>5, <1>6, <1>7, StartIsConsistent
<1>9. \A j \in Instances : Consistent(published'[j], completed'[j])
  BY <1>2, <1>4, <1>7, <1>8
<1> QED
  BY <1>9, EvictionInvNext

\* A publish that ends may store a record, and push the oldest one out.
LEMMA SettleKeepsEvictionInv ==
  ASSUME IInv, RefinementInv, EvictionInv, NEW r \in Requests, Settle(r)
  PROVE  EvictionInv'
<1>1. PICK i, k, e, rec : /\ i = req[r].inst /\ k = req[r].key
                          /\ e = [step |-> "record", key |-> k]
                          /\ rec = [key |-> k, hash |-> req[r].hash, result |-> outcome[r]]
  OBVIOUS
<1>2. /\ i \in Instances /\ k \in Keys /\ ~Remembers(i, k)
      /\ \A j \in Instances : j # i => completed'[j] = completed[j]
      /\ outcome[r].status # 201 => completed' = completed
      /\ outcome[r].status = 201 =>
           rec \in Record /\ completed'[i] = Capped(Append(completed[i], rec), CompletedCap)
  BY <1>1, SettleEffect
<1>3. \A j \in Instances : Consistent(published[j], completed[j])
  BY EvictionInvIs
<1>4. CASE outcome[r].status # 201
  <2>1. UNCHANGED <<published, completed>>
    BY <1>2, <1>4 DEF Settle
  <2>2. \A j \in Instances : Consistent(published'[j], completed'[j])
    BY <1>3, <2>1
  <2> QED
    BY <2>2, EvictionInvNext
<1>5. CASE outcome[r].status = 201
  <2>1. /\ published'[i] = Append(published[i], e)
        /\ \A j \in Instances : j # i => published'[j] = published[j]
    <3>1. req[r].inst \in Instances /\ req[r].key \in Keys /\ TypeOK
      BY <1>1, <1>2 DEF IInv
    <3>2. Log(r, "record")
      BY <1>5 DEF Settle
    <3>3. /\ published'[req[r].inst] =
               Append(published[req[r].inst], [step |-> "record", key |-> req[r].key])
          /\ \A j \in Instances : j # req[r].inst => published'[j] = published[j]
      BY <3>1, <3>2, LogIsTyped
    <3> QED
      BY <1>1, <3>3
  <2>2. /\ e \in PublishEvent /\ e.step = "record" /\ e.key = k /\ rec.key = k
        /\ published[i] \in Seq(PublishEvent) /\ completed[i] \in Seq(Record)
        /\ Len(completed[i]) <= CompletedCap
    BY <1>1, <1>2 DEF PublishEvent, IInv, TypeOK
  <2>3. ~KeyIn(completed[i], e.key)
    BY <1>2, <2>2 DEF KeyIn, Remembers
  <2>4. \A m, n \in DOMAIN completed[i] : completed[i][m].key = completed[i][n].key => m = n
    BY <1>2 DEF RefinementInv, OneRecordPerKey
  <2>5. Consistent(Append(published[i], e), Capped(Append(completed[i], rec), CompletedCap))
    <3>1. PICK h, c : h = published[i] /\ c = completed[i]
      OBVIOUS
    <3>2. /\ h \in Seq(PublishEvent) /\ e \in PublishEvent /\ e.step = "record"
          /\ c \in Seq(Record) /\ Len(c) <= CompletedCap /\ rec \in Record /\ rec.key = e.key
          /\ \A m, n \in DOMAIN c : c[m].key = c[n].key => m = n
          /\ Consistent(h, c) /\ ~KeyIn(c, e.key)
      BY <1>2, <1>3, <1>5, <2>2, <2>3, <2>4, <3>1
    <3>3. Consistent(Append(h, e), Capped(Append(c, rec), CompletedCap))
      BY <3>2, RecordIsConsistent, SMTT(30)
    <3> QED
      BY <3>1, <3>3
  <2>6. \A j \in Instances : Consistent(published'[j], completed'[j])
    <3>1. Consistent(published'[i], completed'[i])
      BY <1>2, <1>5, <2>1, <2>5
    <3>2. \A j \in Instances : j # i => Consistent(published'[j], completed'[j])
      BY <1>2, <1>3, <2>1
    <3> QED
      BY <3>1, <3>2
  <2> QED
    BY <2>6, EvictionInvNext
<1> QED
  BY <1>4, <1>5

\* An instance that starts afresh has nothing recorded and nothing to remember.
LEMMA NothingIsConsistent == Consistent(<<>>, <<>>)
BY DEF Consistent, StillKept, InOrder, OnlyAfterEviction

\* Every other step leaves the records and the history alone, or clears both.
LEMMA NextKeepsEvictionInv ==
  IInv /\ RefinementInv /\ EvictionInv /\ [Next]_vars => EvictionInv'
<1> SUFFICES ASSUME IInv, RefinementInv, EvictionInv, [Next]_vars
             PROVE  EvictionInv'
  OBVIOUS
<1>1. ASSUME UNCHANGED <<completed, published>> PROVE EvictionInv'
  <2>1. \A j \in Instances : Consistent(published[j], completed[j])
    BY EvictionInvIs
  <2>2. \A j \in Instances : Consistent(published'[j], completed'[j])
    BY <1>1, <2>1
  <2> QED
    BY <2>2, EvictionInvNext
<1>2. ASSUME NEW r \in Requests, NEW i \in Instances, NEW c \in Clients,
             NEW k \in Keys, NEW h \in Hashes, Receive(r, i, c, k, h)
      PROVE  EvictionInv'
  BY <1>1, <1>2 DEF Receive, epoch
<1>3. ASSUME NEW r \in Requests,
             \/ RejectBody(r) \/ AnswerFromRecord(r) \/ JoinInFlight(r) \/ Deploy(r)
             \/ PublisherReturns(r) \/ PublisherFails(r) \/ WriteLookup(r) \/ ResumeJoined(r)
      PROVE  EvictionInv'
  BY <1>1, <1>3 DEF RejectBody, AnswerFromRecord, JoinInFlight, Deploy, PublisherReturns,
     PublisherFails, WriteLookup, ResumeJoined, epoch
<1>4. ASSUME NEW i \in Instances, Restart(i) PROVE EvictionInv'
  <2>1. \A j \in Instances :
          \/ published'[j] = <<>> /\ completed'[j] = <<>>
          \/ published'[j] = published[j] /\ completed'[j] = completed[j]
    BY <1>4 DEF Restart, IInv, TypeOK
  <2>2. \A j \in Instances : Consistent(published[j], completed[j])
    BY EvictionInvIs
  <2>3. \A j \in Instances : Consistent(published'[j], completed'[j])
    BY <2>1, <2>2, NothingIsConsistent
  <2> QED
    BY <2>3, EvictionInvNext
<1>5. CASE Tick \/ UNCHANGED vars
  BY <1>1, <1>5 DEF Tick, vars, epoch
<1> QED
  BY <1>2, <1>3, <1>4, <1>5, StartPublishKeepsEvictionInv, SettleKeepsEvictionInv
  DEF Next, Decide, Progress

\* At the start nothing was published.
LEMMA InitEvictionInv == Init => EvictionInv
<1> SUFFICES ASSUME Init PROVE EvictionInv
  OBVIOUS
<1>1. \A i \in Instances : published[i] = <<>> /\ completed[i] = <<>>
  BY DEF Init
<1>2. \A i \in Instances : Consistent(published[i], completed[i])
  BY <1>1, NothingIsConsistent
<1> QED
  BY <1>2, EvictionInvIs

(***************************************************************************)
(* A success is not published again, nor is another publish of its key     *)
(* even begun, before as many other keys as the instance keeps records of  *)
(* were recorded after it, since the key's record: whatever retries,       *)
(* failures and restarts come in between.                                  *)
(***************************************************************************)
THEOREM RelayRepublishesOnlyAfterEviction == Spec => []RepublishOnlyAfterEviction
<1>1. EvictionInv => RepublishOnlyAfterEviction
  BY DEF EvictionInv
<1> QED
  BY InitIInv, InitRefinementInv, InitEvictionInv, NextKeepsIInv,
     NextKeepsRefinementInv, NextKeepsEvictionInv, <1>1, PTL DEF Spec
-----------------------------------------------------------------------------
(***************************************************************************)
(* The ids of the in-memory store.                                         *)
(***************************************************************************)
\* A write leaves an id where it is, or the store has reached its cap.
LEMMA MemorySetKeeps ==
  ASSUME NEW s \in Seq(Requests), NEW r \in Requests, Len(s) <= LookupCap
  PROVE  \E t : /\ t = Capped(Append(s, r), LookupCap)
                /\ \E n \in DOMAIN t : t[n] = r
                /\ Len(s) = LookupCap => Len(t) = LookupCap
                /\ \A id : (\E n \in DOMAIN s : s[n] = id) =>
                             (\E n \in DOMAIN t : t[n] = id) \/ Len(t) = LookupCap
<1>0. PICK t : t = Capped(Append(s, r), LookupCap)
  OBVIOUS
<1>1. LookupCap \in Nat \ {0} /\ Len(s) \in Nat /\ DOMAIN s = 1..Len(s)
  BY RelayAssumption
<1>2. PICK d \in {0, 1} :
        /\ d = IF Len(s) + 1 > LookupCap THEN 1 ELSE 0
        /\ DOMAIN t = 1..(Len(s) + 1 - d)
        /\ Len(s) + 1 - d \in DOMAIN t
        /\ t[Len(s) + 1 - d] = r
        /\ \A n \in 1..(Len(s) - d) : t[n] = s[n + d] /\ n + d \in DOMAIN s
  BY <1>0, <1>1, CappedAppend
<1>3. t \in Seq(Requests)
  <2>1. Append(s, r) \in Seq(Requests) /\ Len(Append(s, r)) <= LookupCap + 1
    BY <1>1
  <2> QED
    BY <1>0, <1>1, <2>1, CappedKeepsEntries
<1>4. Len(t) = Len(s) + 1 - d
  <2>1. Len(t) \in Nat /\ DOMAIN t = 1..Len(t)
    BY <1>3
  <2> QED
    BY <1>1, <1>2, <2>1
<1>5. Len(s) = LookupCap => Len(t) = LookupCap
  BY <1>1, <1>2, <1>4
<1>6. ASSUME NEW n \in DOMAIN s
      PROVE  (\E m \in DOMAIN t : t[m] = s[n]) \/ Len(t) = LookupCap
  <2>1. CASE Len(s) + 1 > LookupCap
    <3>1. PICK l, c : l = Len(s) /\ c = LookupCap
      OBVIOUS
    <3>2. l \in Nat /\ c \in Nat /\ l <= c /\ l + 1 > c
      BY <1>1, <2>1, <3>1
    <3>3. l = c
      BY <3>2
    <3> QED
      BY <1>5, <3>1, <3>3
  <2>2. CASE ~(Len(s) + 1 > LookupCap)
    <3>1. d = 0
      BY <1>2, <2>2
    <3>2. n \in DOMAIN t /\ t[n] = s[n + 0] /\ n + 0 = n
      BY <1>1, <1>2, <3>1
    <3> QED
      BY <3>2
  <2> QED
    BY <2>1, <2>2
<1> QED
  BY <1>0, <1>2, <1>5, <1>6

\* Once sent, a request's data stay, and it is never unsent again.
Stay ==
  \A q \in Requests : phase[q] # "unsent" => phase'[q] # "unsent" /\ req'[q] = req[q]

LEMMA RequestsStay ==
  ASSUME IInv, [Next]_vars
  PROVE  Stay
<1>1. phase \in [Requests -> Phases] /\ req \in [Requests -> Asked \cup {NotSent}]
  BY DEF IInv, TypeOK
<1>2. ASSUME UNCHANGED req,
             UNCHANGED phase \/ \E r \in Requests, p \in Phases \ {"unsent"} :
                                  phase' = [phase EXCEPT ![r] = p]
      PROVE  Stay
  BY <1>1, <1>2 DEF Stay
<1>3. ASSUME NEW r \in Requests, NEW i \in Instances, NEW c \in Clients,
             NEW k \in Keys, NEW h \in Hashes, Receive(r, i, c, k, h)
      PROVE  Stay
  <2>1. /\ phase[r] = "unsent"
        /\ req' = [req EXCEPT ![r] = [inst |-> i, client |-> c, key |-> k, hash |-> h]]
        /\ \E p \in Phases \ {"unsent"} : phase' = [phase EXCEPT ![r] = p]
    BY <1>3 DEF Receive, Goto, Answer, Phases
  <2> QED
    BY <1>1, <2>1 DEF Stay
<1>4. ASSUME NEW r \in Requests, RejectBody(r) \/ Decide(r) \/ Deploy(r) \/ Progress(r)
      PROVE  Stay
  BY <1>2, <1>4
  DEF RejectBody, Decide, AnswerFromRecord, JoinInFlight, StartPublish, Deploy, Progress,
      PublisherReturns, PublisherFails, WriteLookup, Settle, ResumeJoined, Goto, Answer, Phases
<1>5. ASSUME NEW i \in Instances, Restart(i) PROVE Stay
  BY <1>1, <1>5 DEF Restart, Stay
<1>6. CASE Tick \/ UNCHANGED vars
  BY <1>2, <1>6 DEF Tick, vars
<1> QED
  BY <1>3, <1>4, <1>5, <1>6 DEF Next

\* What is kept stays kept.
LEMMA KeptStays ==
  ASSUME IInv, [Next]_vars
  PROVE  \A i \in Instances : \A b : IdIsKept(i, b) => IdIsKept(i, b)'
<1>0. /\ memory \in [Instances -> Seq(Requests)]
      /\ \A j \in Instances : Len(memory[j]) <= LookupCap
      /\ past \subseteq Requests
  BY DEF IInv, TypeOK
<1> DEFINE Stays == \A i \in Instances, id \in Requests :
                      req[id].inst = i /\ Kept(i, id) => Kept(i, id)'
<1>1. ASSUME UNCHANGED <<memory, past>> PROVE Stays
  BY <1>1 DEF Kept, MemoryHas
<1>2. ASSUME NEW r \in Requests, WriteLookup(r) PROVE Stays
  <2>0. PICK j : j = req[r].inst
    OBVIOUS
  <2>1. /\ UNCHANGED past /\ j \in Instances
        /\ memory' = memory \/ memory' = [memory EXCEPT ![j] = Capped(Append(@, r), LookupCap)]
    BY <1>2, <2>0 DEF WriteLookup, MemorySet, epoch, Live, IInv, SentIsTyped, Asked
  <2>2. CASE memory' = memory
    BY <1>1, <2>1, <2>2
  <2>3. CASE memory' = [memory EXCEPT ![j] = Capped(Append(@, r), LookupCap)]
    <3>1. memory'[j] = Capped(Append(memory[j], r), LookupCap)
      BY <1>0, <2>1, <2>3
    <3>2. \A i \in Instances : i # j => memory'[i] = memory[i]
      BY <1>0, <2>1, <2>3
    <3>3. /\ Len(memory[j]) = LookupCap => Len(memory'[j]) = LookupCap
          /\ \A id : MemoryHas(j, id) => MemoryHas(j, id)' \/ Len(memory'[j]) = LookupCap
      <4>1. PICK s, t : s = memory[j] /\ t = memory'[j]
        OBVIOUS
      <4>2. s \in Seq(Requests) /\ Len(s) <= LookupCap /\ t = Capped(Append(s, r), LookupCap)
        BY <1>0, <2>1, <3>1, <4>1
      <4>3. /\ Len(s) = LookupCap => Len(t) = LookupCap
            /\ \A id : (\E n \in DOMAIN s : s[n] = id) =>
                         (\E n \in DOMAIN t : t[n] = id) \/ Len(t) = LookupCap
        BY <4>2, MemorySetKeeps
      <4> QED
        BY <4>1, <4>3 DEF MemoryHas
    <3>4. ASSUME NEW i \in Instances, NEW id \in Requests, req[id].inst = i, Kept(i, id)
          PROVE  Kept(i, id)'
      <4>1. CASE i = j
        BY <2>1, <3>3, <3>4, <4>1 DEF Kept
      <4>2. CASE i # j
        BY <2>1, <3>2, <3>4, <4>2 DEF Kept, MemoryHas
      <4> QED
        BY <4>1, <4>2
    <3> QED
      BY <3>4
  <2> QED
    BY <2>1, <2>2, <2>3
<1>3. ASSUME NEW j \in Instances, Restart(j) PROVE Stays
  <2>1. /\ past' = past \cup {r \in Requests : req[r].inst = j}
        /\ memory' = [memory EXCEPT ![j] = <<>>]
    BY <1>3 DEF Restart
  <2>2. \A i \in Instances : i # j => memory'[i] = memory[i]
    BY <1>0, <2>1
  <2> QED
    BY <2>1, <2>2 DEF Kept, MemoryHas
<1>4. Stays
  <2> HIDE DEF Stays
  <2>1. CASE \E r \in Requests : WriteLookup(r)
    BY <1>2, <2>1
  <2>2. CASE \E j \in Instances : Restart(j)
    BY <1>3, <2>2
  <2>3. CASE UNCHANGED <<memory, past>>
    BY <1>1, <2>3
  <2>4. \/ \E r \in Requests : WriteLookup(r)
        \/ \E j \in Instances : Restart(j)
        \/ UNCHANGED <<memory, past>>
    <3>1. ASSUME NEW r \in Requests, NEW i \in Instances, NEW c \in Clients,
                 NEW k \in Keys, NEW h \in Hashes, Receive(r, i, c, k, h)
          PROVE  UNCHANGED <<memory, past>>
      BY <3>1 DEF Receive, stores, epoch
    <3>2. ASSUME NEW r \in Requests, RejectBody(r) \/ Decide(r) \/ Deploy(r)
          PROVE  UNCHANGED <<memory, past>>
      BY <3>2 DEF RejectBody, Decide, AnswerFromRecord, JoinInFlight, StartPublish, Deploy,
                  stores, epoch
    <3>3. ASSUME NEW r \in Requests, Progress(r), ~WriteLookup(r)
          PROVE  UNCHANGED <<memory, past>>
      BY <3>3 DEF Progress, PublisherReturns, PublisherFails, Settle, ResumeJoined, stores, epoch
    <3>4. Tick \/ UNCHANGED vars => UNCHANGED <<memory, past>>
      BY DEF Tick, vars, stores, epoch
    <3> QED
      BY <3>1, <3>2, <3>3, <3>4 DEF Next
  <2> QED
    BY <2>1, <2>2, <2>3, <2>4
<1>5. Stay
  BY RequestsStay
<1> SUFFICES ASSUME NEW i \in Instances, NEW b, IdIsKept(i, b) PROVE IdIsKept(i, b)'
  OBVIOUS
<1>6. CASE b.publishId = None
  BY <1>6 DEF IdIsKept
<1>7. CASE b.publishId # None
  <2>1. /\ b.publishId \in Requests /\ phase[b.publishId] # "unsent"
        /\ req[b.publishId].inst = i /\ Kept(i, b.publishId)
    BY <1>7 DEF IdIsKept
  <2>2. phase'[b.publishId] # "unsent" /\ req'[b.publishId] = req[b.publishId]
    BY <1>5, <2>1 DEF Stay
  <2>3. Kept(i, b.publishId)'
    BY <1>4, <2>1
  <2> QED
    BY <2>1, <2>2, <2>3 DEF IdIsKept
<1> QED
  BY <1>6, <1>7
\* What is given anew is kept, or gives nothing; all else stays.
LEMMA LookupInvStays ==
  ASSUME IInv, RefinementInv, LookupInv, [Next]_vars,
         \A q \in Requests : outcome'[q] = outcome[q] \/ IdIsKept(req[q].inst, outcome[q])',
         \A q \in Requests : reply'[q] = reply[q] \/ IdIsKept(req[q].inst, reply[q])',
         \A i \in Instances : \A n \in DOMAIN completed'[i] :
           \/ IdIsKept(i, completed[i][n].result)'
           \/ \E m \in DOMAIN completed[i] : completed'[i][n] = completed[i][m],
         \A q \in Requests : phase'[q] = "waiting" => req'[joined'[q]].inst = req'[q].inst
  PROVE  LookupInv'
<1>1. \A i \in Instances : \A d : IdIsKept(i, d) => IdIsKept(i, d)'
  BY KeptStays
<1>2. \A q \in Requests : phase[q] # "unsent" => req[q].inst \in Instances
  BY DEF IInv, SentIsTyped, Asked
<1>3. \A q \in Requests : phase[q] = "unsent" => outcome[q] = NoBody /\ reply[q] = NoBody
  BY DEF RefinementInv, NothingYet
<1>4. \A i : IdIsKept(i, NoBody)'
  BY DEF IdIsKept, NoBody
<1>5. Stay
  BY RequestsStay
<1>6. ASSUME NEW q \in Requests
      PROVE  IdIsKept(req[q].inst, outcome[q])' /\ IdIsKept(req[q].inst, reply[q])'
  <2>1. PICK i, o, d : i = req'[q].inst /\ o = outcome[q] /\ d = reply[q]
    OBVIOUS
  <2>2. IdIsKept(i, o)' /\ IdIsKept(i, d)'
    <3>1. CASE phase[q] = "unsent"
      BY <1>3, <1>4, <2>1, <3>1
    <3>2. CASE phase[q] # "unsent"
      <4>1. i = req[q].inst /\ i \in Instances
        BY <1>2, <1>5, <2>1, <3>2 DEF Stay
      <4>2. IdIsKept(i, o) /\ IdIsKept(i, d)
        BY <2>1, <4>1 DEF LookupInv
      <4> QED
        BY <1>1, <4>1, <4>2
    <3> QED
      BY <3>1, <3>2
  <2>3. outcome'[q] = o => IdIsKept(req[q].inst, outcome[q])'
    BY <2>1, <2>2
  <2>4. reply'[q] = d => IdIsKept(req[q].inst, reply[q])'
    BY <2>1, <2>2
  <2> QED
    BY <2>1, <2>3, <2>4
<1>7. ASSUME NEW i \in Instances, NEW n \in DOMAIN completed'[i]
      PROVE  IdIsKept(i, completed[i][n].result)'
  <2>1. ASSUME NEW m \in DOMAIN completed[i], completed'[i][n] = completed[i][m]
        PROVE  IdIsKept(i, completed[i][n].result)'
    <3>1. PICK d : d = completed[i][m].result
      OBVIOUS
    <3>2. IdIsKept(i, d)'
      BY <1>1, <3>1 DEF LookupInv
    <3>3. d = completed'[i][n].result
      BY <2>1, <3>1
    <3> QED
      BY <3>2, <3>3
  <2> QED
    BY <2>1
<1> QED
  BY <1>6, <1>7 DEF LookupInv

\* A failure gives no id.
LEMMA FailureGivesNothing == \A i, s : IdIsKept(i, Failure(s))'
BY DEF IdIsKept, Failure, NoBody

\* A handler answers: a failure, or what is kept.
LEMMA AnswerKeepsLookupInv ==
  ASSUME IInv, RefinementInv, LookupInv, [Next]_vars, NEW r \in Requests, NEW b, Answer(r, b),
         \A i : i = req'[r].inst => IdIsKept(i, b)',
         UNCHANGED <<outcome, joined, completed>>
  PROVE  LookupInv'
<1>1. /\ reply \in [Requests -> Body \cup {NoBody}] /\ phase \in [Requests -> Phases]
  BY DEF IInv, TypeOK
<1>2. /\ \A q \in Requests : reply'[q] = IF q = r THEN b ELSE reply[q]
      /\ \A q \in Requests : phase'[q] = IF q = r THEN "answered" ELSE phase[q]
  BY <1>1 DEF Answer, Goto
<1>3. IdIsKept(req[r].inst, reply[r])'
  BY <1>2
<1>4. \A q \in Requests : reply'[q] = reply[q] \/ IdIsKept(req[q].inst, reply[q])'
  BY <1>2, <1>3
<1>5. ASSUME NEW q \in Requests, phase'[q] = "waiting"
      PROVE  req'[joined'[q]].inst = req'[q].inst
  <2>1. phase[q] = "waiting" /\ joined[q] \in Requests /\ phase[joined[q]] # "unsent"
    BY <1>2, <1>5 DEF IInv, JoinedAsksTheSame, AsksFor
  <2>2. req'[q] = req[q] /\ req'[joined[q]] = req[joined[q]]
    BY <2>1, RequestsStay DEF Stay
  <2> QED
    BY <2>1, <2>2 DEF LookupInv
<1>6. \A i \in Instances : \A n \in DOMAIN completed'[i] :
        \E m \in DOMAIN completed[i] : completed'[i][n] = completed[i][m]
  OBVIOUS
<1> QED
  BY <1>4, <1>5, <1>6, LookupInvStays

\* The steps that answer nobody and settle nothing.
LEMMA QuietKeepsLookupInv ==
  ASSUME IInv, RefinementInv, LookupInv, [Next]_vars, UNCHANGED <<outcome, reply>>,
         \A i \in Instances : \A n \in DOMAIN completed'[i] :
           \E m \in DOMAIN completed[i] : completed'[i][n] = completed[i][m],
         \A q \in Requests : phase'[q] = "waiting" =>
           \/ phase[q] = "waiting" /\ joined'[q] = joined[q]
           \/ req'[joined'[q]].inst = req'[q].inst
  PROVE  LookupInv'
<1>1. ASSUME NEW q \in Requests, phase[q] = "waiting", joined'[q] = joined[q]
      PROVE  req'[joined'[q]].inst = req'[q].inst
  <2>1. joined[q] \in Requests /\ phase[joined[q]] # "unsent" /\ phase[q] # "unsent"
    BY <1>1 DEF IInv, JoinedAsksTheSame, AsksFor
  <2>2. req'[q] = req[q] /\ req'[joined[q]] = req[joined[q]]
    BY <2>1, RequestsStay DEF Stay
  <2> QED
    BY <1>1, <2>1, <2>2 DEF LookupInv
<1> QED
  BY <1>1, LookupInvStays

LEMMA WriteLookupKeepsLookupInv ==
  ASSUME IInv, RefinementInv, LookupInv, NEW r \in Requests, WriteLookup(r), [Next]_vars
  PROVE  LookupInv'
<1>1. PICK w \in BOOLEAN :
        /\ outcome' = [outcome EXCEPT ![r] = Published(r, w)]
        /\ StoreMode = "memory" /\ w => MemorySet(req[r].inst, r)
  BY DEF WriteLookup
<1>2. /\ phase[r] = "recording" /\ phase' = [phase EXCEPT ![r] = "settled"]
      /\ UNCHANGED <<req, joined, reply, completed>>
      /\ StoreMode = "memory" => \E v \in {TRUE} : outcome' = [outcome EXCEPT ![r] = Published(r, v)]
  BY DEF WriteLookup, Goto
<1>3. /\ phase \in [Requests -> Phases] /\ outcome \in [Requests -> Body \cup {NoBody}]
      /\ memory \in [Instances -> Seq(Requests)]
      /\ \A i \in Instances : Len(memory[i]) <= LookupCap
      /\ req[r].inst \in Instances
  BY <1>2 DEF IInv, TypeOK, SentIsTyped, Asked
<1>4. PICK i : i = req[r].inst
  OBVIOUS
<1>5. w /\ StoreMode = "memory" => MemoryHas(i, r)'
  <2> SUFFICES ASSUME w, StoreMode = "memory" PROVE MemoryHas(i, r)'
    OBVIOUS
  <2>1. memory'[i] = Capped(Append(memory[i], r), LookupCap)
    BY <1>1, <1>3, <1>4 DEF MemorySet
  <2>2. PICK s : s = memory[i]
    OBVIOUS
  <2>3. s \in Seq(Requests) /\ Len(s) <= LookupCap
    BY <1>3, <1>4, <2>2
  <2>4. PICK t : t = Capped(Append(s, r), LookupCap) /\ \E n \in DOMAIN t : t[n] = r
    BY <2>3, MemorySetKeeps
  <2> QED
    BY <2>1, <2>2, <2>4 DEF MemoryHas
<1>6. PICK b : b = Published(r, w)
  OBVIOUS
<1>7. b.publishId = IF w THEN r ELSE None
  BY <1>6 DEF Published
<1>8. IdIsKept(i, b)'
  <2>1. phase'[r] # "unsent" /\ req'[r].inst = i
    BY <1>2, <1>3, <1>4
  <2>2. w => Kept(i, r)'
    BY <1>5 DEF Kept
  <2> QED
    BY <1>7, <2>1, <2>2 DEF IdIsKept
<1>9. \A q \in Requests : outcome'[q] = IF q = r THEN b ELSE outcome[q]
  BY <1>1, <1>3, <1>6
<1>10. IdIsKept(req[r].inst, outcome[r])'
  <2>1. req'[r].inst = i /\ outcome'[r] = b
    BY <1>2, <1>4, <1>9
  <2> QED
    BY <1>8, <2>1
<1>11. \A q \in Requests : outcome'[q] = outcome[q] \/ IdIsKept(req[q].inst, outcome[q])'
  BY <1>9, <1>10
<1>12. \A q \in Requests : phase'[q] = "waiting" => phase[q] = "waiting"
  BY <1>2, <1>3
<1>13. \A q \in Requests : phase'[q] = "waiting" => req'[joined'[q]].inst = req'[q].inst
  BY <1>2, <1>12 DEF LookupInv
<1>14. /\ \A q \in Requests : reply'[q] = reply[q]
       /\ \A j \in Instances : \A n \in DOMAIN completed'[j] :
            \E m \in DOMAIN completed[j] : completed'[j][n] = completed[j][m]
  BY <1>2
<1> QED
  BY <1>11, <1>13, <1>14, LookupInvStays

LEMMA SettleKeepsLookupInv ==
  ASSUME IInv, RefinementInv, LookupInv, NEW r \in Requests, Settle(r), [Next]_vars
  PROVE  LookupInv'
<1>1. PICK i, k, o, rec : /\ i = req[r].inst /\ k = req[r].key /\ o = outcome[r]
                          /\ rec = [key |-> k, hash |-> req[r].hash, result |-> o]
  OBVIOUS
<1>2. /\ i \in Instances /\ phase[r] = "settled"
      /\ phase' = [phase EXCEPT ![r] = "answered"]
      /\ reply' = [reply EXCEPT ![r] = o]
      /\ UNCHANGED <<req, outcome>>
      /\ \A j \in Instances : j # i => completed'[j] = completed[j]
      /\ o.status # 201 => completed' = completed
      /\ o.status = 201 => /\ rec \in Record
                           /\ completed'[i] = Capped(Append(completed[i], rec), CompletedCap)
  BY <1>1, SettleEffect
<1>3. UNCHANGED joined
  BY DEF Settle
<1>4. IdIsKept(i, o)'
  BY <1>1, <1>2, KeptStays DEF LookupInv
<1>5. /\ \A q \in Requests : phase'[q] = IF q = r THEN "answered" ELSE phase[q]
      /\ \A q \in Requests : reply'[q] = IF q = r THEN o ELSE reply[q]
  BY <1>2 DEF IInv, TypeOK
<1>6. IdIsKept(req[r].inst, reply[r])'
  <2>1. req'[r].inst = i /\ reply'[r] = o
    BY <1>1, <1>2, <1>5
  <2> QED
    BY <1>4, <2>1
<1>7. ASSUME NEW n \in DOMAIN completed'[i]
      PROVE  \/ IdIsKept(i, completed[i][n].result)'
             \/ \E m \in DOMAIN completed[i] : completed'[i][n] = completed[i][m]
  <2>1. CASE o.status # 201
    BY <1>2, <2>1
  <2>2. CASE o.status = 201
    <3>1. PICK s, t, e : s = completed[i] /\ t = completed'[i] /\ e = Append(s, rec)
      OBVIOUS
    <3>2. s \in Seq(Record) /\ Len(s) <= CompletedCap /\ rec \in Record /\ CompletedCap \in Nat \ {0}
      BY <1>2, <2>2, <3>1, RelayAssumption DEF IInv, TypeOK
    <3>3. /\ e \in Seq(Record) /\ Len(e) = Len(s) + 1 /\ Len(s) \in Nat /\ e[Len(s) + 1] = rec
          /\ \A m \in 1..Len(s) : e[m] = s[m]
          /\ DOMAIN s = 1..Len(s) /\ DOMAIN e = 1..(Len(s) + 1)
      BY <3>1, <3>2
    <3>4. t = Capped(e, CompletedCap)
      BY <1>2, <2>2, <3>1
    <3>5. PICK m \in DOMAIN e : t[n] = e[m]
      <4>1. Len(e) <= CompletedCap + 1
        BY <3>2, <3>3
      <4>2. \A j \in DOMAIN t : \E m \in DOMAIN e : t[j] = e[m]
        <5>1. \A j \in DOMAIN Capped(e, CompletedCap) :
                \E m \in DOMAIN e : Capped(e, CompletedCap)[j] = e[m]
          BY <3>2, <3>3, <4>1, CappedKeepsEntries, SMTT(30)
        <5> QED
          BY <3>4, <5>1
      <4> QED
        BY <1>7, <3>1, <4>2
    <3>6. CASE m \in 1..Len(s)
      BY <3>1, <3>3, <3>5, <3>6
    <3>7. CASE m \notin 1..Len(s)
      <4>1. m = Len(s) + 1
        BY <3>3, <3>5, <3>7
      <4>2. completed'[i][n].result = o
        BY <1>1, <3>1, <3>3, <3>5, <4>1
      <4> QED
        BY <1>4, <4>2
    <3> QED
      BY <3>6, <3>7
  <2> QED
    BY <2>1, <2>2
<1>8. \A j \in Instances : \A n \in DOMAIN completed'[j] :
        \/ IdIsKept(j, completed[j][n].result)'
        \/ \E m \in DOMAIN completed[j] : completed'[j][n] = completed[j][m]
  <2>1. ASSUME NEW j \in Instances, j # i, NEW n \in DOMAIN completed'[j]
        PROVE  \E m \in DOMAIN completed[j] : completed'[j][n] = completed[j][m]
    BY <1>2, <2>1
  <2> QED
    BY <1>7, <2>1
<1>9. \A q \in Requests : reply'[q] = reply[q] \/ IdIsKept(req[q].inst, reply[q])'
  BY <1>5, <1>6
<1>10. \A q \in Requests : phase'[q] = "waiting" => req'[joined'[q]].inst = req'[q].inst
  BY <1>2, <1>3, <1>5 DEF LookupInv
<1>11. \A q \in Requests : outcome'[q] = outcome[q]
  BY <1>2
<1> QED
  BY <1>8, <1>9, <1>10, <1>11, LookupInvStays

LEMMA NextKeepsLookupInv ==
  IInv /\ RefinementInv /\ LookupInv /\ [Next]_vars => LookupInv'
<1> SUFFICES ASSUME IInv, RefinementInv, LookupInv, [Next]_vars PROVE LookupInv'
  OBVIOUS
<1>1. /\ phase \in [Requests -> Phases] /\ joined \in [Requests -> Requests \cup {None}]
      /\ outcome \in [Requests -> Body \cup {NoBody}]
      /\ completed \in [Instances -> Seq(Record)]
  BY DEF IInv, TypeOK
<1>2. ASSUME UNCHANGED <<outcome, reply, completed>>,
             \A q \in Requests : phase'[q] = "waiting" =>
               \/ phase[q] = "waiting" /\ joined'[q] = joined[q]
               \/ req'[joined'[q]].inst = req'[q].inst
      PROVE  LookupInv'
  <2>1. \A i \in Instances : \A n \in DOMAIN completed'[i] :
          \E m \in DOMAIN completed[i] : completed'[i][n] = completed[i][m]
    BY <1>2
  <2> QED
    BY <1>2, <2>1, QuietKeepsLookupInv
<1>3. ASSUME NEW r \in Requests, NEW i \in Instances, NEW c \in Clients,
             NEW k \in Keys, NEW h \in Hashes, Receive(r, i, c, k, h)
      PROVE  LookupInv'
  <2>1. UNCHANGED <<joined, outcome, completed>>
    BY <1>3 DEF Receive
  <2>2. CASE Answer(r, Failure(429))
    BY <2>1, <2>2, FailureGivesNothing, AnswerKeepsLookupInv
  <2>3. CASE Goto(r, "reading") /\ UNCHANGED reply
    <3>1. \A q \in Requests : phase'[q] = "waiting" => phase[q] = "waiting"
      BY <1>1, <2>3 DEF Goto
    <3> QED
      BY <1>2, <2>1, <2>3, <3>1
  <2> QED
    BY <1>3, <2>2, <2>3 DEF Receive
<1>4. ASSUME NEW r \in Requests, RejectBody(r) PROVE LookupInv'
  BY <1>4, FailureGivesNothing, AnswerKeepsLookupInv DEF RejectBody
<1>5. ASSUME NEW r \in Requests, AnswerFromRecord(r) PROVE LookupInv'
  <2>1. PICK i, rec, b : /\ i = req[r].inst /\ rec = RecordOf(i, req[r].key)
                         /\ b = IF rec.hash = req[r].hash THEN rec.result ELSE Failure(409)
    OBVIOUS
  <2>2. /\ phase[r] = "reading" /\ Remembers(i, req[r].key) /\ Answer(r, b)
        /\ UNCHANGED <<req, joined, outcome, completed>>
    BY <1>5, <2>1 DEF AnswerFromRecord
  <2>3. i \in Instances
    BY <2>1, <2>2 DEF IInv, SentIsTyped, Asked
  <2>4. PICK n \in DOMAIN completed[i] : rec = completed[i][n]
    BY <2>1, <2>2 DEF Remembers, RecordOf
  <2>5. PICK d : d = rec.result
    OBVIOUS
  <2>6. IdIsKept(i, d)'
    BY <2>3, <2>4, <2>5, KeptStays DEF LookupInv
  <2>7. IdIsKept(i, b)'
    BY <2>1, <2>5, <2>6, FailureGivesNothing
  <2>8. i = req'[r].inst
    BY <2>1, <2>2
  <2> QED
    BY <2>2, <2>7, <2>8, AnswerKeepsLookupInv
<1>6. ASSUME NEW r \in Requests, JoinInFlight(r) PROVE LookupInv'
  <2>1. PICK i, k, o : i = req[r].inst /\ k = req[r].key /\ o = inFlight[i][k]
    OBVIOUS
  <2>2. phase[r] = "reading" /\ o # None /\ UNCHANGED <<req, outcome, completed>>
    BY <1>6, <2>1 DEF JoinInFlight
  <2>3. CASE Answer(r, Failure(409)) /\ UNCHANGED joined
    BY <2>2, <2>3, FailureGivesNothing, AnswerKeepsLookupInv
  <2>4. CASE /\ Goto(r, "waiting") /\ joined' = [joined EXCEPT ![r] = o] /\ UNCHANGED reply
    <3>1. i \in Instances /\ k \in Keys
      BY <2>1, <2>2 DEF IInv, SentIsTyped, Asked
    <3>2. o \in Requests
      BY <2>1, <2>2, <3>1 DEF IInv, TypeOK
    <3>3. req[o].inst = i
      BY <2>1, <3>1, <3>2 DEF IInv, InFlightIsLive
    <3>4. \A q \in Requests : /\ phase'[q] = IF q = r THEN "waiting" ELSE phase[q]
                              /\ joined'[q] = IF q = r THEN o ELSE joined[q]
      BY <1>1, <2>4 DEF Goto
    <3>5. req'[joined'[r]].inst = req'[r].inst
      BY <2>1, <2>2, <3>3, <3>4
    <3> QED
      BY <1>2, <2>2, <2>4, <3>4, <3>5
  <2> QED
    BY <1>6, <2>1, <2>3, <2>4 DEF JoinInFlight
<1>7. ASSUME NEW r \in Requests,
             StartPublish(r) \/ PublisherReturns(r)
      PROVE  LookupInv'
  <2>1. UNCHANGED <<outcome, reply, completed>>
    BY <1>7 DEF StartPublish, PublisherReturns
  <2>2. ASSUME NEW q \in Requests, phase'[q] = "waiting"
        PROVE  phase[q] = "waiting" /\ joined'[q] = joined[q]
    BY <1>1, <1>7, <2>2 DEF StartPublish, PublisherReturns, Goto
  <2> QED
    BY <1>2, <2>1, <2>2
<1>8. ASSUME NEW r \in Requests, PublisherFails(r) PROVE LookupInv'
  <2>1. PICK b \in {Failure(502), Failure(504)} : outcome' = [outcome EXCEPT ![r] = b]
    BY <1>8 DEF PublisherFails
  <2>2. /\ phase' = [phase EXCEPT ![r] = "settled"]
        /\ UNCHANGED <<req, joined, reply, completed>>
    BY <1>8 DEF PublisherFails, Goto
  <2>3. \A q \in Requests : outcome'[q] = IF q = r THEN b ELSE outcome[q]
    BY <1>1, <2>1
  <2>4. \A i : IdIsKept(i, b)'
    BY <2>1, FailureGivesNothing
  <2>5. IdIsKept(req[r].inst, outcome[r])'
    BY <2>3, <2>4
  <2>6. \A q \in Requests : outcome'[q] = outcome[q] \/ IdIsKept(req[q].inst, outcome[q])'
    BY <2>3, <2>5
  <2>7. \A q \in Requests : phase'[q] = "waiting" => req'[joined'[q]].inst = req'[q].inst
    BY <1>1, <2>2 DEF LookupInv
  <2>8. /\ \A q \in Requests : reply'[q] = reply[q]
        /\ \A j \in Instances : \A n \in DOMAIN completed'[j] :
             \E m \in DOMAIN completed[j] : completed'[j][n] = completed[j][m]
    BY <2>2
  <2> QED
    BY <2>6, <2>7, <2>8, LookupInvStays
<1>9. ASSUME NEW r \in Requests, ResumeJoined(r) PROVE LookupInv'
  <2>1. PICK i, b : i = req[r].inst /\ b = outcome[joined[r]]
    OBVIOUS
  <2>2. /\ phase[r] = "waiting" /\ Answer(r, b)
        /\ UNCHANGED <<req, joined, outcome, completed>>
    BY <1>9, <2>1 DEF ResumeJoined
  <2>3. joined[r] \in Requests /\ req[joined[r]].inst = i /\ i \in Instances
    BY <2>1, <2>2 DEF LookupInv, IInv, JoinedAsksTheSame, SentIsTyped, Asked
  <2>4. IdIsKept(i, b)'
    BY <2>1, <2>3, KeptStays DEF LookupInv
  <2>5. i = req'[r].inst
    BY <2>1, <2>2
  <2> QED
    BY <2>2, <2>4, <2>5, AnswerKeepsLookupInv
<1>10. ASSUME NEW r \in Requests, Progress(r) PROVE LookupInv'
  BY <1>7, <1>8, <1>9, <1>10, WriteLookupKeepsLookupInv, SettleKeepsLookupInv DEF Progress
<1>11. ASSUME NEW i \in Instances, Restart(i) PROVE LookupInv'
  <2>1. /\ UNCHANGED <<outcome, reply, joined>> /\ completed' = [completed EXCEPT ![i] = <<>>]
        /\ \A q \in Requests : phase'[q] = phase[q] \/ phase'[q] = "dropped"
    BY <1>11 DEF Restart
  <2>2. \A j \in Instances : \A n \in DOMAIN completed'[j] :
          \E m \in DOMAIN completed[j] : completed'[j][n] = completed[j][m]
    <3>1. \A j \in Instances : completed'[j] = completed[j] \/ completed'[j] = <<>>
      BY <1>1, <2>1
    <3> QED
      BY <3>1
  <2> QED
    BY <2>1, <2>2, QuietKeepsLookupInv
<1>12. ASSUME UNCHANGED <<phase, joined, outcome, reply, completed>> PROVE LookupInv'
  BY <1>2, <1>12
<1>13. CASE \/ \E r \in Requests : Deploy(r)
            \/ Tick
            \/ UNCHANGED vars
  BY <1>12, <1>13 DEF Deploy, Tick, vars
<1> QED
  BY <1>3, <1>4, <1>5, <1>6, <1>7, <1>10, <1>11, <1>13 DEF Next, Decide

(***************************************************************************)
(* A publishId that was answered is found by GET: with the Upstash store   *)
(* for good, at whichever instance asks and whatever writes failed or were *)
(* applied unheard; with the in-memory store at the instance that gave it, *)
(* until that restarts or its store is full.                               *)
(***************************************************************************)
THEOREM RelayAnsweredIdResolves == Spec => []AnsweredIdResolves
<1>1. Init => OnlySuccessHasId
  BY DEF Init, OnlySuccessHasId, NoBody
<1>2. Init => LookupInv
  BY DEF Init, LookupInv, IdIsKept, NoBody
<1>3. IInv /\ OnlySuccessHasId /\ LookupInv => AnsweredIdResolves
  <2> SUFFICES ASSUME IInv, OnlySuccessHasId, LookupInv, NEW r \in Requests,
                      reply[r].publishId # None
               PROVE  \/ Resolves(req[r].inst, reply[r].publishId)
                      \/ /\ StoreMode = "memory"
                         /\ \/ Len(memory[req[r].inst]) = LookupCap
                            \/ reply[r].publishId \in past
    BY DEF AnsweredIdResolves
  <2>1. CASE StoreMode = "upstash"
    BY <2>1 DEF IInv, ReplyIsBacked, OnlySuccessHasId, Backed, Resolves, RedisHas
  <2>2. CASE StoreMode = "memory"
    <3>1. Kept(req[r].inst, reply[r].publishId)
      BY DEF LookupInv, IdIsKept
    <3> QED
      BY <2>2, <3>1 DEF Kept, Resolves
  <2> QED
    BY <2>1, <2>2, RelayAssumption
<1> QED
  BY InitIInv, NextKeepsIInv, NextKeepsIds, InitRefinementInv, NextKeepsRefinementInv,
     NextKeepsLookupInv, <1>1, <1>2, <1>3, PTL DEF Spec
=============================================================================
