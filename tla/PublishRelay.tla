----------------------------- MODULE PublishRelay -----------------------------
(***************************************************************************)
(* The managed publish relay (relay/server.ts): POST /api/v1/publishes on  *)
(* one or more relay instances that share nothing but the lookup store.    *)
(* A request passes the rate limit, has its body read, and is then, in one *)
(* synchronous stretch, answered from a completed record, refused, joined  *)
(* to the execution in flight for its key, or made the owner of a new      *)
(* execution.  An execution awaits the publisher (Vercel) and the lookup   *)
(* store; when its promise settles, the owner's continuation and those of  *)
(* the joined requests run in any order.                                   *)
(***************************************************************************)
EXTENDS RateLimit, Sequences

CONSTANTS
  Instances,          \* processes or function instances of the relay
  Requests,           \* POST requests; one that is sent again is another one
  Clients,
  Hashes,             \* artifact hashes
  Keys,               \* idempotency keys; without a header the key is the hash
  None,
  StoreMode,          \* createPublishLookupStore: "upstash" or "memory"
  CompletedCap,       \* completed records kept: 5_000 in the code
  LookupCap,          \* records of the in-memory store: 10_000 in the code
  MaxTime,            \* bound: the clock stops there
  MaxRestarts         \* bound: restarts of instances

ASSUME RelayAssumption ==
  /\ Hashes \subseteq Keys
  /\ None \notin Keys \cup Requests \cup Instances \cup Clients
  /\ StoreMode \in {"upstash", "memory"}
  /\ {CompletedCap, LookupCap} \subseteq Nat \ {0}
  /\ {MaxTime, MaxRestarts} \subseteq Nat

VARIABLES
  now,        \* the clock the rate limit reads
  buckets,    \* per instance: rateLimitBuckets
  req,        \* what each request asks, and of which instance
  phase,      \* where each request's handler is
  joined,     \* the owner whose promise a request awaits (its own, for an owner)
  outcome,    \* the settled value of an owner's executionPromise
  reply,      \* the response of a request
  completed,  \* per instance: completedIdempotencyRecords, in insertion order
  inFlight,   \* per instance and key: the owner in inFlightIdempotencyRecords
  deployed,   \* owners whose artifact is up at Vercel
  redis,      \* publish ids in the shared store (a publish id is its owner)
  memory,     \* per instance: publish ids of the in-memory store, oldest first
  restarts,   \* number of restarts so far
  past,       \* history: requests an instance received before its last restart
  published   \* history, per instance since its start: the starts of publishes
              \* and the records of their successes, in order

limiter == <<now, buckets>>
stores == <<deployed, redis, memory>>
epoch == <<restarts, past, published>>
vars == <<limiter, req, phase, joined, outcome, reply, completed, inFlight,
          stores, epoch>>
-----------------------------------------------------------------------------
(* What is asked and what is answered.                                     *)

Asked == [inst: Instances, client: Clients, key: Keys, hash: Hashes]
NotSent == [inst |-> None, client |-> None, key |-> None, hash |-> None]

\* An owner's handler is "publishing" while the publisher runs, "recording"
\* during the lookup write and "settled" once its promise is, until its own
\* continuation has run; a "dropped" request died with its instance.
Phases == {"unsent", "reading", "publishing", "recording", "settled",
           "waiting", "answered", "dropped"}

Body == [status: {201, 400, 409, 429, 502, 504}, key: Keys \cup {None},
         hash: Hashes \cup {None}, deployment: Requests \cup {None},
         publishId: Requests \cup {None}]
NoBody == [status |-> 0, key |-> None, hash |-> None, deployment |-> None,
           publishId |-> None]

Failure(s) == [NoBody EXCEPT !.status = s]

\* responseBody of owner r: no publishId unless the lookup record was written.
Published(r, written) ==
  [status |-> 201, key |-> req[r].key, hash |-> req[r].hash, deployment |-> r,
   publishId |-> IF written THEN r ELSE None]

Record == [key: Keys, hash: Hashes, result: Body]

PublishEvent == [step: {"start", "record"}, key: Keys]

Live(r) == phase[r] \in {"publishing", "recording", "settled"}

TypeOK ==
  /\ now \in 0..MaxTime
  /\ buckets \in [Instances -> [Clients -> Bucket]]
  /\ req \in [Requests -> Asked \cup {NotSent}]
  /\ phase \in [Requests -> Phases]
  /\ joined \in [Requests -> Requests \cup {None}]
  /\ outcome \in [Requests -> Body \cup {NoBody}]
  /\ reply \in [Requests -> Body \cup {NoBody}]
  /\ completed \in [Instances -> Seq(Record)]
  /\ \A i \in Instances : Len(completed[i]) <= CompletedCap
  /\ inFlight \in [Instances -> [Keys -> Requests \cup {None}]]
  /\ deployed \subseteq Requests
  /\ redis \subseteq Requests
  /\ memory \in [Instances -> Seq(Requests)]
  /\ \A i \in Instances : Len(memory[i]) <= LookupCap
  /\ restarts \in 0..MaxRestarts
  /\ past \subseteq Requests
  /\ published \in [Instances -> Seq(PublishEvent)]

Init ==
  /\ now = 0
  /\ buckets = [i \in Instances |-> [c \in Clients |-> NoBucket]]
  /\ req = [r \in Requests |-> NotSent]
  /\ phase = [r \in Requests |-> "unsent"]
  /\ joined = [r \in Requests |-> None]
  /\ outcome = [r \in Requests |-> NoBody]
  /\ reply = [r \in Requests |-> NoBody]
  /\ completed = [i \in Instances |-> <<>>]
  /\ inFlight = [i \in Instances |-> [k \in Keys |-> None]]
  /\ deployed = {}
  /\ redis = {}
  /\ memory = [i \in Instances |-> <<>>]
  /\ restarts = 0
  /\ past = {}
  /\ published = [i \in Instances |-> <<>>]
-----------------------------------------------------------------------------
(* Maps with a size cap, which drop their oldest entry.                    *)

\* Mutant of Capped: the size is compared with >=.
CappedEarly(s, cap) == IF Len(s) >= cap THEN Tail(s) ELSE s
Capped(s, cap) == IF Len(s) > cap THEN Tail(s) ELSE s

Remembers(i, k) == \E n \in DOMAIN completed[i] : completed[i][n].key = k
RecordOf(i, k) ==
  completed[i][CHOOSE n \in DOMAIN completed[i] : completed[i][n].key = k]

\* completedIdempotencyRecords.set: a key that is there keeps its position.
Remember(s, rec) ==
  IF \E n \in DOMAIN s : s[n].key = rec.key
    THEN [n \in DOMAIN s |-> IF s[n].key = rec.key THEN rec ELSE s[n]]
    ELSE Append(s, rec)
-----------------------------------------------------------------------------
(* The request handler, up to its first await and after it.                *)

Goto(r, p) == phase' = [phase EXCEPT ![r] = p]

\* What the history keeps of a step of a publish of r's key.
Log(r, step) ==
  published' = [published EXCEPT ![req[r].inst] =
                  Append(@, [step |-> step, key |-> req[r].key])]

Answer(r, b) ==
  /\ Goto(r, "answered")
  /\ reply' = [reply EXCEPT ![r] = b]

\* A request arrives at instance i: the rate limit, before the body is read.
Receive(r, i, c, k, h) ==
  LET b == Pruned(buckets[i], now) IN
  /\ phase[r] = "unsent"
  /\ req' = [req EXCEPT ![r] = [inst |-> i, client |-> c, key |-> k, hash |-> h]]
  /\ \/ /\ Admits(b[c], now)
        /\ buckets' = [buckets EXCEPT ![i] = [b EXCEPT ![c] = Charged(@, now)]]
        /\ Goto(r, "reading")
        /\ UNCHANGED reply
     \/ /\ ~Admits(b[c], now)
        /\ buckets' = [buckets EXCEPT ![i] = b]
        /\ Answer(r, Failure(429))
  /\ UNCHANGED <<now, joined, outcome, completed, inFlight, stores, epoch>>

\* The body is too large or unreadable, or the artifact does not validate.
RejectBody(r) ==
  /\ phase[r] = "reading"
  /\ Answer(r, Failure(400))
  /\ UNCHANGED <<limiter, req, joined, outcome, completed, inFlight, stores,
                 epoch>>

\* Mutant of AnswerFromRecord: the artifact hash is not compared.
AnswerFromRecordUnchecked(r) ==
  LET i == req[r].inst IN
  /\ phase[r] = "reading"
  /\ Remembers(i, req[r].key)
  /\ Answer(r, RecordOf(i, req[r].key).result)
  /\ UNCHANGED <<limiter, req, joined, outcome, completed, inFlight, stores,
                 epoch>>

\* A completed record of the key: replay it, or refuse another artifact.
AnswerFromRecord(r) ==
  LET i == req[r].inst
      rec == RecordOf(i, req[r].key)
  IN
  /\ phase[r] = "reading"
  /\ Remembers(i, req[r].key)
  /\ Answer(r, IF rec.hash = req[r].hash THEN rec.result ELSE Failure(409))
  /\ UNCHANGED <<limiter, req, joined, outcome, completed, inFlight, stores,
                 epoch>>

\* Mutant of JoinInFlight: the hash of the execution in flight is not compared.
JoinInFlightUnchecked(r) ==
  LET o == inFlight[req[r].inst][req[r].key] IN
  /\ phase[r] = "reading"
  /\ ~Remembers(req[r].inst, req[r].key)
  /\ o # None
  /\ Goto(r, "waiting")
  /\ joined' = [joined EXCEPT ![r] = o]
  /\ UNCHANGED <<limiter, req, outcome, reply, completed, inFlight, stores,
                 epoch>>

\* An execution of the key is in flight: await its promise, or refuse.
JoinInFlight(r) ==
  LET o == inFlight[req[r].inst][req[r].key] IN
  /\ phase[r] = "reading"
  /\ ~Remembers(req[r].inst, req[r].key)
  /\ o # None
  /\ IF req[o].hash = req[r].hash
       THEN /\ Goto(r, "waiting")
            /\ joined' = [joined EXCEPT ![r] = o]
            /\ UNCHANGED reply
       ELSE /\ Answer(r, Failure(409))
            /\ UNCHANGED joined
  /\ UNCHANGED <<limiter, req, outcome, completed, inFlight, stores, epoch>>

\* Mutant of StartPublish: the in-flight record is not looked up.
StartPublishAnyway(r) ==
  /\ phase[r] = "reading"
  /\ ~Remembers(req[r].inst, req[r].key)
  /\ Goto(r, "publishing")
  /\ joined' = [joined EXCEPT ![r] = r]
  /\ inFlight' = [inFlight EXCEPT ![req[r].inst][req[r].key] = r]
  /\ Log(r, "start")
  /\ UNCHANGED <<limiter, req, outcome, reply, completed, stores, restarts, past>>

\* Neither: r becomes the owner of the key's execution.
StartPublish(r) ==
  /\ phase[r] = "reading"
  /\ ~Remembers(req[r].inst, req[r].key)
  /\ inFlight[req[r].inst][req[r].key] = None
  /\ Goto(r, "publishing")
  /\ joined' = [joined EXCEPT ![r] = r]
  /\ inFlight' = [inFlight EXCEPT ![req[r].inst][req[r].key] = r]
  /\ Log(r, "start")
  /\ UNCHANGED <<limiter, req, outcome, reply, completed, stores, restarts, past>>
-----------------------------------------------------------------------------
(* GET /api/v1/publishes/:publishId, asked of instance i.                  *)

\* The records a relay wrote have all the fields that the store of its mode
\* asks of one it reads (parsePublishLookupRecord).
RedisHas(id) == id \in redis
MemoryHas(i, id) == \E n \in DOMAIN memory[i] : memory[i][n] = id

Resolves(i, id) ==
  IF StoreMode = "upstash" THEN RedisHas(id) ELSE MemoryHas(i, id)
-----------------------------------------------------------------------------
(* An owner's execution: the publisher, the lookup write, the settlement.  *)

\* Vercel brings the artifact of an owner up: while the publisher awaits it,
\* or after the publisher has given up or its instance has died.
Deploy(r) ==
  /\ joined[r] = r
  /\ r \notin deployed
  /\ deployed' = deployed \cup {r}
  /\ UNCHANGED <<limiter, req, phase, joined, outcome, reply, completed,
                 inFlight, redis, memory, epoch>>

\* The publisher returns the deployment's URLs.
PublisherReturns(r) ==
  /\ phase[r] = "publishing"
  /\ r \in deployed
  /\ Goto(r, "recording")
  /\ UNCHANGED <<limiter, req, joined, outcome, reply, completed, inFlight,
                 stores, epoch>>

\* The publisher throws, or its time runs out: 502 or 504, though the
\* artifact may be up by then.
PublisherFails(r) ==
  /\ phase[r] = "publishing"
  /\ Goto(r, "settled")
  /\ \E b \in {Failure(502), Failure(504)} : outcome' = [outcome EXCEPT ![r] = b]
  /\ UNCHANGED <<limiter, req, joined, reply, completed, inFlight, stores,
                 epoch>>

\* runUpstashCommand with SET: an answer, or a failure that leaves open whether
\* Redis applied it (the call is abandoned after 5 seconds).
RedisSet(id, answered) ==
  redis' \in IF answered THEN {redis \cup {id}} ELSE {redis, redis \cup {id}}

\* The in-memory store drops its oldest record for one too many.
MemorySet(i, id) ==
  memory' = [memory EXCEPT ![i] = Capped(Append(@, id), LookupCap)]

\* publishLookupStore.write, of which Redis' may fail.
WriteLookup(r) ==
  /\ phase[r] = "recording"
  /\ Goto(r, "settled")
  /\ \E written \in BOOLEAN :
       /\ outcome' = [outcome EXCEPT ![r] = Published(r, written)]
       /\ \/ /\ StoreMode = "upstash"
             /\ RedisSet(r, written) /\ UNCHANGED memory
          \/ /\ StoreMode = "memory" /\ written
             /\ MemorySet(req[r].inst, r) /\ UNCHANGED redis
  /\ UNCHANGED <<limiter, req, joined, reply, completed, inFlight, deployed,
                 epoch>>

\* Mutant of Settle: a failed execution leaves its in-flight record behind.
SettleLeavesFailed(r) ==
  LET i == req[r].inst
      k == req[r].key
  IN
  /\ phase[r] = "settled"
  /\ Answer(r, outcome[r])
  /\ IF outcome[r].status = 201
       THEN /\ inFlight' = [inFlight EXCEPT ![i][k] = None]
            /\ completed' = [completed EXCEPT ![i] =
                 Capped(Remember(@, [key |-> k, hash |-> req[r].hash,
                                     result |-> outcome[r]]), CompletedCap)]
            /\ Log(r, "record")
       ELSE UNCHANGED <<inFlight, completed, published>>
  /\ UNCHANGED <<limiter, req, joined, outcome, stores, restarts, past>>

\* The owner's continuation: the in-flight record goes; a success is kept
\* as a completed record, a failure leaves the key free.
Settle(r) ==
  LET i == req[r].inst
      k == req[r].key
  IN
  /\ phase[r] = "settled"
  /\ Answer(r, outcome[r])
  /\ inFlight' = [inFlight EXCEPT ![i][k] = None]
  /\ completed' =
       IF outcome[r].status = 201
         THEN [completed EXCEPT ![i] =
                 Capped(Remember(@, [key |-> k, hash |-> req[r].hash,
                                     result |-> outcome[r]]), CompletedCap)]
         ELSE completed
  /\ IF outcome[r].status = 201 THEN Log(r, "record") ELSE UNCHANGED published
  /\ UNCHANGED <<limiter, req, joined, outcome, stores, restarts, past>>

\* Mutant of ResumeJoined: only a success wakes the joined request.
ResumeJoinedOnSuccess(r) ==
  /\ phase[r] = "waiting"
  /\ outcome[joined[r]].status = 201
  /\ Answer(r, outcome[joined[r]])
  /\ UNCHANGED <<limiter, req, joined, outcome, completed, inFlight, stores,
                 epoch>>

\* The continuation of a joined request, before or after the owner's.
ResumeJoined(r) ==
  /\ phase[r] = "waiting"
  /\ outcome[joined[r]] # NoBody
  /\ Answer(r, outcome[joined[r]])
  /\ UNCHANGED <<limiter, req, joined, outcome, completed, inFlight, stores,
                 epoch>>
-----------------------------------------------------------------------------
(* The environment.                                                        *)

\* Instance i dies and starts afresh: every handler on it is gone, and with
\* them the maps and the in-memory store.
Restart(i) ==
  LET mine == {r \in Requests : req[r].inst = i} IN
  /\ restarts < MaxRestarts
  /\ restarts' = restarts + 1
  /\ past' = past \cup mine
  /\ phase' = [r \in Requests |->
                 IF r \in mine /\ phase[r] # "answered" THEN "dropped"
                                                        ELSE phase[r]]
  /\ buckets' = [buckets EXCEPT ![i] = [c \in Clients |-> NoBucket]]
  /\ completed' = [completed EXCEPT ![i] = <<>>]
  /\ inFlight' = [inFlight EXCEPT ![i] = [k \in Keys |-> None]]
  /\ memory' = [memory EXCEPT ![i] = <<>>]
  /\ published' = [published EXCEPT ![i] = <<>>]
  /\ UNCHANGED <<now, req, joined, outcome, reply, deployed, redis>>

Tick ==
  /\ now < MaxTime
  /\ now' = now + 1
  /\ UNCHANGED <<buckets, req, phase, joined, outcome, reply, completed,
                 inFlight, stores, epoch>>

Decide(r) == AnswerFromRecord(r) \/ JoinInFlight(r) \/ StartPublish(r)

\* Steps of r's handler that the relay's event loop and its timeouts bring
\* about once the body is read.
Progress(r) ==
  \/ PublisherReturns(r) \/ PublisherFails(r)
  \/ WriteLookup(r) \/ Settle(r) \/ ResumeJoined(r)

Next ==
  \/ \E r \in Requests :
       \/ \E i \in Instances, c \in Clients, k \in Keys, h \in Hashes :
            Receive(r, i, c, k, h)
       \/ RejectBody(r)
       \/ Decide(r)
       \/ Deploy(r)
       \/ Progress(r)
  \/ \E i \in Instances : Restart(i)
  \/ Tick

Spec == Init /\ [][Next]_vars

\* The command runner races the Vercel CLI against deployTimeoutMs, runUpstashCommand
\* aborts after 5 seconds, and a settled promise runs its continuations.
FairSpec == Spec /\ \A r \in Requests : WF_vars(Progress(r))
-----------------------------------------------------------------------------
(***************************************************************************)
(* An instance never runs two executions of one key at a time, and its     *)
(* in-flight map holds exactly the live ones: a key is neither published   *)
(* twice concurrently nor left occupied by an execution that has ended.    *)
(***************************************************************************)
InFlightIsLive ==
  \A i \in Instances, k \in Keys, r \in Requests :
    inFlight[i][k] = r <=> Live(r) /\ req[r].inst = i /\ req[r].key = k

(***************************************************************************)
(* After a success was recorded, its instance neither starts nor records a *)
(* publish of the same key before it has recorded, in between, as many     *)
(* other keys as it keeps records: a retry, however it is interleaved,     *)
(* creates no second deployment while the first is remembered.             *)
(***************************************************************************)
\* The keys whose success is recorded by the events m to n of a history h.
RecordedBetween(h, m, n) == {h[q].key : q \in {p \in m..n : h[p].step = "record"}}

RepublishOnlyAfterEviction ==
  \A i \in Instances : \A m, n \in DOMAIN published[i] :
    LET h == published[i] IN
    m < n /\ h[m].step = "record" /\ h[n].key = h[m].key
    => Cardinality(RecordedBetween(h, m, n - 1) \ {h[m].key}) >= CompletedCap

(***************************************************************************)
(* A 201, fresh or replayed, names the key and the artifact that this      *)
(* request sent, and a deployment of that artifact under that key which    *)
(* exists at Vercel.                                                       *)
(***************************************************************************)
AnswerIsForThisArtifact ==
  \A r \in Requests :
    reply[r].status = 201 =>
      LET o == reply[r].deployment IN
      /\ reply[r].key = req[r].key /\ reply[r].hash = req[r].hash
      /\ o \in deployed
      /\ req[o].key = req[r].key /\ req[o].hash = req[r].hash

(***************************************************************************)
(* A publishId that was answered resolves: for good on the shared store;   *)
(* on the in-memory one at the instance that gave it, until that restarts  *)
(* or its store is full, which drops the oldest for each new one.          *)
(***************************************************************************)
AnsweredIdResolves ==
  \A r \in Requests :
    LET id == reply[r].publishId
        i == req[r].inst
    IN id # None =>
         \/ Resolves(i, id)
         \/ /\ StoreMode = "memory"
            /\ Len(memory[i]) = LookupCap \/ id \in past

(***************************************************************************)
(* Whoever owns or joined an execution gets an answer, whatever becomes of *)
(* the execution, unless its instance dies.                                *)
(***************************************************************************)
EveryAwaitEnds ==
  \A r \in Requests :
    (Live(r) \/ phase[r] = "waiting") ~> phase[r] \in {"answered", "dropped"}

(***************************************************************************)
(* The relay implements IdempotentPublish: per instance and key, nothing,  *)
(* one artifact being published or one published result; records of        *)
(* answered publishes are what callers are told.                           *)
(***************************************************************************)
Slot(i, k) ==
  IF Remembers(i, k)
    THEN [st |-> "done", hash |-> RecordOf(i, k).hash,
          body |-> RecordOf(i, k).result]
  ELSE IF inFlight[i][k] # None
    THEN [st |-> "pending", hash |-> req[inFlight[i][k]].hash, body |-> NoBody]
    ELSE [st |-> "free", hash |-> None, body |-> NoBody]

Produced == {outcome[r] : r \in {q \in Requests : outcome[q].status = 201}}

Abstract == INSTANCE IdempotentPublish WITH
  asked <- [r \in Requests |-> [inst |-> req[r].inst, key |-> req[r].key,
                                 hash |-> req[r].hash]],
  slot <- [i \in Instances |-> [k \in Keys |-> Slot(i, k)]],
  produced <- Produced,
  told <- [r \in Requests |->
             IF reply[r].status = 201 THEN reply[r] ELSE NoBody]

ImplementsIdempotentPublish == Abstract!Spec

(***************************************************************************)
(* The inductive invariant behind the properties above: what a handler     *)
(* past its arrival holds, and where every 201 comes from.                 *)
(***************************************************************************)
SentIsTyped == \A r \in Requests : phase[r] # "unsent" => req[r] \in Asked

\* b names a deployment that is up, its key and hash, and an id that resolves.
Backed(b) ==
  /\ b.deployment \in deployed
  /\ phase[b.deployment] # "unsent"
  /\ b.key = req[b.deployment].key
  /\ b.hash = req[b.deployment].hash
  /\ StoreMode = "upstash" /\ b.publishId # None => b.publishId \in redis

AsksFor(r, k, h) ==
  phase[r] # "unsent" /\ req[r].key = k /\ req[r].hash = h

RecordingIsDeployed == \A r \in Requests : phase[r] = "recording" => r \in deployed

OutcomeIsBacked ==
  \A r \in Requests :
    outcome[r].status = 201 =>
      Backed(outcome[r]) /\ AsksFor(r, outcome[r].key, outcome[r].hash)

JoinedAsksTheSame ==
  \A r \in Requests :
    phase[r] = "waiting" =>
      /\ joined[r] \in Requests
      /\ AsksFor(joined[r], req[r].key, req[r].hash)

RecordIsBacked ==
  \A i \in Instances : \A n \in DOMAIN completed[i] :
    LET rec == completed[i][n] IN
    /\ rec.result.status = 201 /\ Backed(rec.result)
    /\ rec.key = rec.result.key /\ rec.hash = rec.result.hash

ReplyIsBacked ==
  \A r \in Requests :
    reply[r].status = 201 =>
      Backed(reply[r]) /\ AsksFor(r, reply[r].key, reply[r].hash)

IInv ==
  /\ TypeOK /\ SentIsTyped /\ InFlightIsLive
  /\ RecordingIsDeployed /\ OutcomeIsBacked /\ JoinedAsksTheSame
  /\ RecordIsBacked /\ ReplyIsBacked

(***************************************************************************)
(* What the steps of IdempotentPublish need besides: a key has one record  *)
(* and no execution beside it, a record's result is one that an execution  *)
(* came to, and a handler has neither a reply nor, before its execution    *)
(* settles, an outcome.                                                    *)
(***************************************************************************)
OneRecordPerKey ==
  \A i \in Instances : \A m, n \in DOMAIN completed[i] :
    completed[i][m].key = completed[i][n].key => m = n

RememberedIsAtRest ==
  \A i \in Instances, k \in Keys : Remembers(i, k) => inFlight[i][k] = None

RecordIsProduced ==
  \A i \in Instances : \A n \in DOMAIN completed[i] :
    completed[i][n].result \in Produced

NothingYet ==
  \A r \in Requests :
    /\ phase[r] = "unsent" => req[r] = NotSent
    /\ phase[r] # "answered" => reply[r] = NoBody
    /\ phase[r] \notin {"settled", "answered", "dropped"} => outcome[r] = NoBody

RefinementInv ==
  OneRecordPerKey /\ RememberedIsAtRest /\ RecordIsProduced /\ NothingYet

(***************************************************************************)
(* What RepublishOnlyAfterEviction needs besides: a key recorded since the *)
(* instance started is remembered, or as many others as are kept were      *)
(* recorded after it; the records that stand after a key's are of keys     *)
(* recorded after it.                                                      *)
(***************************************************************************)
RecordedAfter(i, m) == RecordedBetween(published[i], m, Len(published[i]))

IsRecord(i, m) == m \in DOMAIN published[i] /\ published[i][m].step = "record"

KeptOrPushedOut ==
  \A i \in Instances : \A m \in DOMAIN published[i] :
    IsRecord(i, m) =>
      \/ Remembers(i, published[i][m].key)
      \/ Cardinality(RecordedAfter(i, m) \ {published[i][m].key}) >= CompletedCap

RecordsInOrder ==
  \A i \in Instances : \A p, q \in DOMAIN completed[i], m \in DOMAIN published[i] :
    p < q /\ IsRecord(i, m) /\ published[i][m].key = completed[i][p].key
    => completed[i][q].key \in RecordedAfter(i, m)

EvictionInv == KeptOrPushedOut /\ RecordsInOrder /\ RepublishOnlyAfterEviction

(***************************************************************************)
(* What AnsweredIdResolves needs besides, for the in-memory store: an id   *)
(* that was given, wherever it is found, is that of an execution at the    *)
(* instance, and is stored there, unless the store is full or the id is of *)
(* an earlier life.                                                        *)
(***************************************************************************)
Kept(i, id) ==
  StoreMode = "memory" =>
    MemoryHas(i, id) \/ Len(memory[i]) = LookupCap \/ id \in past

IdIsKept(i, b) ==
  b.publishId # None =>
    /\ b.publishId \in Requests /\ phase[b.publishId] # "unsent"
    /\ req[b.publishId].inst = i /\ Kept(i, b.publishId)

LookupInv ==
  /\ \A r \in Requests : IdIsKept(req[r].inst, outcome[r]) /\ IdIsKept(req[r].inst, reply[r])
  /\ \A i \in Instances : \A n \in DOMAIN completed[i] : IdIsKept(i, completed[i][n].result)
  /\ \A r \in Requests : phase[r] = "waiting" => req[joined[r]].inst = req[r].inst

(***************************************************************************)
(* docs/PUBLISH_RELAY_OPS.md, failure model: an idempotency key reused for *)
(* a different artifact hash is a 409.  So no key is ever answered with a  *)
(* 201 for each of two artifacts.                                          *)
(***************************************************************************)
KeyServesOneArtifact ==
  \A r, s \in Requests :
    /\ reply[r].status = 201 /\ reply[s].status = 201
    /\ req[r].key = req[s].key
    => req[r].hash = req[s].hash
=============================================================================
