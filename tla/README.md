# governance-seatbelt: TLA+ models, checks and proofs

Governance Seatbelt simulates on-chain governance proposals, follows the
messages they send to other chains, runs checks on what happened, and publishes
the reports through a relay. This directory holds TLA+ modules for the parts of
it in which order, failure and shared state matter, TLC configurations that check
them on small instances, and TLAPS proofs, for every instance, of the invariants of
the relay and its rate limiter, of publishing and sharing, of the cross-chain engine and
derived runs, of the batch over all proposals, of the check runner, of the searches over
blocks and logs, of the explorers' caches, of the proposal's checks and of the action page;
and that the relay and the engine implement their abstract specifications. File and line
references are relative to `src/`.

## 1. Inventory

| Component | State it keeps | Operations | Talks to | Hard behaviour |
|---|---|---|---|---|
| **Publish relay** (`relay/server.ts`) | rate-limit buckets; completed and in-flight idempotency maps; all local to one handler | POST a report, GET a publish id | Vercel publisher, lookup store, upload script | concurrent duplicates, publishes that fail or time out, lost writes, caps, restarts, several instances |
| **Lookup store** (`relay/server.ts`, `relay/redis.ts`) | publish id → record, in memory (capped) or in Upstash | write, read | relay | a write that is applied although its call failed; eviction |
| **Publisher** (`relay/vercel-runtime-publisher.ts`, CLI in `relay/server.ts`) | a deployment and an alias at Vercel; the CLI's directory and command | create deployment, alias with retry; run `vercel deploy` under a deadline | Vercel, the CLI | deadline against readiness, alias already taken by a lost answer, exit and outputs against the deadline |
| **Simulation gateway** (`relay/simulation-gateway.ts`) | quota counters in Redis | check and spend | Tenderly, Redis | atomicity of several counters, failing closed |
| **Cross-chain engine** (`utils/cross-chain/tenderly-execution-engine.ts`) | committed state per chain, block per chain, bridge runtime store | extract jobs, run each job's calls, commit | bridge adapters, simulator | order, all-or-nothing jobs, cached blocks, failures in the middle |
| **Bridge adapters** (`utils/bridges/*`) | next Wormhole sequence per receiver, trusted LayerZero remotes | parse calldata, prepare execution, find blocks | engine, RPC | sequences consumed by earlier jobs, simulation stubs, senders that change within a proposal |
| **Pipeline and derived runs** (`index.ts`, `utils/derived-state.ts`, `utils/check-results.ts`, `run-checks.ts`) | results of a proposal, coverage | simulate, check, merge, report, gate, derive | engine, checks | partial checks, merged verdicts, a gate that must fail closed |
| **Check runner** (`utils/check-runner.ts`) | results so far, a global deadline | run each check against a deadline | checks | late answers, checks that never answer |
| **Proposal checks** (`checks/*`) | compiler installs, temporary directories; else what one call gathers | analyse one simulation | RPC, explorers, tools | workers that share a list, reads that fail, incomplete evidence, scans of bytes |
| **Proposal cache** (`utils/cache/proposalCache.ts`) | one JSON file per proposal | read, write, decide on reuse | `main`'s batch | age, terminal states, crash between writes |
| **Governance Checks workflow** (`.github/workflows/governance-checks.yaml`) | saved `cache` and `reports` directories | restore, run up to five attempts, sign, save | `main` | attempts killed anywhere, stale restored files |
| **RPC and Tenderly clients** (`utils/clients/client.ts`, `rpc-*.ts`, `tenderly.ts`) | trace queues | simulate from overridden state, trace with pacing and retry, chunked logs, balances, storage | nodes, gateway | retries, chunk boundaries, a chain that moves while it is read |
| **Managed access** (`utils/clients/managed-access.ts`) | the team's code in a file, temporary files | read, check, type, save | gateway | crashes between the writes, concurrent writers, a code that changes |
| **Block explorers** (`utils/clients/block-explorers/*`) | verification, ABI and name caches in memory and on disk; shared lookups of a report | look up, fill | explorers, Sourcify, 4byte | concurrent fills, answers that must not be cached |
| **Upload script** (`scripts/upload.ts`) | the publish log | validate, log, post with timeout | relay | its timeout against a relay that goes on |
| **Presentation** (`presentation/report.ts`) | the files of a report | status, trust, preview, write | pipeline, frontend | one part or file that fails |
| **Frontend** (`frontend/`) | share-link limiter; the action page's mutations | share, view a published report, propose or execute it | relay, Vercel, wallet, governor | window boundaries, artifact and metadata that do not belong together, a report and a wallet that change while one is signed |

What makes each correct:

- *Relay*: one execution per key at a time; a repeated post of a remembered key
  is answered from the record; an answer is about the artifact that was sent;
  every waiting request ends; an id that was given out resolves.
- *Rate limiter*: bounds a client's traffic, never punishes it for another's, and
  its `Retry-After` is honest.
- *Engine and adapters*: each message is delivered once, in source order, to the
  state its predecessors left, or not at all.
- *Pipeline and presentation*: a PASS hides nothing, from whichever file it is read; a
  dependent proposal is simulated only on a fully validated predecessor.
- *Simulation*: it says what executing the proposal would do and nothing that comes from
  its own overrides.
- *Check runner*: every check has a verdict, in bounded time.
- *Checks*: what they tell is true of the transaction, and what they could not see they say.
- *Caches*: a proposal that may have changed is simulated again; what is said of a
  contract was once the answer of someone who knew, recently enough.
- *Publishing*: a link shows what its run sent; an artifact is published once.
- *CLI publisher*: it answers with an address that is up, and leaves nothing running.
- *Action page*: what is signed was reviewed, once.
- *Gateway, limits, access*: no allowance is lost or exceeded, every call ends, access is regained.

Every component, with what is not modelled and why, is in `PROJECT.json`
("components"); every hazard with its line is there under "hazards".

## 2. The modules

| Module | Models | Composes |
|---|---|---|
| `RateLimit` | `ensureRateLimitAllowance`, `maybePruneRateLimitBuckets` as operators on one bucket map | |
| `RateLimiter` | the limiter with its clock and a log of arrivals | `RateLimit` |
| `ShareLinkLimiter` | the share route's sliding log | |
| `SimulationGateway` | the quota script and its counters as operators | |
| `TracedCalls` | a process's paced and repeated traces, other processes' calls | `SimulationGateway` |
| `ManagedAccess` | processes that read, check, type and save the team's code | |
| `RuntimePublisher` | `publishViaVercelApi` and Vercel | |
| `CliPublisher` | `defaultRelayPublisher` and `defaultRunCommand` with the command | |
| `ReportViewer` | `GET /api/simulation-results` as operators | |
| `UploadAndShare` | upload command, share button, relay as a slot per key | `RuntimePublisher`, `ReportViewer` |
| `UploadAndShareProofs` | theorems of `RuntimePublisher` and `UploadAndShare` | `UploadAndShare`, TLAPS |
| `ActionPage` | the page that proposes and executes, the wallet and the governor's answer | |
| `LonePartsProofs` | theorems of `RateLimiter`, `ShareLinkLimiter`, `TracedCalls`, `CliPublisher` and `ActionPage` | those five, TLAPS |
| `IdempotentPublish` | *abstract*: per instance and key nothing, one artifact pending, or one result; callers are told results | |
| `PublishRelay` | the POST handler, publisher, lookup stores, restarts | `RateLimit`; implements `IdempotentPublish` |
| `PublishRelayProofs` | theorems of `PublishRelay` | `PublishRelay`, TLAPS |
| `OrderedDelivery` | *abstract*: messages judged one by one in source order; a chain carries exactly the delivered ones | |
| `CrossChain` | `handleCrossChainSimulations` with the Wormhole and LayerZero adapters | implements `OrderedDelivery` |
| `DerivedRun` | checks per call, merge, coverage, gate, dependent run | extends `CrossChain` |
| `CrossChainProofs` | theorems of `CrossChain` and `DerivedRun` | `DerivedRun`, TLAPS |
| `ProposalBatch` | the workflow's jobs and attempts, `main`'s batch over all proposals, the proposal cache | |
| `ProposalBatchProofs` | theorems of `ProposalBatch` | `ProposalBatch`, TLAPS |
| `BridgeMessages` | the five bridge adapters over a proposal's actions | |
| `BlockSearch` | `findBlockNumberAtOrBeforeTimestamp` | |
| `EventSearch` | the Tenderly client's windows over the RPC transport's chunks | |
| `ProposalExecution` | the simulation of new, proposed and executed proposals, and of a dependent one | |
| `VerificationCache` | is a contract's source published | |
| `AbiLookup` | ABIs, signatures and names of a contract | |
| `PermissionEvidence` | `checkPermissionDiff` over the traces of a transaction | |
| `CallMatching` | `checkDecodeCalldata` with its two workers | |
| `BalanceEvidence` | balance reads, quotes, `checkAssetBalances`, `checkTreasuryMovement` | |
| `StorageEvidence` | `checkStateChanges`, storage layouts, `encodeRpcState` | |
| `ContractChecks` | selfdestruct, verification, proxies, logs, solc and Slither | |
| `ProposalChecksProofs` | theorems of `ContractChecks`, `CallMatching`, `StorageEvidence`, `PermissionEvidence` and `BalanceEvidence` | those five, TLAPS |
| `ReportDecision` | merge, coverage, report, files, and what readers make of them | |
| `EvidenceProofs` | theorems of `BlockSearch`, `EventSearch`, `ReportDecision`, `BridgeMessages` and `ProposalExecution` | those five, TLAPS |
| `CheckRunner` | `runChecksWithTimeouts` over several calls | |
| `ChecksProofs` | theorems of `CheckRunner`, `VerificationCache` and `AbiLookup` | those three, TLAPS |
| `MC*` | constants for TLC | |

### PublishRelay

An action is what the handler does between two awaits, since one JavaScript
thread runs it. `phase[r]` says where the handler of request `r` is:

| Action | Code |
|---|---|
| `Receive` | up to reading the body: prune, rate limit, 429 (1147–1193) |
| `RejectBody` | unreadable, too large or invalid artifact (1257–1340); status 400 stands for its 400, 413 and 500 |
| `AnswerFromRecord` | completed record: replay or 409 (1347–1363) |
| `JoinInFlight` | in-flight record: wait or 409 (1365–1390) |
| `StartPublish` | own an execution (1392–1475) |
| `Deploy` | Vercel brings the artifact up, independently of the publisher's call |
| `PublisherReturns`, `PublisherFails` | the publisher's call ends; it may fail although the artifact is up |
| `WriteLookup` | the record of the publish id, by `RedisSet` or `MemorySet`; Upstash may fail before or after applying it (1410–1427). A failed write is reported in the answer, which then carries no publish id |
| `Settle` | free the key, keep a success, cap the map (1477–1511) |
| `ResumeJoined` | the continuation of a joined request (1378–1389), before or after the owner's |
| `Restart` | an instance ends: its maps, its memory and its handlers are gone, deployments and Redis are not |
| `Tick` | the limiter's clock |

An execution is named by the request that owns it, and so are its deployment and
its publish id. `published` is a history: what each instance has started to publish and recorded as
published since its start, in order. The default key of a request without a header is the artifact
hash, therefore `Hashes \subseteq Keys`. Not in the model: the TTL of
lookup records, authentication and CORS answers (they change no state), the
in-memory store's duplicate ids (ids are fresh per execution).

### CrossChain

`pc` says what the loop does next. A chain's state keeps what jobs can tell
apart: the calls applied to it, the Wormhole receiver's overridden sequence,
whether storage of the LayerZero receiver is overridden, and whether the Wormhole
core is replaced by the stub. `Extracted` lists the jobs as the adapters find them
(by adapter, then by action), `InSourceOrder` sorts them by action. Both are stated by
rank, "the job that n - 1 others come before", and not by recursion, so that proofs can
use them; `BeginJob`/`FindBlock`/`LookupFails` are the cached
block lookup, `Prepare`/`PrepareFails` the adapters, `CallSucceeds`/`CallFails` the
call loop, with commit and discard. `SkipUnsupported` is the chain without L2
checks. The receiver contract is external: it accepts a message whose sequence is
at least the next one.

### DerivedRun

The pipeline over one `CrossChain` run: `CheckSource` and one `CheckCall` per
successful call, in order (`unchecked` holds the calls still to come), `Merge` of verdicts of the calls of one chain, `CheckThrows` for the
exception that keeps what was merged so far, `Coverage` rows, `GatePasses`
(`evaluateDependencyOutcome`), `Derive`, which starts the dependent proposal on the
predecessor's destination states, and `SkipDerived`. A check's verdict is ok,
error or skipped. Left out: overrides of the source chain itself (they are in
`ProposalExecution`), the inference of skips from info texts and report files (`ReportDecision`), and caching.

### ProposalBatch

A job of the workflow (`.github/workflows/governance-checks.yaml`) gets the saved
directories (`StartJob`), and runs `bun start` up to `MaxAttempts` times on the same
disk (`Retry`). An attempt lists the proposals (`Begin`), reads their states one
call after the other (`ReadState`), sorts out what the cache will do for
(`Decide`, `needsSimulation`), and takes the rest (`todo`, in the order of their numbers;
`simProposal` is the next) one by one: `Simulate`,
`WriteReport`, `ReportWritten`, `cacheProposal`. Meanwhile proposals are created and
move (`Govern`), time passes (`Tick`) and the code changes (`Push`).

`Abort` is an exception or the attempt's time limit, anywhere; a report or an entry
being written is then `Torn`. The four files of a report are one here. An entry
that fails to be written is logged and the batch goes on, as in the code.
`actions/cache` saves at the end of a job that succeeds, and only if the key was not
restored exactly: `hit`. `published` is the signed bundle of the last job that
succeeded; the unsigned artifact, which failed jobs upload too, may hold anything
and is left out.

An entry and a report carry the state that was read for them, and a report also
the state that its simulation met. That tells a report made for another state
from one that is current. Left out: two jobs at once (the workflow has no
concurrency group, but jobs share nothing except the saved directories), derived
runs, which bypass the cache and are started by hand, and the log output about
cached proposals.

### CheckRunner

`runChecksWithTimeouts`, called once for each simulation. The loop's turns are
`OutOfTime`, `StartCheck` and `Finished`; the race of a check against its timer ends by
`Settle` (answer or exception, `runCheckSafely`) or `TimeOut`. A check that lost runs on
and ends unheard (`SettleUnheard`), perhaps in a later call (`NextCall`). JavaScript has
one thread: while a check computes (`Hold`, or from its start), no timer is heard
and no other check settles, but the clock goes on. A check that has overrun its
time that way may still win the race, because its promise settles before the
timer's turn; the model has that. `began` is a history variable.

### Limits and access: ShareLinkLimiter, SimulationGateway, TracedCalls, ManagedAccess

`ShareLinkLimiter` keeps the times of a client's requests and cuts them at the window, which makes its
limit exact, where the relay's fixed windows allow up to twice theirs. `SimulationGateway`
has the Lua script as one step: `Refuses(kind)` looks at every quota of a call, and only a
call that none refuses is counted in all of them. `TracedCalls` is `simulationRpc`: a call waits
for its slot in the chain of promises, is asked, and either ends, or naps and takes another slot.
`ManagedAccess` follows one run from `ReadSaved` to `ready`, with `WriteTemporary`, `RenameTemporary` and
`RemoveTemporary` as the steps that a crash may come between; a pid may be used again, so its
temporary file may be there already.

### Publishing: RuntimePublisher, ReportViewer, UploadAndShare

An execution of the relay creates a deployment (`createDeployment`, which may fail after Vercel
acted), asks for its alias (`AliasAnswered`, `AliasRefused`, `AliasFails`, `AliasAgain`) and ends with the alias or
with the deployment's own URL. Time is counted down from the alias budget. `UploadAndShare`
adds who asks: `Upload` and `Share` read the results file, which another simulation may rewrite
(`Resimulate`), and send it under the hash of what they send; `GivesUp` is their timeout, after
which the execution goes on; `Accept` is the relay's slot for a key as `IdempotentPublish` promises it, and
`Release` frees the slot of a failed execution. The upload command and the share route serialise an
artifact through different schemas, so the same results file gives each its own bytes
and hash. `ReportViewer` judges what a link shows: artifact and metadata may not be
fetched, and must belong together.

`CliPublisher` is the other way to publish. `Misconfigured`, `PreparationFails` and `CliMissing` end an
execution before its command runs; `Spawn` starts the command and the timer. The command `GoesLive`, `Prints`
and `Exits`; what the handler sees of it are `ExitSeen` and `PipeEnds`, in any order, and `TimerFires` is the
deadline that kills it. Each of these three may settle the race between completion and deadline
(`Happens`), and whatever follows, up to the answer, happens at once.

### ActionPage

The viewer's `/action` page. `Click` is the button and the mutation up to its first await, with the report that
its closure holds; `Switched`, `WalletRefuses`, `Signs`, `Receipt` and `ReceiptLost` are the mutation's awaits;
`Mined` is the chain. Meanwhile the report is `Refetched` (which may fail), the user moves or disconnects the
wallet (`WalletMoves`) and leaves the page and comes back (`Reopened`), which forgets the mutations under way.
A report is its type, its state, its id and its calls; the wallet and the governor are external.

### Evidence of a report

Each of these modules is one component with its own variables; none shares any.

- `BridgeMessages`: `Scan` is one action under one adapter, `NextAdapter` moves on and sorts at the end, where
  a job's place is its rank. A
  message is its target, function, lane and what its calldata decodes to. `SenderOf` is a reference
  definition that looks at the whole proposal, where the code keeps a map while it scans.
- `BlockSearch`: `LatestNumber`, `LatestBlock`, `Probe`, with `RequestFails` and `NewBlock` anywhere between.
- `EventSearch`: the client takes one range after the other (`Ask`, `Reply`); the transport asks for it whole
  or in chunks (`AskWhole`, `AskChunk`); the chain grows (`TipGrows`).
- `ProposalExecution`: proposals are created and settled on the chain while `Pinning`, `NewId`, `ReadProposal`
  and `FindEvent` read it; `SendNew` and `SendProposed` run `execute` on overridden slots, `ReplayBravo` and
  `ReplayOz` trace what was executed; `Depend` starts the dependent run. `Sends` lays the overrides over each other in
  the code's order: the chain, an earlier run's changes, the seeds, the governor's slots, and last
  `EtherOverrides`, which sets the timelock's balance to the sum of what the calls send if they send any, whatever the
  others say of it (`utils/clients/tenderly.ts:791`). The governor, the timelock and the
  calls of a proposal are external: a call needs facts and makes facts, one of them that the timelock is `Rich`.
- `VerificationCache` and `AbiLookup`: one contract, several lookups. `ReadCaches`, then Sourcify and
  the explorer, or the explorer and then Sourcify for ABIs, each with its failures; `ProcessEnds` and `LookupRestart`
  may leave half a file.
- `PermissionEvidence`: a transaction changes powers by calls that leave events, call inputs and storage
  differences, each of them or not; `Check` is the whole check on what was left. Who has a role at the
  start is a constant, so that a revocation may come first.
- `CallMatching`: `Take` an action, then one step for each lookup that suspends (`Abi`, `Proxy`,
  `Implementation`, `Fallback`, `Token`), `Gather` at the end.
- `BalanceEvidence`: `Native`, a step for each candidate token, `Prices`, `Report`. Reference: the balances themselves.
  A contract that reverts on `balanceOf` and is not called as a token is dropped silently by the code, and is no asset here.
- `StorageEvidence`: `Write` by any frame of a call trace, `CheckStates`, `NextCall` for the further calls that a chain is
  sent, and `Encode` for overrides. `KeptLines` is what `mergeCheckResult` keeps of the lines of all calls, and
  `ListedChanges` what the report reads from them. A word has two parts, so that two fields can share it.
- `ContractChecks`: `BeginCheck`, then one step for each contract, `EndCheck`; solc and Slither pass over the governor's
  implementation if it can be read (`archive`), and share compilers, of
  which a failed installation is kept for the life of the process, as in the code. The reference for the scan of
  bytecode is what the machine can execute (`Executable`).
- `ReportDecision`: from `CheckSource` to `WriteResults`. `Decision` is the consumer rule of `docs/API.md`; `AllPassed` and
  `ListedJobs` are what the page shows. What `index.ts` does for a batch, `run-checks.ts` does for one proposal.

## 3. What TLC checks

| Run | Instance | Shows |
|---|---|---|
| `lone_parts` | one of six parts at a time. Relay: 2 clients, window 3 half-seconds, 2 requests, prune above 1 bucket, 7 arrivals until time 7. Share: the same with 5. Traces: 2 calls, 3 attempts, quotas of 1 and 2. Access: 2 pids, 2 codes, 2 faults. CLI: 1 publish. Action page: 2 clicks, 2 visits, 7 reports of all types, 2 chains | `LimitIsExact`, `RetryAfterSuffices`, `ShareLimitIsExact`, `AllowanceIsHonest`, `AnsweredIsDone`, `SignedIsReviewed` and, under fairness, `EveryCallEnds` and `AccessRegained` |
| `upload_and_share` | 2 runs, 2 executions (both symmetric), 2 artifacts of either way, alias budget 5 with retries after 2 | `AliasBudgetIsUsed`, `LinkShowsWhatWasSent`, `RerunsPublishOnce` |
| `evidence` | one of twelve parts at a time, see the table below | one invariant for each part |
| `publish_relay` | 1 instance, 3 requests (symmetric), 2 hashes = 2 keys, Upstash, 1 completed record kept, 1 restart | `InFlightIsLive`, `RepublishOnlyAfterEviction`, `AnswerIsForThisArtifact`, and that the relay implements `IdempotentPublish` |
| `publish_relay_memory` | 1 instance, 3 requests of one artifact, memory store of 2 records, limiter on, 1 restart | `AnsweredIdResolves` at the cap and, under fairness, `EveryAwaitEnds` |
| `cross_chain` | every proposal of up to 3 jobs of 6 kinds, 3 chains, 2 blocks | `CallsSeeTheirPast`, `SequenceIsCurrent`, and that the engine implements `OrderedDelivery` |
| `derived_run` | predecessors of up to 2 jobs, dependents of up to 2, 2 checks, 4 outcomes of a check run | `GateIsFailClosed`, `DependentBuildsOnPredecessor` |
| `proposal_batch` | 2 proposals that go from none to active to executed, 2 attempts, 2 faults, 1 push, clock to 1 with entries fresh at age 0 | `PublishedIsComplete`, `ReusedIsCurrent` and, under fairness, `EveryEndIsReported` |
| `check_runner` | 3 checks with times 2, 1 and 4 in 2 calls of time 5, event loop held for up to 3 | `SkipsAreEarned`, `EndsInTime` and, under fairness, `EveryCheckHasVerdict` |
| `doc_conflict` | 2 instances, 2 requests | *violation*, see below |
| `doc_coverage` | as `derived_run` | *violation*, see below |
| `doc_terminal` | 1 proposal that is canceled, no faults | *violation*, see below |

The parts of `evidence` (`MCEvidence` picks one by `which`; the others rest at a state of
theirs, so the run is the sum of the parts and not their product):

| Part | Instance | Invariant |
|---|---|---|
| verification | 2 processes, 3 lookups, 2 retries, entries kept 1 or 2 ages, 1 crash | `VerdictIsWarranted` |
| block | chains of up to 5 blocks with 3 timestamps, 2 attempts | `SearchFindsLast` |
| event | chains of up to 7 blocks, chunks of 2, windows 1 and 2 | `EventsAreFound` |
| execution | 5 plans of 1 or 2 of 4 calls that need facts which another call or a seed makes, one of them ether of the timelock, and send 0, 1 or 2; both governors, 1 dependent run, 7 blocks | `SimulationIsExecution` |
| messages | all lists of up to 2 of 23 actions on 7 contracts, and of 3 of 7 actions, LayerZero's and one of each of two others | `MessagesBecomeJobs` |
| decision | job lists of up to 2 jobs and 3 steps on 4 chains, 2 checks with 5 outcomes | `PassHidesNothing` |
| permissions | 7 powers of 5 contracts, 1 contract with roles and a member, 3 changes | `PowersAreTold` |
| calls | 5 proposals with equal and malformed actions, 3 sets of inner calls, 2 workers | `ActionsAreDescribed` |
| balances | 4 transactions over ether, 2 tokens and a contract that is none; every read may fail | `TreasuryTotalsAreReal` |
| storage | 5 call traces over a proxy, 2 implementations and a library, 2 writes and a second call that writes once, 3 override lists | `StorageIsUnderstood` |
| contracts | all code of up to 3 instructions of 7, and of 4 after a jump; 4 sets of checks run alone, and solc beside Slither where one of them can read the governor's implementation | `CodeIsTold` |
| lookup | 3 inquiries that are a check's, a report's or for a name, 2 providers, 2 tries, 1 restart | `LookupsAreShared` |

`MCContracts` and `MCPurposes` take only the combinations that can differ: what is deployed matters
to the scans, how tools run to solc and Slither, and who asks to shared lookups. `MCEncoding` takes one list of
overrides but where the call is undone, since what is encoded matters to no write; `MCCalls` lets a second call
come after two writes of the first, as a plain one that writes once.

Each property is stated above its definition in words. Each has a mutant of the
code's definition, a plausible slip such as a dropped comparison or a missing
reset, that TLC finds to violate it (`PROJECT.json`, "mutants").

**Why the bounds are enough for their questions.** The limiter needs two full
windows and one prune while a live bucket exists: the clock passes 2 × 3 and the
prune threshold is one bucket. The relay's hazards need an owner, a request that
joins or conflicts, and one that comes after; with two keys and one record kept,
the third request meets an evicted record. One restart separates two lives of an
instance. With one artifact, the memory run fills and overflows a store of two.
Three jobs give the engine a job before and after a failing one on the same
chain, and each pair of bridge kinds in both orders; two blocks tell a cached
lookup from a second one. Two-job predecessors and two-message dependents are
what a sequence carried across runs needs. A batch of two proposals has one that is
reused or finished while the other is read, simulated or killed; two attempts and
two faults let a whole job fail; a clock of two values and a push give entries that
aged and entries of older code. The governor's states differ for a batch only in
whether they are left again and whether the cache takes them as terminal, so one of
each will do; the state the cache does not know is in `doc_terminal`. The three
checks' times have the first outlive the second, and the third exceed what is left
of the call, so each of the two kinds of timeout happens.

The parts of `evidence` are chosen likewise: a second lookup beside the one that fills or spoils
a cache; one more block than a bisection's step or a chunk holds; a third action so that a
trusted remote is set, changed and used; two jobs on one chain and two chains; a change, its
reversal and another; an action that equals an earlier one; a read that fails before or
after; a second code that writes the same storage; data that looks like an instruction. Two
runs of a publish and two executions have one repeat or race the other; publishes through the CLI share
nothing, so one will do; two clicks meet on one visit or on two, with seven reports that
the page tells apart; two calls and quotas
of one or two meet a quota that is spent and one that expires.

**Bounds by name.** `MaxTime` and `MaxArrivals` (`RateLimiter`), `ShareEnd` and `ShareRequests`
(`ShareLinkLimiter`), `MaxCode` and `MaxFaults` (`ManagedAccess`), `LookupWorks` (`UploadAndShare`: the
store's failures are those of `PublishRelay`), `MaxCrashes` (`VerificationCache`), `LastBlock` and
`MaxStamp` (`BlockSearch`), `Final` (`EventSearch`), `MaxHead` (`ProposalExecution`), `MaxActions`
(`BridgeMessages`), `MaxChanges` (`PermissionEvidence`), `MaxCalls` and `MaxWrites` (`StorageEvidence`), `MaxRestarts`
(`AbiLookup`), `Jobs` and `MaxVisits` (`ActionPage`), `MaxTime` and
`MaxRestarts` (`PublishRelay`), `MaxTime`, `MaxFaults` and `MaxPushes` (`ProposalBatch`), `Calls`
and `MaxHold` (`CheckRunner`), the finite sets of requests and proposals.
`CompletedCap` and `LookupCap` are the code's 5,000 and 10,000, `PruneSize` its
10,000, `MsPerSecond` its 1,000, `MaxAge` its 4 hours, `MaxAttempts` its 5, at small values.

**Deadlock** is not checked in any run: a run of the program ends, the requests
and the clock are bounded, and a state without successor is then the normal end.
What should not get stuck is stated by `EveryAwaitEnds`, `EveryCallEnds`, `AccessRegained`, `EveryEndIsReported`
and `EveryCheckHasVerdict`.

**Fairness.** `FairSpec` has weak fairness of `Progress(r)`: the publisher's call
ends, one way or the other, the lookup write ends, and ready continuations
run. The first is justified for the CLI publisher by the timeout in
`defaultRunCommand` (226–281), the second by the five-second abort in
`relay/redis.ts`, the third by the event loop. The Vercel API publisher's
`createDeployment` fetch has no timeout of its own: there the platform's
limit on an instance ends the wait, which is `Restart`. Nothing is
assumed about requests arriving, bodies, restarts or the clock.

`ProposalBatch` has weak fairness of `Job`: the schedule starts jobs for ever, an
attempt goes on or is killed by its 60 minutes, and kills and failing writes are
bounded by `MaxFaults`. A proposal whose simulation fails in every attempt, or a
batch that is always longer than an attempt, would break that assumption; the
first is listed as a hazard. `CheckRunner` has weak fairness of the loop's own steps, of
due timers and of time, which is what the event loop gives; no check need settle.

`TracedCalls` has weak fairness of time, of the queue's next slot and of each call's own steps: timers
fire and a request ends, by an answer or by its timeout. `ManagedAccess` has weak fairness of what a
run does by itself, with a user who types the team's code when asked and starts the run
again; mistyped codes, crashes and changes of the code are bounded, and without that bound access
could be lost again and again.

### Disagreements between documents and code

- `KeyServesOneArtifact` (`doc_conflict`): `docs/PUBLISH_RELAY_OPS.md:112` promises a
  409 when a key is reused for another artifact. The maps behind that
  answer are local to an instance (`relay/server.ts:1141`), so two instances each
  answer 201. What the code does guarantee, per instance and while the record is
  kept, is `IdempotentPublish` and `RepublishOnlyAfterEviction`.
- `CompleteMeansChecked` (`doc_coverage`): `docs/API.md:159` says coverage tells
  whether each check executed, and line 54 to treat a report with skips as
  incomplete. `mergeCheckResult` (`utils/check-results.ts:41–48`) keeps a skip only
  when all merged runs were skipped, so a call that a check could not examine
  disappears behind another call of the same chain. By the same merge the
  dependency gate passes when all checks of a later call were skipped;
  `GateIsFailClosed` states what it does guarantee: some check ran on each chain
  and none found an error on any call.
- `TerminalIsNotRerun` (`doc_terminal`): the comment at
  `utils/cache/proposalCache.ts:197` calls its list terminal states, but the list
  spells `Cancelled` where both governors' tables have `Canceled`
  (`utils/contracts/governor-bravo.ts:16`, `governor-oz.ts:17`), so canceled proposals are
  simulated again whenever their entries have aged. (`Defeated` is not in the list
  either; that may be meant.)

## 4. What is proved

`PublishRelayProofs` proves, for every value of the constants that satisfies
`RateLimitAssumption` and `RelayAssumption` (caps and window at least 1, null values
outside the sets they complete; TLC evaluates both on every run):

- `RelayTypeCorrect`: `Spec => []TypeOK`
- `RelayInFlightIsLive`: `Spec => []InFlightIsLive`
- `RelayAnswersTheArtifact`: `Spec => []AnswerIsForThisArtifact`

Neither of the last two is inductive alone. `IInv` (in `PublishRelay`, so that TLC can check it
too) adds what a handler relies on after an await: a request that was sent has all its
fields (`SentIsTyped`); an execution that is recording has a deployment
(`RecordingIsDeployed`); a settled success is about a deployed artifact
of its owner (`OutcomeIsBacked`); a waiting request asks for the key and hash of
the owner whose promise it holds (`JoinedAsksTheSame`), which is what makes
it safe to answer it with that promise's value after the in-flight entry is gone;
records and answers are backed by such successes (`RecordIsBacked`, `ReplyIsBacked`).
The module has lemmas about `Capped` and `Remember` (what they keep of a sequence
of records), one about each step of the handler, and ends with `Init => IInv`, `IInv /\ [Next]_vars => IInv'`
and the three theorems.

`ChecksProofs` proves of `CheckRunner`, from `RunnerAssumption` (positive counts and times, any bound on
how long the event loop is held):

- `RunnerTypeCorrect`: `Spec => []TypeOK`
- `RunnerSkipsAreEarned`: `Spec => []SkipsAreEarned`
- `RunnerEndsInTime`: `Spec => []EndsInTime`

Here `IInv` adds that a check has no verdict before its turn (`VerdictsInTurn`: otherwise
restarting the clock of a check would spoil an earned verdict), that the timer is
the check's time or the call's, whichever comes first (`TimerIsSet`: it makes the
choice of `timeoutKind`, made from the timer, right when it goes off), and that time
plus the rest of a hold stays below the latest end (`HeldInTime`).

The id of an answer is proved separately: `RelayAnsweredIdResolves` (`Spec => []AnsweredIdResolves`, for either
`StoreMode`) needs besides `IInv` that only successes carry ids (`OnlySuccessHasId`) and, for the in-memory
store, `LookupInv`: wherever an id was given - an outcome, a completed record, an answer - it is that of an
execution at that instance, and stored there unless the store is full or the instance has restarted since
(`IdIsKept`). `MemorySetKeeps` says what the cap leaves, `KeptStays` that no step takes a kept id
away, `LookupInvStays` that only what is given anew has to be looked at.

`RelayImplementsIdempotentPublish` (`Spec => ImplementsIdempotentPublish`) maps every step of the relay to a
step of `IdempotentPublish` or a stutter: a step that settles an execution is `Produce`, one
that answers is `Tell`, a restart forgets. Each action has its lemma (`ReceiveIsAbstract` ...
`RestartIsAbstract`), and `AbstractStepIsNext` says once what a step has to do to the mapped slots to be one. Besides
`IInv` this needs `RefinementInv`: a key has one record and no execution beside it, and a record's
result is one that an execution came to.

`RelayRepublishesOnlyAfterEviction` (`Spec => []RepublishOnlyAfterEviction`) speaks of what an instance did between two
moments, and `EvictionInv` is that said of now: a key recorded since the instance started is still remembered, or
as many others as it keeps were recorded after it (`KeptOrPushedOut`); and the records that stand after a key's are of keys
recorded after it (`RecordsInOrder`), so that a full map which pushes a key out shows the count. `BetweenGrows` says what one
more event makes of a history, `NextEventIsAfterEviction` why a start or a record that comes next is
allowed, and `StartIsConsistent` and `RecordIsConsistent` join them for the two kinds of event.

`ProposalBatchProofs` proves, from `BatchAssumption` (the governor's moves have a rank, states that the code
lists as terminal are final, the signs for no file and a torn file are no files):

- `BatchInvariant`: `Spec => []IInv`
- `BatchPublishesComplete`: `Spec => []PublishedIsComplete`
- `BatchReusesCurrent`: `Spec => ReusedIsCurrent`

The pair of an entry and a report is `Usable` for a state if the entry is `Outdated`, and will be for every later
state, or the report `Belongs` to it. `FilesAreUsable` says so of the disk and of what was saved,
`ReadIsUsable` of the disk for the states that an attempt has read, which the governor may have
left since; `WorkIsKnown` and `SimulationFits` say where the batch stands. Torn files,
restored directories and time passing then need no case of their own.

`CrossChainProofs` proves, from `EngineAssumption` and `DerivedAssumption` (jobs of a proposal have different
names, the null value is none of the others):

- `EngineInvariant`, `EngineCallsSeeTheirPast`, `EngineSequenceIsCurrent`: `EngineInv`, `CallsSeeTheirPast` and
  `SequenceIsCurrent` under `Spec`
- `EngineImplementsDelivery`: `Spec => ImplementsOrderedDelivery`
- `DerivedInvariant`, `DerivedCallsSeeTheirPast`, `DerivedGateIsFailClosed`, `DerivedBuildsOnPredecessor`: `DerivedInv`,
  both engine invariants in both runs, `GateIsFailClosed` and `DependentBuildsOnPredecessor` under `DerivedSpec`

`EngineInv` accounts for every piece of the engine's state: the queue holds the jobs still to come, in order
(`InTurn`); the working copy is the committed state and the effects of the calls made so far
(`CopyIsCurrent`); a committed state is its base and what the successful jobs left (`CommittedIsLeft`); the
recorded steps fit that past (`StepsFit`); the runtime store is at the sequence that the committed state
has reached (`StoreIsCurrent`), which is what keeps a failed Wormhole job from moving it. The lemma
`JobsAreInSourceOrder` counts ranks to show that `InSourceOrder(Extracted(p))` is `1..Len(p)`. The refinement maps finished
jobs to judged messages; only the step that ends a job is visible.
`DerivedInv` adds that no error found is merged away (`SeenIsMerged`), that what was skipped counts as skipped
(`MergedIsSeen`), and that while all jobs succeed a chain has exactly what was sent there
(`GrowsAsSent`). `SentBy` is a recursive function; that it exists and grows by one job at a time is
proved from a least number at which it would not, as first-order logic allows.

`UploadAndShareProofs` proves, from `PublisherAssumption` (budget and retry delays at least 1) and
`UploadAssumption` (every artifact has a key for each way it is sent):

- `ShareInvariant`: `Spec => []ShareInv`
- `ShareAliasBudgetIsUsed`: `Spec => []AliasBudgetIsUsed`
- `ShareRerunsPublishOnce`: `Spec => []RerunsPublishOnce`
- `ShareLinkShowsWhatWasSent`: `Spec => []LinkShowsWhatWasSent`

A sleep between two attempts ends within the budget (`SleepFits`). For the links, `HostIsOwn` says that no other
execution has taken the host of one, and `HandedOut` that an address given as an alias leads
to its execution; `SlotIsHeld` and `HolderFits` tie what is being published to the slot of its key, in
both directions, and `RunIsServed` ties a run to an execution of what it sent. Two executions of one artifact
would have to hold the same slot.

`LonePartsProofs` has five components that share nothing.

- `LimiterIsExact` (`Spec => []LimitIsExact` if `RateLimitEnabled`; without the limit nothing is promised) and
  `LimiterRetryAfterSuffices` (`Spec => []RetryAfterSuffices`), from `RateLimitAssumption`, of `RateLimiter`.
  `BucketIsExact` says that a bucket counts the admissions of its window and that the window's length before it
  had no more than the allowance, and that a client without a bucket had none for a
  window's length: so pruning at twice the window loses nothing, and any stretch meets two
  windows at most. `RefusalIsHonest` says that the window which refused is over when its `Retry-After`
  is. The proofs speak of the log, the buckets and the time as values (`Exact`, `Honest`, `Holds`),
  with one lemma each for time passing, pruning, opening a window, counting in it and refusing.
- `ShareLinkLimitIsExact`: `ShareSpec => []ShareLimitIsExact`, from `ShareAssumption`, of `ShareLinkLimiter`. `Counted`
  ties a client's stamps to the history: from any time within the last window on, as many requests were let in
  as there are stamps, which filtering, appending and time passing each keep (`StampedRecent`, `StampedLetIn`,
  `StampedLater`). `Due` says of every refusal that the window it ended was full, and that what had been
  let in would not fill the window at the end of the wait that it told: a second refusal then needs
  someone let in meanwhile (`WaitSuffices`).
- `GatewayAllowanceIsHonest`: `TracedSpec => []AllowanceIsHonest`, from `GatewayAssumption`, of `SimulationGateway` under
  `TracedCalls`. `QuotaFits` parts the calls that have spent a quota into those of the counter's own window,
  which come last and which it counts, and at most a limit's worth of older ones, which are gone by the time
  the counter expires (`PartedSpends`, `PartedLives`, `PartedExpires`).

  Both modules cut a log with a filter written as a recursive function. `KeptExists` and `KeptIs` show, from a
  least length for which it would not be so, that there is such a function and that it gives the end of
  the sequence, for ages that fall (`BelowIs`) and for times that rise (`LaterIs`).
- `CliAnsweredIsDone`: `CliSpec => []AnsweredIsDone`, for any number of publishes. A record is
  `SoundDeploy`: an exit code belongs to a command that has ended, a good one to a deployment
  that is up, and a deadline that has passed has reached the command. `OneDeployChanges` reduces a step
  to the record that it changes, `WhatHappensKeepsCliInv` does the end of the race once for the three
  actions that may bring it about.
- `PageSignedIsReviewed`: `PageSpec => []SignedIsReviewed`, from `PageAssumption`. A click's record is `SoundJob` when
  its data are those of its click, its kind is what that report allows, and its transaction, if the
  wallet signed one, is made of them.

`EvidenceProofs` has `SearchIsRight`, `SearchSpec => []SearchFindsLast`, from `SearchAssumption`, for chains of
any length, any timestamps that do not fall, and any number of attempts. `SearchInv` is the
bracket: blocks below `low` are early enough, those above `high` are not, and `best` is
the block below `low`. The lemmas say what an early or a late candidate makes of it.
And it has `EventsAreAlwaysFound`, `EventSpec => []EventsAreFound`, from `EventAssumption`, for any
chunk and any list of windows. `EventInv` says that the ranges still to be asked for cover the
block of the event if any block that was meant holds it (`Pending`), and that the transport holds
the logs of the chunks it has been through (`Received`); `NearBlockCovers` and `OnwardsCovers` are the
lemmas about the windows.
Its third theorem is `DecisionHidesNothing`, `DecisionSpec => []PassHidesNothing`, from `ReportAssumption` (what a run
of the checks gives, and that the engine skips a job only where no checks run), for any jobs, checks and
findings. `DecisionInv` says that no finding is merged away (`FindingsAreKept`), that what lies behind the
loop was examined (`StepsAreCounted`), and that the report is made of what the loop left and the files of
that report (`FilesAreTheReports`).
Its fourth is `MessagesAlwaysBecomeJobs`, `MessagesSpec => []MessagesBecomeJobs`, from `MessagesAssumption` (a contract
belongs to one adapter and is called by the names of its ABIs, one LayerZero sender serves both lanes, and
only Optimism's decoder refuses a message for its length), for any list of actions and any lanes.
`MessagesInv` counts the actions that have been through their adapter (`Scanned`): those, and
no others, have their job (`JobsFit`) and a known lane (`LanesFit`), and LayerZero's map holds what was trusted last
before the action it is at (`ReceiverFits`), which `LastTrusted` identifies with the reference definition.
`Ranks` shows that numbers that differ have all the ranks there are, which makes `SortedJobs` a
sorting (`SortingFits`).
The fifth is `SimulationTellsExecution`, `ExecSpec => []SimulationIsExecution`, from
`ExecutionAssumption` (proposals have calls, costs and delays are positive, a vote begins some blocks back,
the whole supply is more than the quorum), for any calls, any needs, values and effects of theirs, any growth of the chain, and both governors.
`ExecInv` has three parts. `ChainIsSound`: from the block of its creation on, every block holds the calls and
the end of a proposal. `StageFits`: what a run knows of its subject at each await; a proposal is simulated
only if its event is at or before the pinned block. `HistoryFits`: how the runs ended, and that a state left by the
first one consists of flags, queue entries, facts and the executor's balance, the facts being those its calls
changed (`Left`). The lemma `SimulatedState` is the core: `TimelockOverrides` and `GovernorOverrides` lie over what an earlier run left
and over the chain, and what they leave to the chain (the calls and the end of an existing Bravo proposal)
is not among what a run leaves, so that the governor accepts, finds the proposal's own calls, and the facts are
untouched (`StateUnder`). `EtherIsLent` puts the timelock's ether on top, which changes the one fact `Rich` and, by
`SameAnswers`, nothing that the governor and the timelock read. `EndKeeps` says once what every way of ending a run has to give. That `TotalValue`, a recursive
sum, is a number is shown by the least length for which it would not be.

`ChecksProofs` has also the lookups of `BlockExplorerFactory`, which checks make.

- `CacheVerdictIsWarranted`: `CacheSpec => []VerdictIsWarranted`, from `CacheAssumption`. An entry is `Warranted` when
  it does not call verified what is published nowhere and, if it says "unverified", is at
  least as old as the publication at the explorer; entries and publication age together until both are old
  (`OlderIsWarranted`), and an entry that may still be used is young (`KeptIsWarranted`).
- `AbiLookupsAreShared`: `LookupSpec => []LookupsAreShared`, from `LookupAssumption` (providers are named, and not by the
  words for no entry). `LookupInv` says that a promise is kept by the inquiry that asks (`PromisesAreKept`),
  that caches and files hold what someone who has it gave (`CachesAreGiven`), and where an inquiry may be
  (`InPlace`) and what it may have been told (`ToldTruth`). `OneMoves` and `SharedKeepsInv` are the two
  ways a step may change inquiries: one that keeps its promises, and the one that answers all.

`ProposalChecksProofs` has `ContractCodeIsTold`, `ContractSpec => []CodeIsTold`, from `ContractAssumption` (the code of
every contract a simulation names is known), for any code, any simulation, any answers of explorers, compilers and
tools, and any failures.
- The scan of code is a matter of its own: `ScanMissesNothing` says for every sequence of bytes that an
  instruction the reference definition reaches is met by the code's single pass, unless the pass has met
  what ends it, and that what the pass meets begins an instruction. The pass, the beginnings and the reach are three recursions
  on the place in the code; `Loop` and `LoopExists` are what all of them are made of. `Live` is the step: what is
  reached lies ahead of the pass or has been met by it, and `OneIsAhead` that an instruction is begun by
  one place only.
- `Picked`, the elements of a list at some places, stands for every filter of the checks. `PickedIs`, `PickedOneMore` and
  `PickedTheJoined` say what it is of a longer list, and `UniqueIs` that a list without what came before
  has everything once.
- `ContractInv` says for each check what it has told so far: of the contracts before the one
  it is at, in their order (`Follows`), and for events that those of a contract have been told all and in order
  or not at all (`LogFits`). A tool has one conclusion for each contract behind it, and a report only for what
  it analysed (`ToolFits`); its temporary directory exists only while it runs. `Settled`, what a check makes of its
  notes at the end, changes nothing that they tell (`ScanSettles`, `ProxySettles`, `LogSettles`, `ToolSettles`).
- `ProposalIsDescribed`, `CallSpec => []ActionsAreDescribed`, is from `CallAssumption` (only the timelock calls in its own
  name, so that what an action's call makes in turn is not mistaken for an action), for any proposal, any
  calls made in turn, any number of actions executed and any number of workers. `TraceFits` says where in the
  trace the executed actions stand: at rising places, and no other call is the timelock's. `StrictIsOwn` is what
  the matching rests on: the n-th call of the timelock to a target with a selector is the n-th such action's,
  since a number has among the actions of its kind the rank that its place has among the calls of that kind
  (`RanksOfSome`, `SameRank`). `TellingInv` adds that an item which has been taken is described or still being
  described (`NoneLost`) and that what is described agrees with its warnings and advisories (`Told`).
  `ListTells` takes that through the concatenation: one description for each item, in their order, each
  directly behind its advisory.
- `StorageIsToldRight`, `StorageSpec => []StorageIsUnderstood`, is from `StorageAssumption` (the chain's words are words, and
  overrides name slots that the chain has), for any calls of a chain, any layouts and libraries, any number of writes and any
  overrides. `StorageFits` is what it rests on: whatever wrote a contract's storage is among the calls that
  `StorageCalls` finds for it, so that a layout which is not `Ambiguous` is the writers' own; an undone transaction has
  written nothing, and finitely many contracts were written. `CallFits` says what the lines of one call tell: the words that
  changed, each once told behind the one header of its contract (`ListTellsAll`, `HeaderAt`, with lists put
  behind each other by `ConcatenationHas`). `MergedLinesTell` takes that through the merge: of equal lines the first stays
  (`FirstStays`), so a change is still listed (`ChangeIsListed`), a line falls under another contract only if its own
  header went, which then stood before in an earlier call's lines (`HeaderGoes`, `LineBelongs`). `NamedIsTheWord` says that
  fields which account for
  every changed part make up the word, and `PackedGoesOn` that packing a field keeps `PackedSo`, the last value of every
  part so far, as long as nothing was thrown.
- `PowersAreToldRight`, `PermissionSpec => []PowersAreTold`, is from `PermissionAssumption` (a power is a contract and a kind,
  and somebody holds it), for any powers and members, any calls and any number of changes. `Traced` is the inductive invariant: a power
  that is not where it was has a last change to its holder (`HoldersChanged`) and, where owners' changes are logged,
  a log that names him (`OwnersLogged`); each log tells of a change that happened (`LogsTrue`); a role's logs name those whom the
  history has (`RolesLogged`), each new member's grant and each former member's revocation among them
  (`MembersLogged`); and an account's first move comes before any other one (`Led`). The check is then read as what a list `Names`:
  `IntentsTell`, `MergedTells` and `DedupedTells` say whom each stage adds and loses, and `CheckRelates` that
  nothing is told that no trace `Shows`, that of what is shown only a second holder of an admin is lost, and that of roles
  nothing is lost (`RelatesRoles`). With one change (`ChangedOnce`) there is no second holder.
- `TotalsAreReal`, `BalanceSpec => []TreasuryTotalsAreReal`, is from `BalanceAssumption` (finitely many tokens and holders,
  balances and prices are no less than zero, what is no asset moves nothing), for any transaction. `RowsAreTrue` says
  that a row has the true balances of a watched account or none, `AllAreRead` that when the prices are asked for, every
  candidate token has been read for all watched accounts or was noted as unavailable. What a treasury lost
  then has a row (`LossHasRow`), which is counted unless the valuation is `Unvalued` (`LossIsTold`). A sum is
  a recursive function over an order of its places: `TotalIs` gives its steps, and `TotalGrows` and `TotalOfZeros` compare
  two sums place by place, so that a partial sum is no more than the loss (`DecreasesAre`). In a replay only this last
  part is left, as the property says.

**Only model-checked.** Liveness under fairness and `ENABLED` are out of the prover's reach: `EveryCallEnds`,
`AccessRegained`, `EveryAwaitEnds`, `EveryEndIsReported` and `EveryCheckHasVerdict`. Every other property that
a passing run checks is a theorem. Induction with an operator as a parameter is out of reach too, and with it what a fold of
the library computes: modules with theorems write recursive functions instead, whose existence and
steps are shown from a least number at which they would fail.

## 5. Not modelled, and the plan

- *Formats and rendering*: payloads of Tenderly and of nodes, ABI decoding (by its outcome only), the
  report's wording and layout, the frontend's components (`CallGroupedView`, `PermissionsDiff`,
  proposal summaries), `check-eth-balance-changes`, `check-value-required`. They are
  conversions without order or failure of their own.
- *Tables*: chains, contracts, ABIs, labels, example proposals (`sims/`).
- *Extractors that read traces* (`extractOptimismL1L2Jobs`, `extractArbitrumL1L2Jobs`): only tests call them.
- *Storage layouts of Wormhole receivers* other than BNB's: `SlotZero` is a constant of `CrossChain`.
- *The field-by-field artifact validation*: one refusal.
- *A relay that ends while its command runs* leaves the directory and the command behind; nobody collects them.
- *Gas funding*: `ProposalExecution` has it; `StorageEvidence` takes storage only.
- *Labels of Tenderly* (`soltype`): `StorageEvidence` takes differences without them, as the RPC simulator gives them; the two
  exceptions for a timelock's queue and timestamps, and the one for a governor's proposals, need such labels.
- *Skips found in a check's wording* (`inferSkipFromInfo`, `run-checks.ts`): `DerivedRun` takes a check's own word for it.
- *Constructors*: `ContractChecks` scans deployed code, and `StorageEvidence` assumes that a layout is
  that of the deployed code, as the code does.

Hazards beyond those listed in `PROJECT.json`, none of which a property covers:

- `index.ts:805`: no exception is caught within a batch, so a proposal whose simulation always throws
  ends every attempt there. `EveryEndIsReported` is checked under a bounded number of faults.
- `index.ts:744`: a derived run writes its report over the canonical one and leaves the cache
  entry alone. `ProposalBatch` has canonical runs only, as the workflow does.
- `scripts/upload.ts:794`: the publish log is written before the request, so that a publish whose answer
  never comes is logged too. `UploadAndShare` has the log and the order; no property reads it.
- `utils/clients/rpc-simulation.ts:25`: slots keep trace requests apart; `TracedCalls` has them, and its
  property is about the end of each call.
- `relay/vercel-runtime-publisher.ts:549`: the fetch that creates a deployment has no timeout.
- `presentation/report.ts:1188`: an error while the frontend's results are written is logged only, and
  the proposal is cached as done.

Other things met while modelling, for a reader of the code:

- When the deadline kills the deploy command, `defaultRunCommand` may see its exit before the last output's
  end: the completion, asked for first, then wins the race (`relay/server.ts:242`, 274), and the publish is
  answered as failed (502) and not as timed out (504). `CliPublisher` has both outcomes.
- A visit of the action page knows its own mutations only: after reopening it the button is
  ready while an earlier transaction is still mined, and the governor is left to refuse the second. A
  receipt that is lost is told as a failure, though the transaction may still be taken.
- Coverage rows `crossChainDestination` with status `failed` do not keep a report from passing the
  documented gates by themselves; a failed job does, unless the preview was lost. `PassHidesNothing`
  names that exception, and the one for a chain whose examination threw.
- A call of `setOwner` that is refused stays in the trace. If it names an account that another word of the contract turns
  to in the same transaction, from the caller, then `checkPermissionDiff` takes that word for the owner's
  (`checks/check-permission-diff.ts:661`) and tells of a transfer that was not one. `PowersAreTold` excepts it by name
  (`MistakenFor`).
- The results of a chain's calls are merged line by line (`utils/check-results.ts:37`): a contract's header that a later
  call repeats is dropped, so that a raw word of that call stands in the report's list under the contract
  whose header came last (`presentation/report.ts:661`), and of two contracts' raw words with the same slot and values
  only the first is listed. `StorageIsUnderstood` says which words stand right for all that: those of the only call, those
  with named fields, and those of a contract that no earlier call changed, unless another contract's line equals theirs.
- Calls that send ether are simulated with a timelock that holds exactly the sum (`utils/clients/tenderly.ts:791`): a larger
  balance of the chain, of a seed or of an earlier run is not seen by them, a smaller one is not missed. `SimulationIsExecution` says so.
- Any word of the governor that goes from zero to `0x100` is left out of the state changes as an executed flag
  (`checks/check-state-changes.ts:106`), whichever word it is.
- `checkPermissionDiff` drops an item that repeats an earlier one, so that of a grant, a revocation and the same grant
  again the list has only the first two.
- `docs/API.md` names a result "inconclusive" that nothing produces.
- `extractCalldata` (`presentation/report.ts:797`) looks for a check `decode-calldata`, whose key is
  `checkDecodeCalldata`.
- A replayed transaction measures native balances only, so its treasury total may miss tokens.
- A viewer opened by `?artifact=` whose metadata cannot be fetched shows the report
  without any judgement of its authenticity.

What is left: a composition of `PublishRelay` with `RuntimePublisher`, where today `UploadAndShare` takes the relay as `IdempotentPublish` promises it.

## 6. Running

```
tlc -workers 2 -config MCPublishRelay.cfg MCPublishRelay
tlc -workers 2 -config DocConflict.cfg MCPublishRelay      # ends in the violation
tlapm PublishRelayProofs.tla      # likewise the other *Proofs modules
```

The runs take from a few seconds to three minutes, the proofs up to a few minutes each, `ProposalChecksProofs` about
a quarter of an hour.
