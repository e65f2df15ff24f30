------------------------------ MODULE CrossChain ------------------------------
(***************************************************************************)
(* The cross-chain engine (utils/cross-chain/tenderly-execution-engine.ts  *)
(* with the Wormhole and LayerZero adapters): after the source simulation  *)
(* of a proposal the messages it sends become destination jobs, executed   *)
(* one after the other.  Each job works on a copy of its chain's committed *)
(* state; its calls are simulated one by one, each on the state the one    *)
(* before left, and the copy is committed only when all of them succeed.   *)
(***************************************************************************)
EXTENDS Integers, Sequences, FiniteSets

CONSTANTS
  Chains,      \* destination chains
  Supported,   \* those for which supportsL2Checks holds
  Blocks,      \* block numbers the lookup may find
  ChainSeq,    \* per chain: nextMinimumSequence of its Wormhole receiver
  SlotZero,    \* chains whose receiver keeps that number in storage slot 0
  Names,       \* names of jobs
  Proposals,   \* the proposals to start from: sequences of Job, in source order
  None

Bridges == <<"plain", "wormhole", "layerzero">>   \* the order of the adapters

Job == [name: Names, chain: Chains,
        bridge: {Bridges[n] : n \in DOMAIN Bridges}, calls: Nat \ {0}]

ASSUME EngineAssumption ==
  /\ Supported \subseteq Chains /\ SlotZero \subseteq Chains
  /\ ChainSeq \in [Chains -> Nat]
  /\ \A p \in Proposals :
       /\ p \in Seq(Job)
       /\ \A m, n \in DOMAIN p : p[m].name = p[n].name => m = n
  /\ None \notin Blocks \cup Nat

VARIABLES
  proposal,   \* the jobs its actions send, in source order
  pc,         \* "source", "next", "lookup", "prepare", "call", "done" or "failed"
  queue,      \* positions in `proposal' of the jobs not yet begun
  cur,        \* position of the job being executed
  base,       \* per chain: the state the run starts from
  committed,  \* committedStateByChain
  block,      \* blocksByChain
  runtime,    \* runtimeStore.WormholeL1L2: next sequence per receiver
  msg,        \* sequence of the Wormhole message of the current job
  work,       \* workingState of the current job
  steps,      \* stepResults of the current job
  results     \* destinationJobResults

engine == <<proposal, pc, queue, cur, base, committed, block, runtime, msg,
            work, steps, results>>
-----------------------------------------------------------------------------
(* States of a destination chain, as far as jobs can tell them apart.      *)

\* effects: the calls it carries, oldest first; seq: the Wormhole receiver's
\* sequence, if overridden; touched: storage of the LayerZero receiver is
\* overridden; stub: the code of the Wormhole core is the simulation's stub.
Fresh == [effects |-> <<>>, seq |-> None, touched |-> FALSE, stub |-> FALSE]

ChainState == [effects: Seq(Names \X Nat), seq: Nat \cup {None},
               touched: BOOLEAN, stub: BOOLEAN]

\* The sequence the receiver of chain c will accept next, in state s.
Expected(c, s) == IF s.seq = None THEN ChainSeq[c] ELSE s.seq

\* A Wormhole job is one call to the receiver, whatever its message holds.
CallsOf(j) == IF j.bridge = "wormhole" THEN 1 ELSE j.calls

EffectsOf(j) == [s \in 1..CallsOf(j) |-> <<j.name, s>>]

J == proposal[cur]

\* A run of proposal p on top of the states b of the destination chains.
Start(p, b) ==
  /\ proposal = p
  /\ pc = "source"
  /\ queue = <<>>
  /\ cur = None
  /\ base = b
  /\ committed = b
  /\ block = [c \in Chains |-> None]
  /\ runtime = [c \in Chains |-> None]
  /\ msg = None
  /\ work = Fresh
  /\ steps = <<>>
  /\ results = <<>>

\* Another run, of proposal p, on top of the states that this one committed.
Restart(p) ==
  /\ proposal' = p
  /\ pc' = "source"
  /\ cur' = None
  /\ base' = committed
  /\ block' = [c \in Chains |-> None]
  /\ runtime' = [c \in Chains |-> None]
  /\ results' = <<>>
  /\ UNCHANGED <<queue, committed, msg, work, steps>>

Init == \E p \in Proposals : Start(p, [c \in Chains |-> Fresh])
-----------------------------------------------------------------------------
(* extractDestinationJobs.                                                 *)

\* The adapters are asked one after the other, each for the jobs of all actions.
FoundBefore(i, j) ==
  \E m, n \in DOMAIN Bridges :
    /\ i.bridge = Bridges[m] /\ j.bridge = Bridges[n]
    /\ m < n

\* Positions of the jobs as the adapters find them: by adapter, then by action.
EarlierFound(p, m) ==
  {k \in DOMAIN p : \/ FoundBefore(p[k], p[m])
                    \/ (p[k].bridge = p[m].bridge /\ k < m)}

Extracted(p) ==
  [n \in DOMAIN p |->
     CHOOSE m \in DOMAIN p : Cardinality(EarlierFound(p, m)) = n - 1]

\* Mutant of InSourceOrder: the jobs stay in the order of the adapters.
InSourceOrderUnsorted(s) == s

\* orderedJobs.sort: by the position of the action in the proposal.
InSourceOrder(s) ==
  [n \in DOMAIN s |->
     CHOOSE m \in {s[k] : k \in DOMAIN s} :
       Cardinality({k \in DOMAIN s : s[k] < m}) = n - 1]

\* The source simulation fails: no destination job is looked for.
SourceFails ==
  /\ pc = "source"
  /\ pc' = "failed"
  /\ UNCHANGED <<proposal, queue, cur, base, committed, block, runtime, msg,
                 work, steps, results>>

SourceSucceeds ==
  /\ pc = "source"
  /\ queue' = InSourceOrder(Extracted(proposal))
  /\ pc' = IF proposal = <<>> THEN "done" ELSE "next"
  /\ UNCHANGED <<proposal, cur, base, committed, block, runtime, msg, work,
                 steps, results>>
-----------------------------------------------------------------------------
(* handleCrossChainSimulations: the loop over the jobs.                    *)

Report(job, status, sts) ==
  results' = Append(results, [job |-> job, status |-> status, steps |-> sts])

\* Where the loop goes when no job is left to begin.
After(q) == IF q = <<>> THEN "done" ELSE "next"

\* The next job: skipped where no L2 checks run, else on to the block lookup
\* or, where the chain's block is known, to the preparation.
SkipUnsupported ==
  /\ pc = "next"
  /\ proposal[Head(queue)].chain \notin Supported
  /\ Report(Head(queue), "skipped", <<>>)
  /\ queue' = Tail(queue)
  /\ pc' = After(Tail(queue))
  /\ UNCHANGED <<proposal, cur, base, committed, block, runtime, msg, work,
                 steps>>

BeginJob ==
  LET c == proposal[Head(queue)].chain IN
  /\ pc = "next"
  /\ c \in Supported
  /\ cur' = Head(queue)
  /\ queue' = Tail(queue)
  /\ pc' = IF block[c] = None THEN "lookup" ELSE "prepare"
  /\ UNCHANGED <<proposal, base, committed, block, runtime, msg, work, steps,
                 results>>

\* findBlockNumberAtOrBeforeTimestamp: another node, or a later call, may
\* know another latest block.
FindBlock ==
  /\ pc = "lookup"
  /\ \E b \in Blocks : block' = [block EXCEPT ![J.chain] = b]
  /\ pc' = "prepare"
  /\ UNCHANGED <<proposal, queue, cur, base, committed, runtime, msg, work,
                 steps, results>>

\* Mutant of FailJob: what the calls did before the failure is committed.
FailJobKeepingWork(sts) ==
  /\ Report(cur, "failure", sts)
  /\ pc' = After(queue)
  /\ cur' = None
  /\ msg' = None
  /\ work' = Fresh
  /\ steps' = <<>>
  /\ committed' = IF steps = <<>> THEN committed
                                  ELSE [committed EXCEPT ![J.chain] = work]
  /\ UNCHANGED <<proposal, queue, base, block>>

\* The job ends without an effect: its working copy is thrown away.
FailJob(sts) ==
  /\ Report(cur, "failure", sts)
  /\ pc' = After(queue)
  /\ cur' = None
  /\ msg' = None
  /\ work' = Fresh
  /\ steps' = <<>>
  /\ UNCHANGED <<proposal, queue, base, committed, block>>

LookupFails ==
  /\ pc = "lookup"
  /\ FailJob(<<>>)
  /\ UNCHANGED runtime
-----------------------------------------------------------------------------
(* prepareExecution of the adapters.                                       *)

Overridden(c, s) == c \in SlotZero /\ s.seq # None

\* resolveWormholeReceiverRuntimeState: an override of slot 0 in the working
\* state wins over the runtime store, and that over a read from the chain.
NextSequence(c, s) ==
  CASE Overridden(c, s) -> s.seq
    [] ~Overridden(c, s) /\ runtime[c] # None -> runtime[c]
    [] OTHER -> ChainSeq[c]

Prepare ==
  LET s == committed[J.chain] IN
  /\ pc = "prepare"
  /\ J.bridge = "layerzero" => ~s.touched
  /\ work' = s
  /\ IF J.bridge = "wormhole"
       THEN /\ msg' = NextSequence(J.chain, s)
            /\ runtime' = [runtime EXCEPT ![J.chain] = NextSequence(J.chain, s)]
       ELSE UNCHANGED <<msg, runtime>>
  /\ pc' = "call"
  /\ UNCHANGED <<proposal, queue, cur, base, committed, block, steps, results>>

\* A read of the chain fails three times, or the LayerZero receiver does not
\* trust the sender, or overrides make what it trusts ambiguous.
PrepareFails ==
  /\ pc = "prepare"
  /\ J.bridge # "plain"
  /\ FailJob(<<>>)
  /\ UNCHANGED runtime
-----------------------------------------------------------------------------
(* executeDestinationJob: the calls.                                       *)

Step(ok) == [on |-> work, block |-> block[J.chain], ok |-> ok]

\* The state after the next call: its effects on top of the state it ran on.
\* The receiver moves on to the next sequence; any call may write to the
\* LayerZero receiver; the simulator may report the stub among the code.
Overrides ==
  {[effects |-> Append(work.effects, <<J.name, Len(steps) + 1>>),
    seq |-> IF J.bridge = "wormhole" THEN msg + 1 ELSE work.seq,
    touched |-> t, stub |-> u] :
     t \in {work.touched, TRUE},
     u \in {work.stub, work.stub \/ J.bridge = "wormhole"}}

\* stripSimulationOnlyState, for a Wormhole job.
Finalized(s) == IF J.bridge = "wormhole" THEN [s EXCEPT !.stub = FALSE] ELSE s

\* The simulated receiver accepts no sequence below the one it expects.
Accepted == J.bridge = "wormhole" => msg >= Expected(J.chain, work)

\* Mutant of Advanced: a delivered message does not move the store on.
AdvancedNot == runtime

\* onStepSuccess.
Advanced ==
  IF J.bridge = "wormhole" THEN [runtime EXCEPT ![J.chain] = msg + 1] ELSE runtime

\* A call succeeds; after the last one the working copy is finalized and
\* committed.
CallSucceeds ==
  /\ pc = "call"
  /\ Accepted
  /\ \E next \in Overrides :
       /\ runtime' = Advanced
       /\ IF Len(steps) + 1 < CallsOf(J)
            THEN /\ work' = next
                 /\ steps' = Append(steps, Step(TRUE))
                 /\ UNCHANGED <<pc, cur, msg, committed, results>>
            ELSE /\ committed' = [committed EXCEPT ![J.chain] = Finalized(next)]
                 /\ Report(cur, "success", Append(steps, Step(TRUE)))
                 /\ pc' = After(queue)
                 /\ cur' = None
                 /\ msg' = None
                 /\ work' = Fresh
                 /\ steps' = <<>>
  /\ UNCHANGED <<proposal, queue, base, block>>

\* The call reverts, or the simulation service gives no answer.
CallFails ==
  /\ pc = "call"
  /\ FailJob(Append(steps, Step(FALSE)))
  /\ UNCHANGED runtime

RunJob ==
  \/ SkipUnsupported \/ BeginJob \/ FindBlock \/ LookupFails
  \/ Prepare \/ PrepareFails \/ CallSucceeds \/ CallFails

Next == SourceFails \/ SourceSucceeds \/ RunJob

Spec == Init /\ [][Next]_engine
-----------------------------------------------------------------------------
crossChainFailure == \E n \in DOMAIN results : results[n].status = "failure"

Succeeded(n) == results[n].status = "success"

\* The steps of every job so far, with the job each belongs to.
StepsOf(n) == {[job |-> results[n].job, nr |-> m, step |-> results[n].steps[m]] :
                 m \in DOMAIN results[n].steps}
AllSteps ==
  (UNION {StepsOf(n) : n \in DOMAIN results})
    \cup {[job |-> cur, nr |-> m, step |-> steps[m]] : m \in DOMAIN steps}

(***************************************************************************)
(* Every call is simulated on exactly what it would find on its chain: the *)
(* effects of the earlier jobs to that chain that succeeded and of the     *)
(* calls before it in its own job, and of no job that failed (workingState *)
(* and committedStateByChain).  All calls on one chain are simulated at one*)
(* block, though each lookup would find another (blocksByChain), and no    *)
(* chain keeps a stub of the Wormhole core that a job was simulated with.  *)
(***************************************************************************)
Visible(x) ==
  LET c == proposal[x.job].chain
      earlier == {n \in DOMAIN results : /\ Succeeded(n)
                                         /\ results[n].job < x.job
                                         /\ proposal[results[n].job].chain = c}
  IN  (UNION {{EffectsOf(proposal[results[n].job])[s] :
                 s \in 1..CallsOf(proposal[results[n].job])} : n \in earlier})
        \cup {<<proposal[x.job].name, s>> : s \in 1..(x.nr - 1)}
        \cup {base[c].effects[n] : n \in DOMAIN base[c].effects}

CallsSeeTheirPast ==
  /\ \A x \in AllSteps :
       {x.step.on.effects[n] : n \in DOMAIN x.step.on.effects} = Visible(x)
  /\ \A x, y \in AllSteps :
       proposal[x.job].chain = proposal[y.job].chain => x.step.block = y.step.block
  /\ \A c \in Chains : ~committed[c].stub

(***************************************************************************)
(* A Wormhole message carries the very sequence the receiver expects in    *)
(* the state it is simulated on, after earlier messages of this run and of *)
(* the run it derives from: none is refused as stale, none skips ahead.    *)
(* What a run derives from is only seen where the receiver uses slot 0.    *)
(***************************************************************************)
SequenceIsCurrent ==
  /\ pc = "call" /\ J.bridge = "wormhole"
  /\ J.chain \in SlotZero \/ base[J.chain].seq = None
  => msg = Expected(J.chain, work)

(***************************************************************************)
(* The engine implements OrderedDelivery: whatever fails, and at whichever *)
(* call, messages are delivered whole, once and in the proposal's order.   *)
(***************************************************************************)
Message(n) == [name |-> proposal[n].name, chain |-> proposal[n].chain,
               effects |-> EffectsOf(proposal[n])]

Waiting ==
  CASE pc = "source" -> [n \in DOMAIN proposal |-> n]
    [] pc # "source" /\ cur # None -> <<cur>> \o queue
    [] pc # "source" /\ cur = None -> queue

Verdict(name) ==
  IF \E n \in DOMAIN results : proposal[results[n].job].name = name
    THEN results[CHOOSE n \in DOMAIN results :
                   proposal[results[n].job].name = name].status
    ELSE "none"

Delivery == INSTANCE OrderedDelivery WITH
  todo <- [n \in DOMAIN Waiting |-> Message(Waiting[n])],
  delivered <- [c \in Chains |-> committed[c].effects],
  verdict <- [name \in Names |-> Verdict(name)]

ImplementsOrderedDelivery == Delivery!Spec
-----------------------------------------------------------------------------
(* Why the properties hold.                                                *)

StepRecord == [on: ChainState, block: Blocks \cup {None}, ok: BOOLEAN]
Result == [job: Nat, status: {"success", "failure", "skipped"},
           steps: Seq(StepRecord)]

EngineTypes ==
  /\ proposal \in Seq(Job)
  /\ \A m, n \in DOMAIN proposal : proposal[m].name = proposal[n].name => m = n
  /\ pc \in {"source", "next", "lookup", "prepare", "call", "done", "failed"}
  /\ base \in [Chains -> ChainState] /\ committed \in [Chains -> ChainState]
  /\ block \in [Chains -> Blocks \cup {None}]
  /\ runtime \in [Chains -> Nat \cup {None}]
  /\ msg \in Nat \cup {None}
  /\ work \in ChainState
  /\ steps \in Seq(StepRecord)
  /\ results \in Seq(Result)

\* Jobs that have a result, or are under way.
Begun == Len(results) + IF cur = None THEN 0 ELSE 1

\* Jobs are executed in the order in which the proposal sends them, each once.
InTurn ==
  /\ \A n \in DOMAIN results : results[n].job = n
  /\ cur # None <=> pc \in {"lookup", "prepare", "call"}
  /\ cur # None => cur = Len(results) + 1
  /\ Begun <= Len(proposal)
  /\ IF pc \in {"source", "failed"}
       THEN queue = <<>> /\ results = <<>>
       ELSE queue = [n \in 1..(Len(proposal) - Begun) |-> Begun + n]
  /\ pc = "next" => queue # <<>>
  /\ pc = "done" => queue = <<>>

\* What a job works with is gone when it ends.
AtRest == pc # "call" => msg = None /\ work = Fresh /\ steps = <<>>

\* The first k effects of job n.
Effects(n, k) == [s \in 1..k |-> <<proposal[n].name, s>>]

\* The working copy has the effects of the calls made so far on top of the
\* committed ones; nothing but a Wormhole job brings the stub.
CopyIsCurrent ==
  pc = "call" =>
    /\ Len(steps) < CallsOf(J)
    /\ work.effects = committed[J.chain].effects \o Effects(cur, Len(steps))
    /\ work.seq = committed[J.chain].seq
    /\ ~work.stub

RangeOf(s) == {s[n] : n \in DOMAIN s}

\* What the results so far have left on chain c, seen from job k.
LeftBefore(c, k) ==
  RangeOf(base[c].effects) \cup
    UNION {RangeOf(EffectsOf(proposal[n])) :
             n \in {m \in DOMAIN results : /\ Succeeded(m) /\ m < k
                                           /\ proposal[m].chain = c}}

CommittedIsLeft ==
  \A c \in Chains :
    /\ RangeOf(committed[c].effects) = LeftBefore(c, Len(results) + 1)
    /\ ~committed[c].stub /\ ~base[c].stub

\* What call m of job n may run on: what was left before the job, and the
\* effects of the calls before it, at the one block of the chain.
Fitting(n, m) ==
  {step \in StepRecord :
     /\ RangeOf(step.on.effects) =
          LeftBefore(proposal[n].chain, n) \cup RangeOf(Effects(n, m - 1))
     /\ step.block = block[proposal[n].chain]
     /\ step.block # None}

StepsFit ==
  /\ \A n \in DOMAIN results : \A m \in DOMAIN results[n].steps :
       results[n].steps[m] \in Fitting(n, m)
  /\ cur # None => \A m \in DOMAIN steps : steps[m] \in Fitting(cur, m)

BlockIsKnown ==
  /\ pc = "lookup" => block[J.chain] = None
  /\ pc \in {"prepare", "call"} => block[J.chain] # None

\* The runtime store knows the sequence that the committed state has reached.
InScope(c) == c \in SlotZero \/ base[c].seq = None

StoreIsCurrent ==
  /\ \A c \in Chains :
       InScope(c) =>
         IF runtime[c] = None THEN c \in SlotZero \/ committed[c].seq = None
                              ELSE runtime[c] = Expected(c, committed[c])
  /\ pc = "call" /\ J.bridge = "wormhole" =>
       /\ msg \in Nat
       /\ runtime[J.chain] = msg
       /\ InScope(J.chain) => msg = Expected(J.chain, committed[J.chain])

EngineInv ==
  /\ EngineTypes /\ InTurn /\ AtRest /\ CopyIsCurrent
  /\ CommittedIsLeft /\ StepsFit /\ BlockIsKnown /\ StoreIsCurrent
=============================================================================
