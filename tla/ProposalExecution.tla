--------------------------- MODULE ProposalExecution ---------------------------
(***************************************************************************)
(* The simulation of a proposal on Ethereum (utils/clients/tenderly.ts): a *)
(* block is pinned, the proposal is read while the chain moves on, storage *)
(* of the governor and its timelock is overridden so that it can be        *)
(* executed now, and the node runs execute.  An executed proposal is       *)
(* replayed.  A second, dependent run starts from the state the first one  *)
(* left.  Storage is a function from slots to values.                      *)
(***************************************************************************)
EXTENDS Integers, Sequences, FiniteSets

CONSTANTS
  Plans,         \* the calls proposals may consist of: sequences of Acts
  ValueOf,       \* ether each call sends
  Needs, Makes,  \* a call fails without the facts it needs, and makes others
  Rich, Riches,  \* the fact that the timelock holds this much ether; a call that
                 \* makes it brings as much, and no call brings less
  Seeds,         \* facts that initialStateByChain may add
  Pin,           \* blocks the pinned one is behind the head, 3
  NewAge,        \* blocks a new proposal's vote starts before the pinned one, 100
  BlockSeconds,  \* 12
  Grace,         \* GRACE_PERIOD of Bravo's timelock
  Supply, Quorum,
  Gas, GasUsed,  \* cost of the gas allowed and used
  MaxHead        \* bound: the last block

Acts == UNION {{plan[i] : i \in DOMAIN plan} : plan \in Plans}

ASSUME ExecutionAssumption ==
  /\ \A plan \in Plans : plan \in Seq(Acts) /\ plan # <<>>
  /\ ValueOf \in [Acts -> Nat]
  /\ {Riches, Pin, NewAge, BlockSeconds, Grace, Supply, Quorum, Gas, GasUsed} \subseteq Nat \ {0}
  /\ NewAge > 1 /\ Supply > Quorum /\ Gas >= GasUsed
  /\ MaxHead \in Nat /\ MaxHead > Pin + NewAge + 1

VARIABLES
  governorType,  \* "bravo" or "oz"
  chain,         \* storage at each block; the last one is the head
  created,       \* ProposalCreated logs: the block of each proposal's, its calls
  type,          \* config.type of the current run
  stage,          \* what simulateNew, simulateProposed or simulateExecuted awaits
  subject,       \* the proposal: its id and calls, and endBlock as read
  pinned,        \* latestBlock.number
  seeded,        \* facts in initialStateByChain
  derived,       \* derivedStateByChain[1]: what the first run left
  ended          \* the runs that ended

execVars == <<governorType, chain, created, type, stage, subject, pinned, seeded,
              derived, ended>>

\* Storage f over storage g, and storage of one slot.
f ++ g == [s \in DOMAIN f \cup DOMAIN g |-> IF s \in DOMAIN f THEN f[s] ELSE g[s]]
Only(slot, value) == [s \in {slot} |-> value]

Slot(field, of, n) == <<field, of, n>>
Read(storage, slot, default) ==
  IF slot \in DOMAIN storage THEN storage[slot] ELSE default
Count(storage) == Read(storage, Slot("count", 0, 0), 0)
Facts(storage) == {slot[2] : slot \in {s \in DOMAIN storage : s[1] = "fact" /\ storage[s]}}
With(facts) == [s \in {Slot("fact", f, 0) : f \in facts} |-> TRUE]

Types == {"new", "proposed", "executed"}
Nobody == [id |-> 0, plan |-> <<>>, end |-> 0]
Live == [canceled |-> FALSE, executed |-> FALSE]
Time(block) == block * BlockSeconds

\* The facts after the calls of a plan, or "failed".
After(plan, facts) ==
  LET upTo[n \in 0..Len(plan)] ==
        IF n = 0 THEN facts
        ELSE IF upTo[n - 1] = {"failed"} \/ ~(Needs[plan[n]] \subseteq upTo[n - 1])
             THEN {"failed"} ELSE upTo[n - 1] \cup Makes[plan[n]]
  IN  upTo[Len(plan)]

TotalValue(plan) ==
  LET upTo[n \in 0..Len(plan)] == IF n = 0 THEN 0 ELSE upTo[n - 1] + ValueOf[plan[n]]
  IN  upTo[Len(plan)]

\* What the calls change: facts that did not hold, and ether that came in.
Altered(plan, facts) ==
  (After(plan, facts) \ facts) \cup
  ({Rich} \cap UNION {Makes[plan[n]] : n \in DOMAIN plan})

ExecInit ==
  /\ governorType \in {"bravo", "oz"}
  /\ chain = [b \in 1..Pin + NewAge + 1 |-> <<>>]
  /\ created = <<>>
  /\ type \in Types
  /\ stage = "begin"
  /\ subject = Nobody
  /\ pinned = 0
  /\ seeded \in SUBSET Seeds
  /\ derived = <<>>
  /\ ended = <<>>
-----------------------------------------------------------------------------
(* The chain goes its own way.                                             *)

Tip == Len(chain)
Flags(id) == Read(chain[Tip], Slot("flags", id, 0), Live)

Block(storage) ==
  /\ Tip < MaxHead
  /\ chain' = Append(chain, storage ++ chain[Tip])
  /\ UNCHANGED <<governorType, type, stage, subject, pinned, seeded, derived, ended>>

\* Someone proposes; Bravo counts, OZ hashes.
Create(plan) ==
  LET id == IF governorType = "bravo" THEN Count(chain[Tip]) + 1 ELSE plan
      start == Tip + 2
  IN  /\ id \notin DOMAIN created
      /\ created' = Only(id, [block |-> Tip + 1, plan |-> plan, end |-> start + 1]) ++ created
      /\ Block(Only(Slot("flags", id, 0), Live) ++
               Only(Slot("count", 0, 0), Count(chain[Tip]) + 1) ++
               Only(Slot("start", id, 0), start) ++
               Only(Slot("end", id, 0), start + 1) ++
               Only(Slot("length", id, 0), Len(plan)) ++
               [s \in {Slot("act", id, n) : n \in DOMAIN plan} |-> plan[s[3]]])

\* It is canceled, or carried out.
Settle(id) ==
  /\ Flags(id) = Live
  /\ \/ Block(Only(Slot("flags", id, 0), [Live EXCEPT !.canceled = TRUE]))
     \/ LET facts == After(created[id].plan, Facts(chain[Tip])) IN
        /\ facts # {"failed"}
        /\ Block(Only(Slot("flags", id, 0), [Live EXCEPT !.executed = TRUE]) ++ With(facts))
  /\ UNCHANGED created

Passes == Block(<<>>) /\ UNCHANGED created
-----------------------------------------------------------------------------
(* What the node does: the governor's execute, and the timelock's.         *)

Votes(s, id) == Read(s, Slot("votes", id, 0), 0)

\* state(proposalId) of Bravo answers Queued, and every call is queued.
BravoAccepts(s, id, plan, block, time) ==
  LET eta == Read(s, Slot("eta", id, 0), 0) IN
  /\ Count(s) >= id
  /\ Read(s, Slot("flags", id, 0), Live) = Live
  /\ block > Read(s, Slot("end", id, 0), 0)
  /\ Votes(s, id) > Quorum
  /\ eta # 0 /\ time >= eta /\ time < eta + Grace
  /\ \A n \in DOMAIN plan : Read(s, Slot("queued", plan[n], eta), FALSE)

\* The proposal of these calls is known and Queued, and its operation is ready.
OzAccepts(s, id, block, time) ==
  LET ready == Read(s, Slot("timestamp", Read(s, Slot("timelockId", id, 0), <<>>), 0), 0) IN
  /\ Read(s, Slot("flags", id, 0), Live) = Live
  /\ Read(s, Slot("start", id, 0), 0) \in 1..block - 1
  /\ Read(s, Slot("end", id, 0), 0) < block
  /\ Votes(s, id) > Quorum
  /\ ready > 1 /\ ready <= time

\* execute with its calls: Bravo has them in storage, OZ is given them.
CallsOf(s, id) ==
  IF governorType = "oz" THEN id
  ELSE [n \in 1..Read(s, Slot("length", id, 0), 0) |-> Read(s, Slot("act", id, n), "none")]

\* The result: refused by the governor, failed in a call, or done with a diff.
Executed(s, id, block, time, value, balance) ==
  LET plan == CallsOf(s, id)
      eta == Read(s, Slot("eta", id, 0), 0)
      facts == After(plan, Facts(s))
  IN  IF \/ balance < value + Gas \/ value < TotalValue(plan)
         \/ ~IF governorType = "bravo" THEN BravoAccepts(s, id, plan, block, time)
             ELSE OzAccepts(s, id, block, time)
      THEN [status |-> "refused", diff |-> <<>>]
      ELSE IF facts = {"failed"} THEN [status |-> "failed", diff |-> <<>>]
      ELSE [status |-> "success", diff |->
              Only(Slot("flags", id, 0), [Live EXCEPT !.executed = TRUE]) ++
              (IF governorType = "bravo"
                 THEN [q \in {Slot("queued", plan[n], eta) : n \in DOMAIN plan} |-> FALSE]
                 ELSE Only(Slot("timestamp", id, 0), 1)) ++
              With(Altered(plan, Facts(s))) ++
              Only(Slot("executor", 0, 0), balance - GasUsed - value)]
-----------------------------------------------------------------------------
(* The run.                                                                *)

Await(what) == stage' = what /\ UNCHANGED <<governorType, chain, created, type, seeded>>

\* The latest block but three.
Pinning ==
  /\ stage = "begin" /\ type # "executed"
  /\ pinned' = Tip - Pin
  /\ Await(IF type = "new" THEN "id" ELSE "proposal")
  /\ UNCHANGED <<subject, derived, ended>>

\* generateProposalId, at the head.
NewId ==
  /\ stage = "id"
  /\ \E plan \in Plans :
       subject' = [id |-> IF governorType = "bravo" THEN Count(chain[Tip]) + 1 ELSE plan,
                   plan |-> plan, end |-> pinned - NewAge + 1]
  /\ Await("send")
  /\ UNCHANGED <<pinned, derived, ended>>

\* getProposal, at the head; an executed one is replayed.
ReadProposal ==
  /\ stage = "proposal"
  /\ \E id \in DOMAIN created :
       subject' = [id |-> id, plan |-> <<>>, end |-> created[id].end]
  /\ Await("event")
  /\ UNCHANGED <<pinned, derived, ended>>

EndRun(status, diff) ==
  /\ ended' = Append(ended, [type |-> type, subject |-> subject', pinned |-> pinned,
                             seeded |-> seeded, status |-> status])
  /\ derived' = diff
  /\ Await("ended")
  /\ UNCHANGED pinned

\* The ProposalCreated log is looked for up to the pinned block.
FindEvent ==
  /\ stage = "event"
  /\ IF created[subject.id].block <= pinned
       THEN /\ subject' = [subject EXCEPT !.plan = created[subject.id].plan]
            /\ Await("send")
            /\ UNCHANGED <<pinned, derived, ended>>
       ELSE UNCHANGED subject /\ EndRun("not found", derived)

SimBlock == IF type = "new" THEN pinned
            ELSE IF governorType = "bravo" THEN subject.end + 1 ELSE pinned + 1
SimTimestamp == IF governorType = "bravo"
                  THEN Time(pinned) + (SimBlock - subject.end) * BlockSeconds
                  ELSE Time(pinned) + 1

\* encodeRpcState of timelockStorageObj.
TimelockOverrides(id, plan) ==
  IF governorType = "bravo"
    THEN [q \in {Slot("queued", plan[n], SimTimestamp) : n \in DOMAIN plan} |-> TRUE]
    ELSE Only(Slot("timestamp", plan, 0), SimTimestamp)

\* buildGovernorStateOverrides, and _timelockIds.
GovernorOverrides(id, plan) ==
  LET own == [s \in {Slot("act", id, n) : n \in DOMAIN plan} |-> plan[s[3]]] IN
  Only(Slot("flags", id, 0), Live) ++ Only(Slot("votes", id, 0), Supply) ++
  (IF governorType = "oz"
     THEN Only(Slot("start", id, 0), SimBlock - 2) ++ Only(Slot("end", id, 0), SimBlock - 1) ++
          Only(Slot("timelockId", id, 0), plan)
     ELSE Only(Slot("count", 0, 0), id) ++ Only(Slot("eta", id, 0), SimTimestamp) ++
          (IF type = "new"
             THEN Only(Slot("start", id, 0), subject.end - 1) ++
                  Only(Slot("end", id, 0), subject.end) ++
                  Only(Slot("length", id, 0), Len(plan)) ++ own
             ELSE <<>>))

\* Mutant of StateObjects: the derived state goes over the overrides.
StateObjectsDerivedLast(id, plan) ==
  derived ++ TimelockOverrides(id, plan) ++ GovernorOverrides(id, plan)

\* mergeStateObjects: the seeds, over them what an earlier run left, over that
\* the overrides.  Proposals on the chain get no seeds.
StateObjects(id, plan) ==
  TimelockOverrides(id, plan) ++ GovernorOverrides(id, plan) ++ derived ++
  (IF type = "new" THEN With(seeded) ELSE <<>>)

\* sendRpcSimulation takes the unused part of the allowance back.
Refund(balance) == balance - (Gas - GasUsed)

\* handleETHValueRequirements: if the calls send ether, then what they send in
\* all is the balance of the timelock, whatever the chain, the seeds and the
\* derived state say of it.
EtherOverrides(plan) ==
  IF TotalValue(plan) = 0 THEN <<>>
  ELSE Only(Slot("fact", Rich, 0), TotalValue(plan) >= Riches)

\* It is the balance of the executor too, with the allowance on top.
Allowance(plan) == TotalValue(plan) + Gas

\* The gas spent and refunded by the node leaves balance + Gas - GasUsed.
Sends ==
  LET id == subject.id
      plan == subject.plan
      at == EtherOverrides(plan) ++ StateObjects(id, plan) ++ chain[pinned]
      executor == Slot("executor", 0, 0)
      result == Executed(at, id, SimBlock, SimTimestamp, TotalValue(plan), Allowance(plan))
  IN  /\ UNCHANGED subject
      /\ EndRun(result.status,
           IF result.status # "success" THEN derived
           ELSE Only(executor, Refund(result.diff[executor])) ++ result.diff)

SendNew == stage = "send" /\ type = "new" /\ Sends
SendProposed == stage = "send" /\ type = "proposed" /\ Sends

\* simulateExecuted: nothing is pinned or overridden, and nothing may be.
Replays(id) ==
  /\ stage = "begin" /\ type = "executed"
  /\ subject' = [id |-> id, plan |-> created[id].plan, end |-> created[id].end]
  /\ EndRun(IF derived = <<>> THEN "replayed" ELSE "replay refused", derived)

\* Bravo's transaction is the one in which the timelock executed the first call.
ReplayBravo ==
  governorType = "bravo" /\ \E id \in DOMAIN created : Flags(id).executed /\ Replays(id)

\* OpenZeppelin's is the one of the governor's ProposalExecuted log.
ReplayOz ==
  governorType = "oz" /\ \E id \in DOMAIN created : Flags(id).executed /\ Replays(id)

\* A derived run on what the first one left.
Depend ==
  /\ stage = "ended"
  /\ Len(ended) = 1
  /\ ended[1].status = "success"
  /\ stage' = "begin"
  /\ type' \in Types
  /\ subject' = Nobody
  /\ pinned' = 0
  /\ UNCHANGED <<governorType, chain, created, seeded, derived, ended>>

ExecNext ==
  \/ \E plan \in Plans : Create(plan)
  \/ \E id \in DOMAIN created : Settle(id)
  \/ Passes
  \/ Pinning \/ NewId \/ ReadProposal \/ FindEvent \/ SendNew \/ SendProposed
  \/ ReplayBravo \/ ReplayOz \/ Depend

ExecSpec == ExecInit /\ [][ExecNext]_execVars
-----------------------------------------------------------------------------
\* The facts of the pinned block, and the seeds of a new proposal.
Given(n) == Facts(chain[ended[n].pinned]) \cup
            (IF ended[n].type = "new" THEN ended[n].seeded ELSE {})

\* Calls that send ether find the timelock with what they send, and no more.
WithLentEther(plan, facts) ==
  IF TotalValue(plan) = 0 THEN facts
  ELSE (facts \ {Rich}) \cup (IF TotalValue(plan) >= Riches THEN {Rich} ELSE {})

\* The facts the calls of a run are to find: given ones, and what the calls of
\* the run before have changed, but for the ether of the timelock.
Found(n) ==
  LET before == ended[1].subject.plan IN
  WithLentEther(ended[n].subject.plan,
         Given(n) \cup (IF n = 2 THEN Altered(before, WithLentEther(before, Given(1))) ELSE {}))

(***************************************************************************)
(* A simulation says what executing the proposal would do: whatever became *)
(* of it on the chain meanwhile, and whatever an earlier run left in the   *)
(* slots of the same proposal, the governor and the timelock let it        *)
(* through, its own calls run on the state they are to find, and only they *)
(* make it fail.  That is the state of the pinned block, with the seeds and*)
(* what the run before changed; but if the calls send ether the timelock   *)
(* holds the sum of it, whatever it held.  What a dependent run starts from*)
(* has none of the lent gas, and of the lent ether only what calls changed.*)
(***************************************************************************)
SimulationIsExecution ==
  /\ \A n \in DOMAIN ended :
       LET run == ended[n] IN
       /\ run.status # "refused"
       /\ run.status = "success" => After(run.subject.plan, Found(n)) # {"failed"}
       /\ run.status = "failed" => After(run.subject.plan, Found(n)) = {"failed"}
       /\ run.status = "not found" => created[run.subject.id].block > run.pinned
       /\ run.type # "new" /\ run.status # "not found" =>
            run.subject.plan = created[run.subject.id].plan
  /\ derived # <<>> => derived[Slot("executor", 0, 0)] = 0
  /\ Len(ended) = 2 => ended[2].status # "replayed"
=============================================================================
