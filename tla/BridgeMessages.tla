---------------------------- MODULE BridgeMessages ----------------------------
(***************************************************************************)
(* The bridge messages of a proposal (utils/bridges): five adapters scan   *)
(* the proposal's actions one after the other, each making jobs of the     *)
(* actions that speak to its contracts, and extractDestinationJobs puts    *)
(* the jobs back into the order of the actions.  An action is its target   *)
(* and what its calldata decodes to.                                       *)
(***************************************************************************)
EXTENDS Integers, Sequences, FiniteSets

CONSTANTS
  Messages,       \* actions: [to, fn, remote, target, value, data]
  MaxActions,     \* bound
  AdapterOf,      \* contracts that an adapter knows -> its name
  ChainOf,        \* chain of each inbox, messenger and portal
  Forwarder,      \* L2_CROSS_CHAIN_ACCOUNTS: chain -> account, or "none"
  Unichain,
  WormholeLanes,  \* remote -> [chain, from]
  LayerZeroLanes  \* remote -> [chain, from]

Adapters == <<"arbitrum", "optimism", "polygon", "wormhole", "layerzero">>
Retryable == {"createRetryableTicket", "unsafeCreateRetryableTicket"}
Funded == {"sendL1FundedContractTransaction", "sendL1FundedUnsignedTransaction"}
Unfunded == {"sendContractTransaction", "sendUnsignedTransaction"}

\* What an adapter's contracts can be called with that its ABIs tell apart.
Functions ==
  [arbitrum |-> Retryable \cup Funded \cup Unfunded,
   optimism |-> {"sendMessage", "depositTransaction"},
   polygon |-> {"sendMessageToChild"},
   wormhole |-> {"sendMessages"},
   layerzero |-> {"setTrustedRemoteAddress", "execute"}]

Known(a) == IF a.to \in DOMAIN AdapterOf THEN AdapterOf[a.to] ELSE "none"

\* Every LayerZero lane has the same sender; a call of a contract is named by
\* that contract's ABIs, and only Optimism's messages can be too long.
ASSUME MessagesAssumption ==
  /\ \A c \in DOMAIN AdapterOf : \E n \in DOMAIN Adapters : AdapterOf[c] = Adapters[n]
  /\ \A c, d \in DOMAIN AdapterOf : AdapterOf[c] = "layerzero" /\ AdapterOf[d] = "layerzero" => c = d
  /\ DOMAIN ChainOf = {c \in DOMAIN AdapterOf : AdapterOf[c] \in {"arbitrum", "optimism"}}
  /\ \A a \in Messages, n \in DOMAIN Adapters :
       Known(a) = Adapters[n] =>
         /\ \A m \in DOMAIN Adapters : m # n => a.fn \notin Functions[Adapters[m]]
         /\ Known(a) = "layerzero" => a.fn \in Functions["layerzero"] \cup {"other"}
         /\ a.data = "too long" => Known(a) = "optimism"

VARIABLES
  proposalActions,  \* targets and calldatas
  scanning,         \* the adapter, or 6 after the last
  index,            \* i
  found,            \* jobs, adapter by adapter
  receiver,         \* activeReceiverByRemoteChainId
  extraction        \* "running", "done" or "thrown"

messageVars == <<proposalActions, scanning, index, found, receiver, extraction>>

MessagesInit ==
  /\ proposalActions \in UNION {[1..n -> Messages] : n \in 1..MaxActions}
  /\ scanning = 1 /\ index = 1
  /\ found = <<>>
  /\ receiver = <<>>
  /\ extraction = "running"

NewJob(i, chain, from, target, value, data) ==
  [order |-> i, chain |-> chain, from |-> from, target |-> target,
   value |-> value, data |-> data]

Alias == "alias of l1Sender"
This == proposalActions[index]
Decodes(a) == a.data # "garbled"

\* extractArbitrumL1L2JobsFromProposal: other calls of the inbox, and those
\* that do not decode, make no job.
ArbitrumJobs(i, a) ==
  IF a.fn \in Retryable \cup Funded \cup Unfunded /\ Decodes(a)
    THEN {NewJob(i, ChainOf[a.to], Alias, a.target,
                 IF a.fn \in Funded THEN 0 ELSE a.value, a.data)} ELSE {}

\* Mutant of Unwrapped: every forwarded call is the forwarder's own.
UnwrappedEverywhere(i, chain, from, a, value) ==
  IF a.data = "forward" /\ Forwarder[chain] \in {"none", a.target}
    THEN NewJob(i, chain, a.target, "forwarded", value, "plain")
    ELSE NewJob(i, chain, from, a.target, value, a.data)

\* buildMessageFromDecodedPayload: a forwarded call is simulated as the
\* forwarder's own, but on Unichain keeps the bridged sender.
Unwrapped(i, chain, from, a, value) ==
  IF a.data = "forward" /\ Forwarder[chain] \in {"none", a.target}
    THEN NewJob(i, chain, IF chain = Unichain THEN from ELSE a.target,
                "forwarded", value, "plain")
    ELSE NewJob(i, chain, from, a.target, value, a.data)

\* extractOptimismL1L2JobsFromProposal: too long a message makes no job, and
\* neither does a deposit that creates a contract.
OptimismJobs(i, a) ==
  IF a.data \in {"garbled", "too long"} THEN {}
  ELSE CASE a.fn = "sendMessage" -> {Unwrapped(i, ChainOf[a.to], "l1Sender", a, 0)}
         [] a.fn = "depositTransaction" -> {Unwrapped(i, ChainOf[a.to], Alias, a, a.value)}
         [] OTHER -> {}

\* extractPolygonFxL1L2JobsFromProposal: processMessageFromRoot from FxChild.
PolygonJobs(i, a) ==
  IF a.fn = "sendMessageToChild" /\ Decodes(a)
    THEN {NewJob(i, "polygon", "fxChild", a.target, 0, <<i, "l1Sender", a.data>>)} ELSE {}

Emit(jobs) ==
  /\ found' = IF jobs = {} THEN found ELSE Append(found, CHOOSE j \in jobs : TRUE)
  /\ index' = index + 1
  /\ UNCHANGED <<receiver, extraction>>

Throw == extraction' = "thrown" /\ UNCHANGED <<index, found, receiver>>

\* extractWormholeExecutionJobsFromProposal: a batch that does not decode is
\* passed over, one for an unknown chain ends the extraction.
WormholeScan ==
  LET a == This IN
  IF a.fn # "sendMessages" \/ ~Decodes(a) THEN Emit({})
  ELSE IF a.remote \notin DOMAIN WormholeLanes THEN Throw
  ELSE LET lane == WormholeLanes[a.remote] IN
       Emit({NewJob(index, lane.chain, lane.from, a.target, a.value, a.data)})

\* activeReceiverByRemoteChainId.set
Trusted(remote, account) ==
  [r \in DOMAIN receiver \cup {remote} |-> IF r = remote THEN account ELSE receiver[r]]

\* setTrustedRemoteAddress; other lanes than the supported ones are ignored.
Trust ==
  LET a == This IN
  IF ~Decodes(a) THEN Throw
  ELSE IF a.remote \notin DOMAIN LayerZeroLanes THEN Emit({})
  ELSE IF a.data = "not an address" THEN Throw
  ELSE /\ receiver' = Trusted(a.remote, a.target)
       /\ index' = index + 1
       /\ UNCHANGED <<found, extraction>>

\* execute: its payload must decode, for a known lane, to at least one call.
Execute ==
  LET a == This IN
  IF ~Decodes(a) \/ a.remote \notin DOMAIN LayerZeroLanes \/ a.data \in {"malformed", "empty"}
    THEN Throw
    ELSE LET lane == LayerZeroLanes[a.remote]
             from == IF a.remote \in DOMAIN receiver THEN receiver[a.remote] ELSE lane.from
         IN  Emit({NewJob(index, lane.chain, from, a.target, a.value, a.data)})

\* One action under one adapter.
Scan ==
  /\ extraction = "running"
  /\ scanning <= Len(Adapters)
  /\ index <= Len(proposalActions)
  /\ LET adapter == Adapters[scanning] IN
     IF Known(This) # adapter THEN Emit({})
     ELSE \/ adapter = "arbitrum" /\ Emit(ArbitrumJobs(index, This))
          \/ adapter = "optimism" /\ Emit(OptimismJobs(index, This))
          \/ adapter = "polygon" /\ Emit(PolygonJobs(index, This))
          \/ adapter = "wormhole" /\ WormholeScan
          \/ adapter = "layerzero" /\ This.fn = "setTrustedRemoteAddress" /\ Trust
          \/ adapter = "layerzero" /\ This.fn = "execute" /\ Execute
          \/ adapter = "layerzero" /\ This.fn = "other" /\ Emit({})
  /\ UNCHANGED <<proposalActions, scanning>>

\* orderedJobs.sort: by the position of the action, which made one job at most.
SortedJobs(jobs) ==
  [n \in DOMAIN jobs |->
     jobs[CHOOSE k \in DOMAIN jobs :
            Cardinality({i \in DOMAIN jobs : jobs[i].order < jobs[k].order}) = n - 1]]

\* The next adapter; after the last one the jobs are sorted.
NextAdapter ==
  /\ extraction = "running"
  /\ index = Len(proposalActions) + 1
  /\ scanning' = scanning + 1
  /\ index' = 1
  /\ IF scanning < Len(Adapters) THEN UNCHANGED <<found, extraction>>
     ELSE /\ found' = SortedJobs(found)
          /\ extraction' = "done"
  /\ UNCHANGED <<proposalActions, receiver>>

MessagesNext == Scan \/ NextAdapter

MessagesSpec == MessagesInit /\ [][MessagesNext]_messageVars
-----------------------------------------------------------------------------
\* Who sends a message on its destination chain, by what the bridge does with
\* it: an inbox and a portal alias the sender, a messenger passes it on, a
\* forwarder sends in its own name, a Wormhole lane has one sender, and a
\* LayerZero remote the one that was trusted last before the message.
SenderOf(actions, i) ==
  LET a == actions[i]
      trusts == {n \in 1..(i - 1) : /\ actions[n].fn = "setTrustedRemoteAddress"
                                    /\ actions[n].to = a.to
                                    /\ actions[n].remote = a.remote}
      forwarded == /\ a.data = "forward"
                   /\ Forwarder[ChainOf[a.to]] \in {"none", a.target}
                   /\ ChainOf[a.to] # Unichain
  IN  CASE Known(a) = "arbitrum" -> Alias
        [] Known(a) = "optimism" -> IF forwarded THEN a.target
                                    ELSE IF a.fn = "sendMessage" THEN "l1Sender" ELSE Alias
        [] Known(a) = "polygon" -> "fxChild"
        [] Known(a) = "wormhole" -> WormholeLanes[a.remote].from
        [] OTHER -> IF trusts = {} THEN LayerZeroLanes[a.remote].from
                    ELSE LET last == CHOOSE n \in trusts : \A m \in trusts : m <= n
                         IN  actions[last].target

\* Calls that carry a message, by their function.
Carries(a) ==
  /\ Known(a) # "none"
  /\ \E n \in DOMAIN Adapters : a.fn \in Functions[Adapters[n]] \ {"setTrustedRemoteAddress"}

Lanes(a) == IF Known(a) = "wormhole" THEN DOMAIN WormholeLanes
            ELSE IF Known(a) = "layerzero" THEN DOMAIN LayerZeroLanes ELSE {a.remote}

(***************************************************************************)
(* Every message that can be read becomes one job, in the order of the     *)
(* actions whichever adapter found it, sent by whoever the bridge presents *)
(* as its sender at that point of the proposal.  The extraction ends early *)
(* only for a message no lane is known for or, from LayerZero, one that    *)
(* cannot be read: those are never left out in silence.                    *)
(***************************************************************************)
MessagesBecomeJobs ==
  /\ \A n \in DOMAIN found : found[n].from = SenderOf(proposalActions, found[n].order)
  /\ extraction = "done" =>
       /\ \A n, m \in DOMAIN found : n < m => found[n].order < found[m].order
       /\ \A i \in DOMAIN proposalActions :
            LET a == proposalActions[i] IN
            (\E n \in DOMAIN found : found[n].order = i) <=>
              Carries(a) /\ a.data \notin {"garbled", "too long"}
       /\ \A i \in DOMAIN proposalActions :
            Carries(proposalActions[i]) /\ Decodes(proposalActions[i]) =>
              proposalActions[i].remote \in Lanes(proposalActions[i])
  /\ extraction = "thrown" =>
       \E i \in DOMAIN proposalActions :
         LET a == proposalActions[i] IN
         /\ Known(a) \in {"wormhole", "layerzero"}
         /\ a.remote \notin Lanes(a) \/ a.data \in {"garbled", "malformed", "empty", "not an address"}
=============================================================================
