---------------------------- MODULE CallMatching ----------------------------
(***************************************************************************)
(* checkDecodeCalldata (checks/check-decode-calldata.ts): each action of a *)
(* proposal is looked for in the trace of its execution and described in   *)
(* words.  Two workers share the list; every lookup of an ABI, a proxy or  *)
(* a token suspends the one that asks, so descriptions finish in any order.*)
(* On a destination chain the calls of the trace themselves are described. *)
(***************************************************************************)
EXTENDS Integers, SequencesExt

CONSTANTS
  Describers,      \* the DECODE_CONCURRENCY workers
  Proposals,       \* lists of [target, data, value] the proposal may have
  Inner,           \* lists of calls that one action's call may make in turn
  SelectorOf,      \* data -> its first four bytes; "none" for empty data
  KnownSelectors,  \* KNOWN_SIGNATURE_FALLBACKS
  TokenSelectors,  \* TOKEN_HANDLERS
  Malformed,       \* data that does not decode under its selector's signature
  System           \* precompiles and system addresses of the destination

Timelock == "timelock"

\* Only the timelock calls in its own name.
ASSUME CallAssumption ==
  /\ Proposals \subseteq Seq([target : STRING, data : DOMAIN SelectorOf, value : Nat])
  /\ Inner \subseteq Seq([from : STRING \ {Timelock}, to : STRING, input : DOMAIN SelectorOf,
                         value : Nat])

VARIABLES
  onMainnet,     \* deps.chainConfig is the governor's chain
  actions,       \* targets, calldatas and values of the proposal
  trace,         \* flattenCalls: the calls of the execution in order
  nextIndex,     \* of mapWithConcurrency
  worker,        \* where each worker is
  descriptions,  \* results, by index
  localWarnings, localAdvisories,
  verdict        \* what the check returned

callVars == <<onMainnet, actions, trace, nextIndex, worker, descriptions, localWarnings,
              localAdvisories, verdict>>

Selector(data) == SelectorOf[data]
Pending == [state |-> "pending", info |-> <<>>, warnings |-> <<>>]
Idle == [at |-> "idle", item |-> 0]

\* The n-th of some places in a list.
Place(places, n) == CHOOSE m \in places : Cardinality({k \in places : k < m}) = n - 1

\* What the execution of the first n actions leaves: the timelock's calls in
\* order, each followed by the calls it made.
TraceOf(list, n, inner) ==
  FlattenSeq([i \in 1..n |->
    <<[from |-> Timelock, to |-> list[i].target, input |-> list[i].data,
       value |-> list[i].value]>> \o inner[i]])
-----------------------------------------------------------------------------
(* Matching.                                                               *)

\* Mutant of Ordinal: every action is taken for the first of its kind.
FirstOfItsKind(i) == 1

\* computeSelectorOrdinals, from 1
Ordinal(i) ==
  Cardinality({j \in 1..i : /\ actions[j].target = actions[i].target
                            /\ Selector(actions[j].data) = Selector(actions[i].data)})

\* Calls of the trace, by their places.
CallAt(calls, n) ==
  IF n \in 1..Cardinality(calls) THEN <<trace[Place(calls, n)]>> ELSE <<>>
LastCall(calls) == CallAt(calls, Cardinality(calls))
CallAtOrLast(calls, n) == IF n < Cardinality(calls) THEN CallAt(calls, n) ELSE LastCall(calls)

\* findMatchingCallWithFallback: five searches, each as <<kind, calls>>; the
\* first that finds a call gives <<kind, call>>, none gives nothing.
Searches(i) ==
  LET all == DOMAIN trace
      toTarget == {m \in all : trace[m].to = actions[i].target}
      sameData == {m \in all : trace[m].input = actions[i].data}
      sameSelector == {m \in all : Selector(trace[m].input) = Selector(actions[i].data)}
      byTimelock == {m \in all : trace[m].from = Timelock}
      own == CallAt(byTimelock \cap toTarget \cap sameSelector, Ordinal(i)) IN
  <<<<"strict", IF own # <<>> /\ own[1].input = actions[i].data THEN own ELSE <<>>>>,
    <<"target-calldata", LastCall(toTarget \cap sameData)>>,
    <<"calldata-only", LastCall(sameData)>>,
    <<"target-selector-order", CallAtOrLast(toTarget \cap sameSelector, Ordinal(i))>>,
    <<"selector-order", CallAtOrLast(sameSelector, Ordinal(i))>>>>

FirstFound(searches) ==
  LET finding == {n \in 1..5 : searches[n][2] # <<>>}
      first == searches[Place(finding, 1)]
  IN IF finding = {} THEN <<>> ELSE <<first[1], first[2][1]>>

Match(i) == FirstFound(Searches(i))

\* extractMeaningfulL2Calls
Meaningful == SelectSeq(trace, LAMBDA c : c.input # "empty" /\ c.to \notin System)

\* The call that the description of an item speaks of; an action without match
\* is described as the proposal has it.
CallOf(i) ==
  IF ~onMainnet THEN Meaningful[i]
  ELSE IF Match(i) # <<>> THEN Match(i)[2]
  ELSE [from |-> Timelock, to |-> actions[i].target, input |-> actions[i].data,
        value |-> actions[i].value]

Items == IF onMainnet THEN Len(actions) ELSE Len(Meaningful)

EthTransfer(call) == call.input = "empty" /\ call.value > 0
-----------------------------------------------------------------------------
CallInit ==
  /\ onMainnet \in BOOLEAN /\ actions \in Proposals
  /\ \E n \in 0..Len(actions) : \E inner \in [1..n -> Inner] : trace = TraceOf(actions, n, inner)
  /\ nextIndex = 1
  /\ worker = [w \in Describers |-> Idle]
  /\ descriptions = <<>>
  /\ localWarnings = [i \in 1..Items |-> <<>>]
  /\ localAdvisories = [i \in 1..Items |-> <<>>]
  /\ verdict = Pending

At(w, place) == verdict = Pending /\ worker[w].at = place
Move(w, place) == worker' = [worker EXCEPT ![w].at = place]
Call(w) == CallOf(worker[w].item)

\* prettifyCalldata has returned: the caller adds what the match deserves.
Describe(w, i, source, failures) ==
  LET match == IF onMainnet THEN Match(i) ELSE <<"strict">>
      unmatched == match = <<>> /\ ~EthTransfer(CallOf(i))
      readable == source \in {"abi", "signature", "token"} IN
  /\ worker' = [worker EXCEPT ![w] = Idle]
  /\ descriptions' = [k \in DOMAIN descriptions \cup {i} |->
       IF k = i THEN [item |-> i, call |-> CallOf(i), source |-> source] ELSE descriptions[k]]
  /\ localWarnings' = [localWarnings EXCEPT ![i] =
       failures \o (IF unmatched /\ ~readable THEN <<[item |-> i, what |-> "no matching call"]>>
                    ELSE <<>>)]
  /\ localAdvisories' = [localAdvisories EXCEPT ![i] =
       IF unmatched /\ readable THEN <<[item |-> i, advisory |-> "no exact trace match"]>>
       ELSE IF match # <<>> /\ match[1] # "strict" THEN <<[item |-> i, advisory |-> match[1]]>>
       ELSE <<>>]

Silently == UNCHANGED <<descriptions, localWarnings, localAdvisories>>
SameProposal == UNCHANGED <<onMainnet, actions, trace>>

\* The worker takes the next item; a transfer of ether needs no lookup.
Take(w) ==
  /\ At(w, "idle") /\ nextIndex <= Items
  /\ nextIndex' = nextIndex + 1
  /\ IF EthTransfer(CallOf(nextIndex)) THEN Describe(w, nextIndex, "eth-transfer", <<>>)
     ELSE worker' = [worker EXCEPT ![w] = [at |-> "abi", item |-> nextIndex]] /\ Silently
  /\ SameProposal /\ UNCHANGED verdict

\* decodeFunctionWithAbi of the target, then of the implementation that the
\* trace or the proxy's slots name.
Abi(w) ==
  /\ At(w, "abi")
  /\ \/ Describe(w, worker[w].item, "abi", <<>>)
     \/ Move(w, "implementation") /\ Silently
     \/ Move(w, "proxy") /\ Silently
  /\ SameProposal /\ UNCHANGED <<nextIndex, verdict>>

Proxy(w) ==
  /\ At(w, "proxy")
  /\ \E next \in {"implementation", "fallback"} : Move(w, next)
  /\ Silently /\ SameProposal /\ UNCHANGED <<nextIndex, verdict>>

Implementation(w) ==
  /\ At(w, "implementation")
  /\ \/ Describe(w, worker[w].item, "abi", <<>>)
     \/ Move(w, "fallback") /\ Silently
  /\ SameProposal /\ UNCHANGED <<nextIndex, verdict>>

\* A known signature, a token's method, or a generic text with a warning.
Fallback(w) ==
  LET data == Call(w).input  i == worker[w].item IN
  /\ At(w, "fallback")
  /\ IF Selector(data) \in KnownSelectors /\ data \notin Malformed
       THEN Describe(w, i, "signature", <<>>)
     ELSE IF Selector(data) \in TokenSelectors THEN Move(w, "token") /\ Silently
     ELSE Describe(w, i, "generic", <<[item |-> i, what |-> "not decoded"]>>)
  /\ SameProposal /\ UNCHANGED <<nextIndex, verdict>>

\* fetchTokenMetadata, then the handler.
Token(w) ==
  /\ At(w, "token") /\ Call(w).input \notin Malformed
  /\ Describe(w, worker[w].item, "token", <<>>)
  /\ SameProposal /\ UNCHANGED <<nextIndex, verdict>>

\* The handler cannot decode the arguments and throws, and Promise.all with
\* it; the other worker's results are not read any more.
TokenThrows(w) ==
  /\ At(w, "token") /\ Call(w).input \in Malformed
  /\ verdict' = [Pending EXCEPT !.state = "thrown"]
  /\ Silently /\ SameProposal /\ UNCHANGED <<nextIndex, worker>>

\* All workers are through: warnings, advisories and descriptions by index.
Gather ==
  /\ verdict = Pending /\ nextIndex > Items
  /\ \A w \in Describers : worker[w] = Idle
  /\ verdict' =
       IF ~onMainnet /\ Items = 0
         THEN [state |-> "done", info |-> <<>>, warnings |-> <<[item |-> 0, what |-> "no calls"]>>]
         ELSE [state |-> "done", warnings |-> FlattenSeq(localWarnings),
               info |-> FlattenSeq([i \in 1..Items |->
                          (IF onMainnet THEN localAdvisories[i] ELSE <<>>) \o <<descriptions[i]>>])]
  /\ SameProposal /\ UNCHANGED <<nextIndex, worker, descriptions, localWarnings, localAdvisories>>

CallNext ==
  \/ \E w \in Describers : \/ Take(w) \/ Abi(w) \/ Proxy(w) \/ Implementation(w)
                           \/ Fallback(w) \/ Token(w) \/ TokenThrows(w)
  \/ Gather

CallSpec == CallInit /\ [][CallNext]_callVars
-----------------------------------------------------------------------------
IsAdvisory(entry) == "advisory" \in DOMAIN entry
Proposed(i) == [target |-> actions[i].target, data |-> actions[i].data, value |-> actions[i].value]

(***************************************************************************)
(* However the lookups of two workers interleave and however far the       *)
(* proposal ran, the list has one description per action in the order of   *)
(* the proposal, and a description speaks of exactly what its action sends,*)
(* to its target, with its data and its value, unless the line before it   *)
(* says for this action that the match is a heuristic.  An action that is  *)
(* not in the trace is never passed over: it has such a line, a warning,   *)
(* or is a plain transfer.                                                 *)
(***************************************************************************)
ActionsAreDescribed ==
  verdict.state = "done" /\ onMainnet =>
    LET info == verdict.info
        told == {n \in DOMAIN info : ~IsAdvisory(info[n])} IN
    /\ Cardinality(told) = Len(actions)
    /\ \A n \in DOMAIN actions : info[Place(told, n)].item = n
    /\ \A n \in DOMAIN info : ~IsAdvisory(info[n]) =>
         LET call == info[n].call  i == info[n].item
             advised == n > 1 /\ IsAdvisory(info[n - 1]) /\ info[n - 1].item = i IN
         /\ advised \/ [target |-> call.to, data |-> call.input, value |-> call.value] = Proposed(i)
         /\ \/ advised \/ EthTransfer(call)
            \/ \E m \in DOMAIN trace : trace[m] = call
            \/ \E m \in DOMAIN verdict.warnings : verdict.warnings[m].item = i
=============================================================================
