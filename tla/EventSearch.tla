------------------------------ MODULE EventSearch ------------------------------
(***************************************************************************)
(* Looking for an event in the logs of the source chain.  The Tenderly     *)
(* client (utils/clients/tenderly.ts) asks for one range of blocks after   *)
(* the other until the event is in one; the RPC transport                  *)
(* (utils/clients/client.ts) splits a range that the node would refuse.    *)
(* Every block has one log here, named by the block's number.              *)
(***************************************************************************)
EXTENDS Integers, Sequences

CONSTANTS
  Final,      \* bound: the last block the chain will have
  Chunk,      \* blocks of one request, 10,000
  Windows     \* the windows around the approximate block, ascending

ASSUME EventAssumption ==
  /\ Final \in Nat /\ Chunk \in Nat \ {0}
  /\ Windows \in Seq(Nat)

VARIABLES
  tip,        \* the newest block
  event,      \* the block whose log is looked for; 0..Final
  wanted,     \* first and last block that may hold it, as the caller knows
  ranges,     \* the ranges still to ask for, first the current one
  step,       \* "ask", "chunk", "reply", "found", "missing" or "failed"
  end,        \* last block of the current range
  from,       \* start of the next chunk
  got         \* logs of the current range so far

eventVars == <<tip, event, wanted, ranges, step, end, from, got>>

Newest == -1      \* 'latest' or an absent toBlock
Smaller(a, b) == IF a < b THEN a ELSE b
Span(a, b) == [first |-> a, last |-> b]

\* findProposalCreatedEventNearBlock: ever larger windows, then the whole chain.
NearBlock(approx, latest) ==
  LET at == Smaller(approx, latest) IN
  [w \in 1..Len(Windows) + 1 |->
     IF w > Len(Windows) THEN Span(0, latest)
     ELSE Span(IF at > Windows[w] THEN at - Windows[w] ELSE 0,
                Smaller(at + Windows[w], latest))]

\* simulateExecuted: the ranges of one request each, from startBlock on.
Onwards(start, latest) ==
  [n \in 1..((latest - start) \div Chunk + 1) |->
     Span(start + (n - 1) * Chunk, Smaller(start + n * Chunk - 1, latest))]

\* Which ranges a caller asks for, at the tip it has read.
EventInit ==
  /\ tip \in 0..Final /\ event \in 0..Final
  /\ \/ \E approx \in 0..Final :
          ranges = NearBlock(approx, tip) /\ wanted = Span(0, tip)
     \/ \E start \in 0..tip :
          ranges = Onwards(start, tip) /\ wanted = Span(start, tip)
     \/ \E start \in 0..Final, last \in {Newest} \cup 0..Final :
          ranges = <<Span(start, last)>> /\ wanted = Span(start, last)
  /\ step = "ask" /\ end = 0 /\ from = 0 /\ got = <<>>

Blocks(a, b) == [n \in 1..(IF b < a THEN 0 ELSE b - a + 1) |-> a + n - 1]

\* eth_getLogs with a numeric start: the tip stands for 'latest', and a range
\* that is too long is split.
Ask ==
  /\ step = "ask" /\ ranges # <<>>
  /\ end' = IF Head(ranges).last = Newest THEN tip ELSE Head(ranges).last
  /\ from' = Head(ranges).first
  /\ step' = IF end' - from' >= Chunk THEN "chunk" ELSE "whole"
  /\ got' = <<>>
  /\ UNCHANGED <<tip, event, wanted, ranges>>

\* The node evaluates 'latest' anew, and refuses what is too long for it.
AskWhole ==
  /\ step = "whole"
  /\ end' = IF Head(ranges).last = Newest THEN tip ELSE end
  /\ IF end' - from > Chunk THEN step' = "failed" /\ UNCHANGED got
                            ELSE step' = "reply" /\ got' = Blocks(from, end')
  /\ UNCHANGED <<tip, event, wanted, ranges, from>>

\* Mutant of ChunkEnd: chunks that share a block.
ChunkEndShared == Smaller(from + Chunk, end)
ChunkEnd == Smaller(from + Chunk - 1, end)

AskChunk ==
  /\ step = "chunk"
  /\ got' = got \o Blocks(from, ChunkEnd)
  /\ from' = from + Chunk
  /\ step' = IF from' <= end THEN "chunk" ELSE "reply"
  /\ UNCHANGED <<tip, event, wanted, ranges, end>>

Holds == \E n \in DOMAIN got : got[n] = event

\* The event is taken, the next range is asked for, or the search has failed.
Reply ==
  /\ step = "reply"
  /\ IF Holds THEN step' = "found" /\ UNCHANGED ranges
     ELSE /\ ranges' = Tail(ranges)
          /\ step' = IF Len(ranges) > 1 THEN "ask" ELSE "missing"
  /\ UNCHANGED <<tip, event, wanted, end, from, got>>

\* Any error of the node ends the search with an exception.
NodeFails ==
  /\ step \in {"ask", "whole", "chunk"}
  /\ step' = "failed"
  /\ UNCHANGED <<tip, event, wanted, ranges, end, from, got>>

TipGrows ==
  /\ tip < Final /\ tip' = tip + 1
  /\ UNCHANGED <<event, wanted, ranges, step, end, from, got>>

EventNext ==
  Ask \/ AskWhole \/ AskChunk \/ Reply \/ NodeFails \/ TipGrows
EventSpec == EventInit /\ [][EventNext]_eventVars
-----------------------------------------------------------------------------
\* An answer of the transport holds the logs of exactly the range that was asked
\* for, each once and in order.
LogsAreExact ==
  step = "reply" =>
    /\ got = Blocks(Head(ranges).first, end)
    /\ Head(ranges).last \in {Newest, end}

\* An event is called missing only when no block the caller means holds it.
MissingIsNowhere ==
  step = "missing" =>
    ~(wanted.first <= event
      /\ event <= (IF wanted.last = Newest THEN end ELSE wanted.last))

(***************************************************************************)
(* However a range is split and a search widened, and whatever the chain   *)
(* grows meanwhile, no log is lost or doubled and no event overlooked.     *)
(***************************************************************************)
EventsAreFound == LogsAreExact /\ MissingIsNowhere
=============================================================================
