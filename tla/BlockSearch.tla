------------------------------ MODULE BlockSearch ------------------------------
(***************************************************************************)
(* Which block of a destination chain belongs to a source block's time?    *)
(* findBlockNumberAtOrBeforeTimestamp (utils/bridges/wormhole-execution.ts)*)
(* asks the chain's node for the latest block and then bisects, while the  *)
(* chain grows and requests fail and are repeated.                         *)
(***************************************************************************)
EXTENDS Integers

CONSTANTS
  LastBlock,        \* bound: the last block the chain will have
  MaxStamp,    \* bound on timestamps
  Attempts     \* DESTINATION_SETUP_MAX_ATTEMPTS, 3

ASSUME SearchAssumption ==
  /\ LastBlock \in Nat /\ MaxStamp \in Nat
  /\ Attempts \in Nat \ {0}

VARIABLES
  stamp,       \* timestamps of the chain's blocks, those to come included
  target,      \* sourceTimestamp
  head,        \* the newest block
  pc,          \* "number", "latest", "probe", "found" or "failed"
  attempt,     \* attempts at the current request
  latest,      \* latestBlock.number
  low, high, best

searchVars == <<stamp, target, head, pc, attempt, latest, low, high, best>>

SearchInit ==
  /\ stamp \in {s \in [0..LastBlock -> 0..MaxStamp] :
                  \A a, b \in 0..LastBlock : a <= b => s[a] <= s[b]}
  /\ target \in 0..MaxStamp
  /\ head \in 0..LastBlock
  /\ pc = "number" /\ attempt = 1
  /\ latest = 0 /\ low = 0 /\ high = 0 /\ best = 0

LatestNumber ==
  /\ pc = "number"
  /\ latest' = head /\ pc' = "latest" /\ attempt' = 1
  /\ UNCHANGED <<stamp, target, head, low, high, best>>

\* The latest block itself, when it is early enough; else bisection from 0.
LatestBlock ==
  /\ pc = "latest"
  /\ IF stamp[latest] <= target
       THEN pc' = "found" /\ best' = latest /\ UNCHANGED <<low, high>>
       ELSE pc' = "probe" /\ low' = 0 /\ high' = latest /\ best' = 0
  /\ attempt' = 1
  /\ UNCHANGED <<stamp, target, head, latest>>

Mid == (low + high) \div 2

\* Mutant of Narrow: a candidate of exactly the time asked for is passed over.
NarrowBefore(early) ==
  IF early /\ stamp[Mid] < target
    THEN best' = Mid /\ low' = Mid + 1 /\ UNCHANGED high
    ELSE high' = Mid - 1 /\ UNCHANGED <<best, low>>

Narrow(early) ==
  IF early THEN best' = Mid /\ low' = Mid + 1 /\ UNCHANGED high
           ELSE high' = Mid - 1 /\ UNCHANGED <<best, low>>

\* One turn of the loop, and its condition after it.
Probe ==
  /\ pc = "probe"
  /\ Narrow(stamp[Mid] <= target)
  /\ pc' = IF low' <= high' THEN "probe" ELSE "found"
  /\ attempt' = 1
  /\ UNCHANGED <<stamp, target, head, latest>>

\* withDestinationSetupRetry: at once again, or the last error is thrown.
RequestFails ==
  /\ pc \in {"number", "latest", "probe"}
  /\ IF attempt < Attempts THEN attempt' = attempt + 1 /\ UNCHANGED pc
                           ELSE pc' = "failed" /\ UNCHANGED attempt
  /\ UNCHANGED <<stamp, target, head, latest, low, high, best>>

NewBlock ==
  /\ head < LastBlock /\ head' = head + 1
  /\ UNCHANGED <<stamp, target, pc, attempt, latest, low, high, best>>

SearchNext == LatestNumber \/ LatestBlock \/ Probe \/ RequestFails \/ NewBlock
SearchSpec == SearchInit /\ [][SearchNext]_searchVars
-----------------------------------------------------------------------------
AtOrBefore == {b \in 0..latest : stamp[b] <= target}

(***************************************************************************)
(* The search ends with the last block at or before the time asked for, of *)
(* the chain as it was when the search began, and with the first block of  *)
(* all when every block is later: whatever the timestamps (blocks may share*)
(* one), however the chain grows meanwhile and requests are repeated.      *)
(***************************************************************************)
SearchFindsLast ==
  pc = "found" =>
    \/ best \in AtOrBefore /\ \A b \in AtOrBefore : b <= best
    \/ AtOrBefore = {} /\ best = 0
=============================================================================
