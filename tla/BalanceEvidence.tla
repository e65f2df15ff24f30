--------------------------- MODULE BalanceEvidence ---------------------------
(***************************************************************************)
(* What a report says of balances: getRpcAssetChanges and                  *)
(* getRpcBalanceSnapshots read them around the simulated transaction       *)
(* (utils/clients/rpc-assets.ts, rpc-balances.ts), getSimulationPrices     *)
(* values them, and the checks of asset balances and treasury movement     *)
(* tell the totals.  Every read and every quote may fail; tokens may       *)
(* change balances without an event, and calls may revert.                 *)
(***************************************************************************)
EXTENDS Integers, SequencesExt

CONSTANTS
  Transactions,  \* lists of moves [asset, from, to, amount, event, method, failed]
  Tokens,        \* assets other than "native" that have balances
  Holders, Sender, Treasuries,
  Opening,       \* asset -> holder -> balance at the pinned block
  Price,         \* asset -> dollars per unit
  Threshold,     \* totalUsdWarning and recipientUsdWarning
  Null           \* an unknown balance, change or value

Assets == Tokens \cup {"native"}

\* What is no asset moves nothing.  A contract whose balanceOf reverts, and by
\* whose methods nobody calls it, is dropped without a word
\* (getRpcBalanceSnapshots): it is no asset here, so a token that reverts on
\* balanceOf and yet moves balances is not among the transactions.
ASSUME BalanceAssumption ==
  /\ Sender \in Holders /\ Treasuries \subseteq Holders
  /\ IsFiniteSet(Tokens) /\ IsFiniteSet(Holders)
  /\ Opening \in [Assets -> [Holders -> Nat]] /\ Price \in [Assets -> Nat]
  /\ Threshold \in Nat /\ Null \notin Int
  /\ Transactions \subseteq Seq([asset : STRING, from : STRING, to : STRING, amount : Nat,
                                event : BOOLEAN, method : BOOLEAN, failed : BOOLEAN])
  /\ \A list \in Transactions : \A n \in DOMAIN list :
       list[n].asset \notin Assets => list[n].amount = 0 /\ ~list[n].event

VARIABLES
  provider,    \* rpc or tenderly
  replay,      \* payload.transaction_hash: a mined transaction is traced again
  moves,       \* what the transaction does
  todo,        \* contracts whose balances are still to be read
  gathering,   \* where the gathering is
  rows,        \* assetBalances: <<asset, holder>> -> balances before and after
  unavailable, \* assetBalanceUnavailableTokens
  quotes,      \* assets with a reliable price; "none" before they are fetched
  movement     \* what the checks say

balanceVars == <<provider, replay, moves, todo, gathering, rows, unavailable, quotes, movement>>

Unsaid == [said |-> FALSE]

\* The sum of a function's values.
Total(f) ==
  LET order == SetToSeq(DOMAIN f)
      sum[n \in 0..Cardinality(DOMAIN f)] == IF n = 0 THEN 0 ELSE sum[n - 1] + f[order[n]] IN
  sum[Cardinality(DOMAIN f)]
-----------------------------------------------------------------------------
(* The transaction.                                                        *)

Committed == {n \in DOMAIN moves : ~moves[n].failed}
Net(ns, asset, h) ==
  Total([n \in DOMAIN moves |->
           IF n \notin ns \/ moves[n].asset # asset THEN 0
           ELSE (IF moves[n].to = h THEN moves[n].amount ELSE 0)
                - (IF moves[n].from = h THEN moves[n].amount ELSE 0)])
Closing(asset, h) == Opening[asset][h] + Net(Committed, asset, h)

\* getRpcAssetChanges: native values of calls that succeeded, Transfer logs.
\* Tenderly reports the same ones.
Changes == {n \in Committed : moves[n].amount > 0 /\ (moves[n].asset = "native" \/ moves[n].event)}

\* Contracts that were called, also in vain; those called by a token's method.
Candidates == {moves[n].asset : n \in DOMAIN moves} \ {"native"}
TokenCalls == {moves[n].asset : n \in {m \in DOMAIN moves : moves[m].method}}

\* The accounts whose balances are read; the zero address is not one of them.
\* balance_addresses brings in the treasuries.
Watched ==
  ({Sender} \cup Treasuries
     \cup UNION {{moves[n].from, moves[n].to} :
                   n \in {m \in DOMAIN moves : m \in Changes \/ moves[m].method
                                               \/ moves[m].asset = "native"}})
  \cap Holders

Row(before, after) == [before |-> before, after |-> after]
-----------------------------------------------------------------------------
(* getRpcBalanceSnapshots.                                                 *)

\* Mutant of ReadBalance: a balance that cannot be read is zero.
ReadOrZero(value, ok) == IF ok THEN value ELSE 0

\* Unknown is not zero.
ReadBalance(value, ok) == IF ok THEN value ELSE Null

BalanceInit ==
  /\ provider \in {"rpc", "tenderly"} /\ replay \in BOOLEAN /\ moves \in Transactions
  /\ provider = "tenderly" => ~replay
  /\ todo = Candidates
  /\ gathering = IF provider = "rpc" THEN "native" ELSE "prices"
  /\ rows = [p \in {} |-> Row(Null, Null)] /\ unavailable = {} /\ quotes = {"none"} /\ movement = Unsaid

Same == UNCHANGED <<provider, replay, moves, quotes, movement>>

\* The tracer reports accounts, always the sender and possibly not all others
\* (traced); the rest are read one by one, which a replay cannot do.  Accounts
\* that changed have their new balance in the post-state.
Native ==
  /\ gathering = "native"
  /\ \E traced, lost \in SUBSET Watched :
       /\ Sender \in traced /\ lost \cap traced = {} /\ (replay => lost = Watched \ traced)
       /\ rows' = [p \in {"native"} \X Watched |->
                     LET h == p[2]
                         before == ReadBalance(Opening["native"][h], h \notin lost)
                         changed == Closing("native", h) # Opening["native"][h] IN
                     Row(before, IF changed THEN Closing("native", h) ELSE before)]
  /\ gathering' = IF replay THEN "prices" ELSE "tokens"
  /\ UNCHANGED <<todo, unavailable>> /\ Same

\* A contract that gave no sign of being a token is asked for a balance: one
\* that is none answers with an error and is left aside, a failed request is noted.
Identified(c) == c \in TokenCalls \/ \E n \in Changes : moves[n].asset = c

NotAToken(c) ==
  /\ gathering = "tokens" /\ c \in todo \ Tokens /\ ~Identified(c)
  /\ todo' = todo \ {c}
  /\ UNCHANGED <<gathering, rows, unavailable>> /\ Same

\* Discovery fails, or decimals() cannot be read, has changed or is too large.
TokenUnavailable(c) ==
  /\ gathering = "tokens" /\ c \in todo
  /\ todo' = todo \ {c} /\ unavailable' = unavailable \cup {c}
  /\ UNCHANGED <<gathering, rows>> /\ Same

\* balanceOf of every holder before and after; each read may fail.
TokenRead(t) ==
  /\ gathering = "tokens" /\ t \in todo \cap Tokens
  /\ \E lostBefore, lostAfter \in SUBSET Watched :
       rows' = [p \in DOMAIN rows \cup ({t} \X Watched) |->
                  IF p[1] # t THEN rows[p]
                  ELSE Row(ReadBalance(Opening[t][p[2]], p[2] \notin lostBefore),
                           ReadBalance(Closing(t, p[2]), p[2] \notin lostAfter))]
  /\ todo' = todo \ {t}
  /\ UNCHANGED <<gathering, unavailable>> /\ Same

TokensDone ==
  /\ gathering = "tokens" /\ todo = {}
  /\ gathering' = "prices"
  /\ UNCHANGED <<todo, rows, unavailable>> /\ Same

\* fetchPrices: a quote that is missing, stale, doubtful or of other decimals
\* is not used.  Tenderly's changes carry their dollar value or none.
Prices ==
  /\ gathering = "prices"
  /\ quotes' \in SUBSET Assets
  /\ gathering' = "report"
  /\ UNCHANGED <<provider, replay, moves, todo, rows, unavailable, movement>>
-----------------------------------------------------------------------------
(* The checks.                                                             *)

Touched(asset, h) == \E n \in Changes : moves[n].asset = asset /\ h \in {moves[n].from, moves[n].to}

\* getAssetBalanceReport: transfers without snapshot get a row of unknowns.
RowOf(p) == IF p \in DOMAIN rows THEN rows[p] ELSE Row(Null, Null)
Delta(p) ==
  IF Null \in {RowOf(p).before, RowOf(p).after} THEN Null ELSE RowOf(p).after - RowOf(p).before
Usd(p) == IF Delta(p) = 0 THEN 0
          ELSE IF Delta(p) = Null \/ p[1] \notin quotes THEN Null
          ELSE Delta(p) * Price[p[1]]

\* Rows that did not change are shown only when something moved.
ShownRows ==
  {p \in Assets \X Holders : Touched(p[1], p[2]) \/ (p \in DOMAIN rows /\ Delta(p) # 0)}

BalanceWarnings ==
  {"transfer events differ from measured changes" :
     p \in {q \in ShownRows : /\ q[1] # "native" /\ Delta(q) # Null
                              /\ Net(Changes, q[1], q[2]) # Delta(q)}}
  \cup {"not valued" : p \in {q \in ShownRows : Usd(q) = Null}}

\* checkTreasuryMovement for simulations over RPC.
Fall(p) == IF Usd(p) = Null \/ Usd(p) > 0 THEN 0 ELSE -Usd(p)
Rise(p) == IF Usd(p) = Null \/ Usd(p) < 0 THEN 0 ELSE Usd(p)
TreasuryReport ==
  LET mine == {p \in ShownRows : p[2] \in Treasuries /\ Delta(p) # 0}
      changes == {p \in mine : Delta(p) # Null}
      incomplete == \/ unavailable # {}
                    \/ \E h \in Treasuries : \A p \in DOMAIN rows : p[2] # h
                    \/ \E p \in mine : Usd(p) = Null
      decreases == Total([p \in Assets \X Treasuries |-> IF p \in changes THEN Fall(p) ELSE 0])
      Gain(h) == Total([a \in Assets |-> IF <<a, h>> \in ShownRows THEN Rise(<<a, h>>) ELSE 0]) IN
  [said |-> TRUE, changes |-> changes, incomplete |-> incomplete,
   total |-> IF incomplete THEN Null ELSE decreases,
   warned |-> decreases >= Threshold,
   recipients |-> {h \in Holders \ Treasuries : Gain(h) > 0 /\ Gain(h) >= Threshold},
   balances |-> BalanceWarnings]

\* getOutgoingTreasuryAssetChanges, and what checkTreasuryMovement makes of the
\* changes Tenderly reports.
Outgoing == {n \in Changes : moves[n].from \in Treasuries /\ moves[n].to \notin Treasuries}
OutgoingReport ==
  LET priced == {n \in Outgoing : moves[n].asset \in quotes}
      incomplete == priced # Outgoing
      Worth(ns) == Total([n \in DOMAIN moves |->
                            IF n \in ns THEN moves[n].amount * Price[moves[n].asset] ELSE 0])
      received(h) == {n \in priced : moves[n].to = h} IN
  [said |-> TRUE, changes |-> Outgoing, incomplete |-> incomplete,
   total |-> IF incomplete THEN Null ELSE Worth(priced),
   warned |-> ~incomplete /\ Worth(priced) >= Threshold,
   recipients |-> IF incomplete THEN {}
                  ELSE {h \in {moves[n].to : n \in Outgoing} : Worth(received(h)) >= Threshold},
   balances |-> {}]

Report ==
  /\ gathering = "report"
  /\ gathering' = "done"
  /\ movement' = IF provider = "rpc" THEN TreasuryReport ELSE OutgoingReport
  /\ UNCHANGED <<provider, replay, moves, todo, rows, unavailable, quotes>>

BalanceNext ==
  \/ Native \/ TokensDone \/ Prices \/ Report
  \/ \E c \in Candidates : NotAToken(c) \/ TokenUnavailable(c) \/ TokenRead(c)

BalanceSpec == BalanceInit /\ [][BalanceNext]_balanceVars
-----------------------------------------------------------------------------
LossOf(asset, h) == Opening[asset][h] - Closing(asset, h)
LossInUsd ==
  Total([p \in Assets \X Treasuries |->
           IF LossOf(p[1], p[2]) > 0 THEN LossOf(p[1], p[2]) * Price[p[1]] ELSE 0])
\* What left the treasuries by values of calls and by transfers that were logged.
SentInUsd ==
  Total([n \in DOMAIN moves |->
           IF /\ n \in Committed /\ moves[n].from \in Treasuries /\ moves[n].to \notin Treasuries
              /\ moves[n].asset \in Assets /\ (moves[n].asset = "native" \/ moves[n].event)
           THEN moves[n].amount * Price[moves[n].asset] ELSE 0])

(***************************************************************************)
(* Whatever reads and quotes failed, and with calls that reverted and      *)
(* tokens that move balances without events: a total for the treasury is   *)
(* told only if it is the true one, a loss that the total leaves out makes *)
(* the valuation incomplete, and a warning that the threshold is passed is *)
(* never false.  A mined transaction traced again measures native balances *)
(* only, so there its total may miss tokens that changed without an event; *)
(* what Tenderly reports of transfers is summed exactly or not at all.     *)
(***************************************************************************)
TreasuryTotalsAreReal ==
  movement.said =>
    IF provider = "rpc"
      THEN /\ movement.total # Null /\ ~replay => movement.total = LossInUsd
           /\ \A h \in Treasuries, a \in Assets : LossOf(a, h) > 0 /\ ~replay =>
                \/ movement.incomplete
                \/ <<a, h>> \in movement.changes /\ Delta(<<a, h>>) = -LossOf(a, h)
           /\ movement.warned => LossInUsd >= Threshold
      ELSE movement.total # Null => movement.total = SentInUsd
=============================================================================
