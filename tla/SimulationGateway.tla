--------------------------- MODULE SimulationGateway ---------------------------
(***************************************************************************)
(* The relay's gateway to the paid providers (relay/simulation-gateway.ts):*)
(* counters in Redis, one per quota, which a Lua script checks and spends  *)
(* at once for all instances.  An expired counter is gone.                 *)
(***************************************************************************)
EXTENDS Integers, Sequences, FiniteSets

CONSTANTS
  Seconds,            \* the length of each quota's window
  Limit               \* the calls each quota allows in it

Quotas == {"day", "minute", "trace", "explorer"}

ASSUME GatewayAssumption ==
  /\ Seconds \in [Quotas -> Nat \ {0}]
  /\ Limit \in [Quotas -> Nat \ {0}]

VARIABLES
  counter,  \* seatbelt:gateway:*, with its time to live
  spent     \* history: ages of the calls that spent each quota, oldest first

gatewayVars == <<counter, spent>>

NoCounter == [count |-> 0, ttl |-> 0]

GatewayInit ==
  /\ counter = [k \in Quotas |-> NoCounter]
  /\ spent = [k \in Quotas |-> <<>>]

\* The quotas of a call, in the order of the script's KEYS.
limits(kind) ==
  <<"day", "minute">> \o (IF kind = "rpc" THEN <<>> ELSE <<kind>>)

Keys(kind) == {limits(kind)[i] : i \in DOMAIN limits(kind)}
Full(k) == counter[k].count >= Limit[k]
Refuses(kind) == \E k \in Keys(kind) : Full(k)

\* The script's answer when it refuses: the life left of the first full key.
RetryAfterOf(kind) ==
  LET i == CHOOSE i \in DOMAIN limits(kind) :
             /\ Full(limits(kind)[i])
             /\ \A j \in 1..(i - 1) : ~Full(limits(kind)[j])
      ttl == counter[limits(kind)[i]].ttl
  IN IF ttl < 1 THEN 1 ELSE ttl

Incremented(k) ==
  IF counter[k].count = 0 THEN [count |-> 1, ttl |-> Seconds[k]]
                          ELSE [counter[k] EXCEPT !.count = @ + 1]

SpentBy(ks) == [k \in Quotas |-> IF k \in ks THEN Incremented(k) ELSE counter[k]]

\* Mutant of AfterRefusal: keys are spent one by one until one is full.
AfterRefusalSpent(kind) ==
  SpentBy({limits(kind)[i] : i \in {j \in DOMAIN limits(kind) :
                               \A h \in 1..j : ~Full(limits(kind)[h])}})

\* A refused call has spent nothing.
AfterRefusal(kind) == counter

Refuse(kind) ==
  /\ Refuses(kind)
  /\ counter' = AfterRefusal(kind)
  /\ UNCHANGED spent

Spend(kind) ==
  /\ ~Refuses(kind)
  /\ counter' = SpentBy(Keys(kind))
  /\ spent' = [k \in Quotas |-> IF k \in Keys(kind) THEN Append(spent[k], 0)
                                                    ELSE spent[k]]

\* The ages below a limit, in their order.
Below(ages, limit) ==
  LET upTo[n \in 0..Len(ages)] ==
        IF n = 0 THEN <<>>
        ELSE IF ages[n] < limit THEN Append(upTo[n - 1], ages[n]) ELSE upTo[n - 1]
  IN  upTo[Len(ages)]

\* A second passes: counters live on or expire.
Expire ==
  /\ counter' = [k \in Quotas |-> IF counter[k].ttl > 1
                                    THEN [counter[k] EXCEPT !.ttl = @ - 1]
                                    ELSE NoCounter]
  /\ spent' = [k \in Quotas |->
       Below([i \in DOMAIN spent[k] |-> spent[k][i] + 1], Seconds[k])]
=============================================================================
