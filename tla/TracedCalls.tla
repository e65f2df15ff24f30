----------------------------- MODULE TracedCalls -----------------------------
(***************************************************************************)
(* simulationRpc (utils/clients/rpc-simulation.ts) through managedFetch to *)
(* the gateway: trace requests of one process wait in a chain of promises  *)
(* that keeps them Gap apart, and are asked again after a rate limit, with *)
(* a growing delay and at most Attempts times.  Calls of other processes   *)
(* spend the same quotas.                                                  *)
(***************************************************************************)
EXTENDS SimulationGateway

CONSTANTS
  Calls,              \* calls to debug_traceCall of this process
  Gap,                \* 50 ms in the code
  Attempts,           \* 4 in the code
  BackoffBase,        \* 1000 ms in the code
  BackoffMax          \* 30 000 ms in the code

ASSUME PacingAssumption ==
  {Gap, Attempts, BackoffBase, BackoffMax} \subseteq Nat \ {0}

VARIABLES
  call,     \* each call of the process
  queue,    \* traceQueues: calls whose slot has not come, first one's timer running
  due       \* that timer

pacingVars == <<call, queue, due>>
tracedVars == <<gatewayVars, pacingVars>>

PacingInit ==
  /\ GatewayInit
  /\ call = [c \in Calls |-> [pc |-> "new", attempt |-> 0, nap |-> 0]]
  /\ queue = <<>> /\ due = 0

Call(c, pc, attempt, nap) ==
  call' = [call EXCEPT ![c] = [pc |-> pc, attempt |-> attempt, nap |-> nap]]

\* A slot behind the ones that are waiting.
TakeSlot(c) ==
  /\ \/ call[c].pc = "new"
     \/ call[c].pc = "sleeping" /\ call[c].nap = 0
  /\ Call(c, "queued", call[c].attempt, 0)
  /\ queue' = Append(queue, c)
  /\ due' = IF queue = <<>> THEN Gap ELSE due
  /\ UNCHANGED gatewayVars

\* The first slot comes: its request goes out, the next timer starts.
SlotComes ==
  /\ queue # <<>> /\ due = 0
  /\ Call(Head(queue), "asked", call[Head(queue)].attempt, 0)
  /\ queue' = Tail(queue)
  /\ due' = IF Tail(queue) = <<>> THEN 0 ELSE Gap
  /\ UNCHANGED gatewayVars

Smaller(a, b) == IF a < b THEN a ELSE b
Larger(a, b) == IF a > b THEN a ELSE b

Backoff(attempt, retryAfter) ==
  Smaller(BackoffMax, Larger(BackoffBase * 2^attempt, retryAfter))

\* Mutant of RateLimited: the loop starts again with the same attempt.
RateLimitedForEver(c, retryAfter) ==
  IF call[c].attempt < Attempts - 1
    THEN Call(c, "sleeping", call[c].attempt, Backoff(call[c].attempt, retryAfter))
    ELSE Call(c, "failed", call[c].attempt, 0)

\* A 429, or the provider's own code for it: sleep and ask again, or give up.
RateLimited(c, retryAfter) ==
  IF call[c].attempt < Attempts - 1
    THEN Call(c, "sleeping", call[c].attempt + 1,
              Backoff(call[c].attempt, retryAfter))
    ELSE Call(c, "failed", call[c].attempt, 0)

\* The script refuses: 429 with its Retry-After.
RefusedByQuota(c) ==
  /\ call[c].pc = "asked"
  /\ Refuse("trace")
  /\ RateLimited(c, RetryAfterOf("trace"))
  /\ UNCHANGED <<queue, due>>

\* The script allows the call, which goes to the provider.
LetThrough(c) ==
  /\ call[c].pc = "asked"
  /\ Spend("trace")
  /\ Call(c, "forwarded", call[c].attempt, 0)
  /\ UNCHANGED <<queue, due>>

\* Redis times out or is down, perhaps after the script has run: 503.
QuotaUnavailable(c) ==
  /\ call[c].pc = "asked"
  /\ Call(c, "failed", call[c].attempt, 0)
  /\ Spend("trace") \/ UNCHANGED gatewayVars
  /\ UNCHANGED <<queue, due>>

\* The provider's answer, or none within the timeouts of gateway and client.
ProviderAnswers(c) ==
  /\ call[c].pc = "forwarded"
  /\ \/ \E end \in {"done", "failed"} : Call(c, end, call[c].attempt, 0)
     \/ RateLimited(c, 1)
  /\ UNCHANGED <<gatewayVars, queue, due>>

\* Another process asks the gateway for anything.
OtherProcess(kind) ==
  /\ Spend(kind) \/ Refuse(kind)
  /\ UNCHANGED pacingVars

\* Time passes; timers that are due come first.
TracedTick ==
  /\ queue # <<>> => due > 0
  /\ \A c \in Calls : call[c].pc = "sleeping" => call[c].nap > 0
  /\ Expire
  /\ call' = [c \in Calls |-> [call[c] EXCEPT !.nap = Larger(@ - 1, 0)]]
  /\ due' = Larger(due - 1, 0)
  /\ UNCHANGED queue

CallSteps(c) ==
  \/ TakeSlot(c) \/ RefusedByQuota(c) \/ LetThrough(c) \/ QuotaUnavailable(c)
  \/ ProviderAnswers(c)

TracedNext ==
  \/ TracedTick \/ SlotComes
  \/ \E c \in Calls : CallSteps(c)
  \/ \E kind \in {"rpc", "trace", "explorer"} : OtherProcess(kind)

TracedSpec == PacingInit /\ [][TracedNext]_tracedVars

\* Timers fire and every request ends, by an answer or by a timeout.
TracedFairness ==
  /\ WF_tracedVars(TracedTick) /\ WF_tracedVars(SlotComes)
  /\ \A c \in Calls : WF_tracedVars(CallSteps(c))
-----------------------------------------------------------------------------
(***************************************************************************)
(* A quota's allowance is neither lost nor stretched, whatever calls of    *)
(* several kinds and processes are mixed: a call is refused only if one of *)
(* its quotas was spent in full, within its window, by calls that were let *)
(* through or whose answer was lost (never by refused ones), and no window,*)
(* wherever it is laid, has more than twice the allowance (quotaScript).   *)
(***************************************************************************)
AllowanceIsHonest ==
  /\ \A kind \in {"rpc", "trace", "explorer"} :
       Refuses(kind) => \E k \in Keys(kind) : Len(spent[k]) >= Limit[k]
  /\ \A k \in Quotas : Len(spent[k]) <= 2 * Limit[k]

(***************************************************************************)
(* Every trace call ends, with a result or an error, however often it is   *)
(* rate limited and whatever the calls before it in the chain came to.     *)
(***************************************************************************)
EveryCallEnds == \A c \in Calls : <>(call[c].pc \in {"done", "failed"})
=============================================================================
