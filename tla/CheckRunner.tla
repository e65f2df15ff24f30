------------------------------ MODULE CheckRunner ------------------------------
(***************************************************************************)
(* runChecksWithTimeouts (utils/check-runner.ts), called for one simulation*)
(* after the other: every check is started in its turn and awaited until   *)
(* its own time or the time of the whole call runs out.  A check that loses*)
(* the race is not stopped: it runs on beside later checks, also beside    *)
(* those of later calls, and may hold the event loop of all of them.       *)
(***************************************************************************)
EXTENDS Integers

CONSTANTS
  Count,      \* checks are numbered 1..Count, in the order of ALL_CHECKS
  Calls,      \* bound: number of calls
  Global,     \* globalTimeoutMs
  PerCheck,   \* per check: its override, or defaultPerCheckTimeoutMs
  MaxHold     \* bound: for how long checks keep the event loop from its timers

Checks == 1..Count

ASSUME RunnerAssumption ==
  /\ {Count, Calls, Global} \subseteq Nat \ {0}
  /\ PerCheck \in [Checks -> Nat \ {0}]
  /\ MaxHold \in Nat

VARIABLES
  now,      \* time since the present call began
  call,     \* number of the present call
  pc,       \* "loop", "await" or "done"
  i,        \* the loop's counter
  timer,    \* when the timer of the race goes off
  held,     \* for how long the event loop is still held
  running,  \* checks started and not settled: pairs of call and check
  began,    \* history: when each check was started
  results   \* per check: its verdict, when it was given

vars == <<now, call, pc, i, timer, held, running, began, results>>
-----------------------------------------------------------------------------
Verdicts == {"none", "answer", "error", "per-check", "global"}
Unknown == [c \in Checks |-> [verdict |-> "none", at |-> 0]]

TypeOK ==
  /\ now \in Nat
  /\ call \in 1..Calls
  /\ pc \in {"loop", "await", "done"}
  /\ i \in 1..(Count + 1) /\ (pc = "await" => i \in Checks)
  /\ timer \in 0..Global
  /\ held \in 0..MaxHold
  /\ running \subseteq (1..Calls) \X Checks
  /\ began \in [Checks -> Nat]
  /\ results \in [Checks -> [verdict: Verdicts, at: Nat]]

Init ==
  /\ now = 0
  /\ call = 1
  /\ pc = "loop"
  /\ i = 1
  /\ timer = 0
  /\ held = 0
  /\ running = {}
  /\ began = [c \in Checks |-> 0]
  /\ results = Unknown

Give(S, v) == [c \in Checks |-> IF c \in S THEN [verdict |-> v, at |-> now]
                                           ELSE results[c]]
-----------------------------------------------------------------------------
(* The loop.                                                               *)

remainingGlobalMs == Global - now

\* Mutant of OutOfTime: of the remaining checks, the first is left out.
OutOfTimeAfterThis ==
  /\ pc = "loop" /\ held = 0
  /\ i <= Count
  /\ remainingGlobalMs <= 0
  /\ results' = Give({c \in Checks : c > i}, "global")
  /\ pc' = "done"
  /\ UNCHANGED <<now, call, i, timer, held, running, began>>

\* The time of the call is over: this check and all after it are skipped.
OutOfTime ==
  /\ pc = "loop" /\ held = 0
  /\ i <= Count
  /\ remainingGlobalMs <= 0
  /\ results' = Give({c \in Checks : c >= i}, "global")
  /\ pc' = "done"
  /\ UNCHANGED <<now, call, i, timer, held, running, began>>

\* Mutant of effectiveTimeoutMs: what is left of the call does not matter.
effectiveTimeoutMsUncut == PerCheck[i]

effectiveTimeoutMs ==
  IF PerCheck[i] < remainingGlobalMs THEN PerCheck[i] ELSE remainingGlobalMs

\* Start check i and its timer; it may hold the event loop from the start.
StartCheck ==
  /\ pc = "loop" /\ held = 0
  /\ i <= Count
  /\ remainingGlobalMs > 0
  /\ running' = running \cup {<<call, i>>}
  /\ began' = [began EXCEPT ![i] = now]
  /\ timer' = now + effectiveTimeoutMs
  /\ held' \in 0..MaxHold
  /\ pc' = "await"
  /\ UNCHANGED <<now, call, i, results>>

Finished ==
  /\ pc = "loop" /\ held = 0
  /\ i > Count
  /\ pc' = "done"
  /\ UNCHANGED <<now, call, i, timer, held, running, began, results>>
-----------------------------------------------------------------------------
(* The race.                                                               *)

Due == pc = "await" /\ now >= timer

\* The check answers or throws (runCheckSafely) before its timer is heard;
\* it may do so late, when it has held the event loop past that time.
Settle ==
  /\ pc = "await" /\ held = 0
  /\ <<call, i>> \in running
  /\ running' = running \ {<<call, i>>}
  /\ \E v \in {"answer", "error"} : results' = Give({i}, v)
  /\ i' = i + 1
  /\ pc' = "loop"
  /\ UNCHANGED <<now, call, timer, held, began>>

\* Mutant of timeoutKind: the wrong one of the two is asked.
timeoutKindSwapped ==
  IF timer - began[i] = PerCheck[i] THEN "global" ELSE "per-check"

\* The timer was set for what was left of the call, or for the check.
timeoutKind == IF timer = Global THEN "global" ELSE "per-check"

\* The timer goes off first: the check is skipped and, if the call is out of
\* time, so are all after it.
TimeOut ==
  /\ Due /\ held = 0
  /\ IF timeoutKind = "per-check"
       THEN /\ results' = Give({i}, "per-check")
            /\ i' = i + 1
            /\ pc' = "loop"
       ELSE /\ results' = Give({c \in Checks : c >= i}, "global")
            /\ pc' = "done"
            /\ UNCHANGED i
  /\ UNCHANGED <<now, call, timer, held, running, began>>
-----------------------------------------------------------------------------
(* Other events.                                                           *)

\* A check that lost its race ends: nobody listens.
SettleUnheard(r) ==
  /\ held = 0
  /\ r \in running /\ ~(pc = "await" /\ r = <<call, i>>)
  /\ running' = running \ {r}
  /\ UNCHANGED <<now, call, pc, i, timer, held, began, results>>

\* A running check, heard or not, computes without a pause; a timer that is
\* due goes off before.
Hold ==
  /\ held = 0 /\ ~Due
  /\ pc = "await"
  /\ running # {}
  /\ held' \in 1..MaxHold
  /\ UNCHANGED <<now, call, pc, i, timer, running, began, results>>

\* Time passes while nothing is ready to run.
Tick ==
  /\ pc = "await"
  /\ held > 0 \/ ~Due
  /\ now' = now + 1
  /\ held' = IF held > 0 THEN held - 1 ELSE 0
  /\ UNCHANGED <<call, pc, i, timer, running, began, results>>

\* The checks of the next simulation.
NextCall ==
  /\ pc = "done"
  /\ call < Calls
  /\ call' = call + 1
  /\ now' = 0
  /\ pc' = "loop"
  /\ i' = 1
  /\ timer' = 0
  /\ began' = [c \in Checks |-> 0]
  /\ results' = Unknown
  /\ UNCHANGED <<held, running>>

Loop == OutOfTime \/ StartCheck \/ Finished \/ NextCall

Next ==
  \/ Loop \/ Settle \/ TimeOut \/ Hold \/ Tick
  \/ \E r \in running : SettleUnheard(r)

Spec == Init /\ [][Next]_vars

\* The event loop runs what is ready and hears due timers, and time passes;
\* no check need ever settle.
FairSpec == Spec /\ WF_vars(Loop) /\ WF_vars(TimeOut) /\ WF_vars(Tick)
-----------------------------------------------------------------------------
(***************************************************************************)
(* A skip is earned: a check that is said to have timed out has had its    *)
(* own time in full, and checks are skipped for the call's time only when  *)
(* that is over.                                                           *)
(***************************************************************************)
SkipsAreEarned ==
  \A c \in Checks :
    /\ results[c].verdict = "per-check" => results[c].at - began[c] >= PerCheck[c]
    /\ results[c].verdict = "global" => results[c].at >= Global

(***************************************************************************)
(* Whatever the checks of this call and the ones left over from earlier    *)
(* calls do, the call ends at its deadline, or when the event loop is let  *)
(* go if it was held then.                                                 *)
(***************************************************************************)
Latest == Global + IF MaxHold = 0 THEN 0 ELSE MaxHold - 1

EndsInTime == now <= Latest

(***************************************************************************)
(* Every call ends with one verdict for each check, even if no check ever  *)
(* answers.                                                                *)
(***************************************************************************)
EveryCheckHasVerdict ==
  \A n \in 1..Calls :
    <>(call = n /\ pc = "done" /\ \A c \in Checks : results[c].verdict # "none")
-----------------------------------------------------------------------------
(* The inductive invariant behind SkipsAreEarned and EndsInTime.           *)

\* A check that has not had its turn has no verdict.
VerdictsInTurn ==
  pc # "done" => \A c \in Checks : c >= i => results[c].verdict = "none"

\* The timer is set for the time of the check or of the call.
TimerIsSet ==
  pc = "await" =>
    /\ timer <= Global
    /\ timer # Global => timer = began[i] + PerCheck[i]

\* The event loop is let go in time.
HeldInTime == now + held <= Latest

IInv == TypeOK /\ SkipsAreEarned /\ VerdictsInTurn /\ TimerIsSet /\ HeldInTime
=============================================================================
