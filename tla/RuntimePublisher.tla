--------------------------- MODULE RuntimePublisher ---------------------------
(***************************************************************************)
(* publishViaVercelApi (relay/vercel-runtime-publisher.ts): an execution   *)
(* of the relay creates a deployment at Vercel, then asks for an alias of  *)
(* its publish id until Vercel agrees, refuses for good, or the budget is  *)
(* spent; without alias the deployment's own URL is handed out.  Answers   *)
(* may be lost after Vercel has acted, and a deployment takes its time to  *)
(* become ready.                                                           *)
(***************************************************************************)
EXTENDS Integers, FiniteSetsExt

CONSTANTS
  Execs,              \* executions of the relay; each has its own publish id
  Raws,               \* artifacts, byte for byte: what is deployed and hashed
  None,
  AliasBudget,        \* deployTimeoutMs
  RetryBase,          \* aliasRetryBaseMs
  RetryMax            \* aliasRetryMaxMs

ASSUME PublisherAssumption ==
  /\ {AliasBudget, RetryBase, RetryMax} \subseteq Nat \ {0}
  /\ None \notin Execs \cup Raws

VARIABLES
  exec,     \* publisher of each execution
  ready,    \* deployments that Vercel serves
  alias     \* the deployment behind each alias host

publishing == <<exec, ready, alias>>

\* Time is counted down: `left' of the alias budget, `nap' of a sleep, `delay'
\* is the next sleep.  `late' and `refused' are histories.
NewExec == [pc |-> "idle", raw |-> None, left |-> 0, nap |-> 0, delay |-> 0,
            late |-> FALSE, refused |-> FALSE, base |-> "none"]

PublisherInit ==
  /\ exec = [e \in Execs |-> NewExec]
  /\ ready = {}
  /\ alias = [h \in Execs \cup {"proposal"} |-> None]

Step(e, r) == exec' = [exec EXCEPT ![e] = r]

\* Mutant of Host: the host is made of the proposal, not of the publish id.
HostOfProposal(e) == "proposal"

\* toPublishAliasHostname
Host(e) == e

\* readManagedVercelEnv throws, or the deployment request fails, or its answer
\* is not an object with a url and an id: the execution fails with it.
DeploymentFails(e) ==
  /\ exec[e].pc = "creating"
  /\ Step(e, [exec[e] EXCEPT !.pc = "failed"])
  /\ UNCHANGED <<ready, alias>>

\* The deployment is there; the alias budget starts with the first attempt.
createDeployment(e) ==
  /\ exec[e].pc = "creating"
  /\ Step(e, [exec[e] EXCEPT !.pc = "aliasing", !.left = AliasBudget,
                             !.delay = RetryBase])
  /\ UNCHANGED <<ready, alias>>

\* Vercel finishes the build of a deployment.
BecomesReady(e) ==
  /\ exec[e].pc \notin {"idle", "creating", "failed"}
  /\ e \notin ready
  /\ ready' = ready \cup {e}
  /\ UNCHANGED <<exec, alias>>

Returns(e, base) ==
  Step(e, [exec[e] EXCEPT !.pc = "returned", !.base = base, !.delay = 0,
                          !.left = IF base = "alias" THEN 0 ELSE @])

\* createPublishAlias: 2xx, or 409 because the host is taken.
AliasAnswered(e) ==
  /\ exec[e].pc = "aliasing"
  /\ \/ /\ alias[Host(e)] # None
        /\ UNCHANGED alias
     \/ /\ alias[Host(e)] = None /\ e \in ready
        /\ alias' = [alias EXCEPT ![Host(e)] = e]
  /\ Returns(e, "alias")
  /\ UNCHANGED ready

\* An error that is not retried: 401, 403, 404 and the like.
AliasRefused(e) ==
  /\ exec[e].pc = "aliasing"
  /\ Step(e, [exec[e] EXCEPT !.pc = "returned", !.base = "deployment",
                             !.refused = TRUE, !.left = 0, !.delay = 0])
  /\ UNCHANGED <<ready, alias>>

\* Mutant of RetryDelay: the rest of the budget is not looked at.
RetryDelayUncut(e) == Min({exec[e].delay, RetryMax})

RetryDelay(e) == Min({exec[e].delay, RetryMax, exec[e].left})

\* isRetryableAliasError: the deployment is not ready, Vercel is busy, or the
\* answer was lost, then perhaps after the alias was set.
AliasFails(e) ==
  /\ exec[e].pc = "aliasing"
  /\ IF exec[e].left <= 0
       THEN Returns(e, "deployment")
       ELSE Step(e, [exec[e] EXCEPT !.pc = "sleeping", !.nap = RetryDelay(e),
                                    !.delay = 2 * @])
  /\ \/ UNCHANGED alias
     \/ /\ alias[Host(e)] = None /\ e \in ready
        /\ alias' = [alias EXCEPT ![Host(e)] = e]
  /\ UNCHANGED ready

\* The sleep is over: the next attempt.
AliasAgain(e) ==
  /\ exec[e].pc = "sleeping" /\ exec[e].nap = 0
  /\ Step(e, [exec[e] EXCEPT !.pc = "aliasing", !.late = exec[e].left < 0])
  /\ UNCHANGED <<ready, alias>>

\* Time passes for all publishers at once; a timer that is due fires first.
Tick ==
  /\ \A e \in Execs : exec[e].pc = "sleeping" => exec[e].nap > 0
  /\ exec' = [e \in Execs |->
       IF exec[e].pc \notin {"aliasing", "sleeping"} THEN exec[e]
       ELSE [exec[e] EXCEPT !.left = Max({@ - 1, -1}), !.nap = Max({@ - 1, 0})]]
  /\ UNCHANGED <<ready, alias>>

PublisherNext ==
  \/ Tick
  \/ \E e \in Execs :
       \/ createDeployment(e) \/ DeploymentFails(e) \/ BecomesReady(e)
       \/ AliasAnswered(e) \/ AliasRefused(e) \/ AliasFails(e) \/ AliasAgain(e)
-----------------------------------------------------------------------------
(***************************************************************************)
(* The alias budget is kept and used: no attempt begins after it is spent, *)
(* and a publish falls back to the deployment's URL only when the budget   *)
(* is over or Vercel refused for good (createPublishAliasWithRetry).       *)
(***************************************************************************)
AliasBudgetIsUsed ==
  \A e \in Execs :
    /\ ~exec[e].late
    /\ (exec[e].base = "deployment" /\ ~exec[e].refused) => exec[e].left <= 0
-----------------------------------------------------------------------------
(* Why the budget is kept.                                                 *)

PublisherTypes ==
  /\ exec \in
       [Execs ->
          [pc: {"idle", "creating", "aliasing", "sleeping", "returned",
                "recorded", "failed"},
           raw: Raws \cup {None}, left: Int, nap: Int, delay: Int,
           late: BOOLEAN, refused: BOOLEAN,
           base: {"none", "alias", "deployment"}]]
  /\ ready \subseteq Execs
  /\ alias \in [Execs \cup {"proposal"} -> Execs \cup {None}]

\* A sleep ends within the budget.
SleepFits(e) == exec[e].pc = "sleeping" => exec[e].nap <= exec[e].left

\* An address is handed out at the end; a pretty one leads to its deployment.
HandedOut(e) ==
  /\ exec[e].base # "none" => exec[e].pc \in {"returned", "recorded"}
  /\ exec[e].base = "alias" => alias[Host(e)] = e

\* Nobody else has taken the host.
HostIsOwn(e) == alias[Host(e)] \in {None, e}

PublisherInv ==
  /\ PublisherTypes /\ AliasBudgetIsUsed
  /\ \A e \in Execs : SleepFits(e) /\ HandedOut(e) /\ HostIsOwn(e)
=============================================================================
