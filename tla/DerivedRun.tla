------------------------------ MODULE DerivedRun ------------------------------
(***************************************************************************)
(* A derived simulation (index.ts, utils/derived-state.ts): a predecessor  *)
(* proposal is simulated and checked, a gate decides on what was found, and*)
(* the dependent proposal runs on the chain states the predecessor left.   *)
(* Each run simulates, then runs the checks on the source chain and on     *)
(* every call of every successful destination job, merging the results per *)
(* chain into the coverage that the report publishes.                      *)
(***************************************************************************)
EXTENDS CrossChain

CONSTANTS
  Dependents,  \* the dependent proposals, as Proposals
  Checks,      \* check ids
  CheckRuns,   \* results runChecksForChain may return: [Checks -> Verdicts]
  Source       \* the source chain

\* What is left of a CheckResult: it has errors, or is skipped, or neither.
Verdicts == {"ok", "error", "skipped"}

ASSUME DerivedAssumption ==
  /\ Checks # {}
  /\ CheckRuns \subseteq [Checks -> Verdicts] /\ None \notin [Checks -> Verdicts]
  /\ \A p \in Dependents :
       /\ p \in Seq(Job)
       /\ \A m, n \in DOMAIN p : p[m].name = p[n].name => m = n
  /\ Source \notin Chains

VARIABLES
  run,         \* "predecessor" or "dependent"
  stage,       \* "simulate", "check", "report" or "skip"
  source,      \* mainnetResults
  unchecked,   \* calls still to be checked: pairs <<position in results, step>>
  dest,        \* destinationChecks, per chain
  seen         \* history: what each run of the checks found, and where

vars == <<engine, run, stage, source, unchecked, dest, seen>>

DerivedInit ==
  /\ Init
  /\ run = "predecessor"
  /\ stage = "simulate"
  /\ source = None
  /\ unchecked = {}
  /\ dest = [c \in Chains |-> None]
  /\ seen = {}
-----------------------------------------------------------------------------
(* The checks of one run.                                                  *)

\* handleCrossChainSimulations, as CrossChain has it.
Simulate ==
  /\ stage = "simulate"
  /\ Next
  /\ UNCHANGED <<run, stage, source, unchecked, dest, seen>>

\* The calls the destination checks look at: of jobs that succeeded.
CallsToCheck ==
  UNION {{<<n, m>> : m \in DOMAIN results[n].steps} :
           n \in {k \in DOMAIN results :
                   Succeeded(k) /\ proposal[results[k].job].chain \in Supported}}

\* They are checked job by job, and a job's calls in their order.
NextCall ==
  CHOOSE x \in unchecked :
    \A y \in unchecked : x[1] < y[1] \/ (x[1] = y[1] /\ x[2] <= y[2])

ChainOf(n) == proposal[results[n].job].chain

\* processSimulation: the source chain's checks run first, whatever became of
\* the simulation.
CheckSource ==
  /\ stage = "simulate"
  /\ pc \in {"done", "failed"}
  /\ \E found \in CheckRuns :
       /\ source' = found
       /\ seen' = {[chain |-> Source, call |-> <<0, 0>>, found |-> found]}
  /\ unchecked' = CallsToCheck
  /\ stage' = IF CallsToCheck = {} THEN "report" ELSE "check"
  /\ UNCHANGED <<engine, run, dest>>

\* Mutant of Merge: the results of a later call replace those of earlier ones.
MergeReplacing(current, next) == next

\* mergeAllCheckResults: errors add up; skipped only if skipped both times.
Merge(current, next) ==
  [k \in Checks |->
     CASE "error" \in {current[k], next[k]} -> "error"
       [] current[k] = "skipped" /\ next[k] = "skipped" -> "skipped"
       [] OTHER -> "ok"]

Rest(calls) ==
  /\ unchecked' = calls
  /\ stage' = IF calls = {} THEN "report" ELSE "check"

CheckCall ==
  LET c == ChainOf(NextCall[1]) IN
  /\ stage = "check"
  /\ \E found \in CheckRuns :
       /\ dest' = [dest EXCEPT ![c] =
                     IF @ = None THEN found ELSE Merge(@, found)]
       /\ seen' = seen \cup {[chain |-> c, call |-> NextCall, found |-> found]}
  /\ Rest(unchecked \ {NextCall})
  /\ UNCHANGED <<engine, run, source>>

\* An exception on the way is caught: the job's other calls go unchecked, and
\* what was merged before stays.
CheckThrows ==
  /\ stage = "check"
  /\ Rest({call \in unchecked : call[1] # NextCall[1]})
  /\ UNCHANGED <<engine, run, source, dest, seen>>
-----------------------------------------------------------------------------
(* The coverage of a report.                                               *)

\* buildCoverageFromResults.  That a check counts as skipped because of what its
\* info says (inferSkipFromInfo) is left out.
Status(verdict) == CASE verdict = "ok" -> "ran"
                     [] verdict = "error" -> "failed"
                     [] verdict = "skipped" -> "skipped"

Rows(c, checks) == {[chain |-> c, status |-> Status(checks[k])] : k \in Checks}

StatusesOn(c) == {results[n].status : n \in {m \in DOMAIN results : ChainOf(m) = c}}

\* The row of a destination chain whose checks did not run.
RowOf(c) ==
  [chain |-> c,
   status |-> CASE "failure" \in StatusesOn(c) -> "failed"
                [] "failure" \notin StatusesOn(c) /\ c \notin Supported -> "skipped"
                [] "failure" \notin StatusesOn(c) /\ c \in Supported ->
                     IF "skipped" \in StatusesOn(c) THEN "skipped" ELSE "failed"]

Coverage ==
  Rows(Source, source)
    \cup (UNION {Rows(c, dest[c]) : c \in {d \in Chains : dest[d] # None}})
    \cup {RowOf(c) : c \in {d \in Chains : dest[d] = None /\ StatusesOn(d) # {}}}
-----------------------------------------------------------------------------
(* The gate between the runs.                                              *)

HasErrors(checks) == \E k \in Checks : checks[k] = "error"
AllSkipped(checks) == \A k \in Checks : checks[k] = "skipped"

ChecksPass(checks) == ~HasErrors(checks) /\ ~AllSkipped(checks)

\* Mutant of ChainPasses: that a job was skipped is not looked at.
ChainPassesSkipped(c) ==
  dest[c] = None \/ ChecksPass(dest[c])

\* evaluateDependencyOutcome, for one destination chain.
ChainPasses(c) ==
  /\ c \in Supported
  /\ StatusesOn(c) = {"success"}
  /\ dest[c] # None
  /\ ChecksPass(dest[c])

\* evaluateDependencyOutcome: "passed".
GatePasses ==
  /\ pc # "failed"
  /\ ~crossChainFailure
  /\ ChecksPass(source)
  /\ \A c \in {ChainOf(n) : n \in DOMAIN results} : ChainPasses(c)

\* buildDerivedContext passes: the dependent proposal is simulated on the
\* destination states of its predecessor (buildDerivedStateByChain), with a
\* block lookup and a runtime store of its own.
Derive ==
  /\ run = "predecessor" /\ stage = "report"
  /\ GatePasses
  /\ \E p \in Dependents : Restart(p)
  /\ run' = "dependent"
  /\ stage' = "simulate"
  /\ source' = None
  /\ dest' = [c \in Chains |-> None]
  /\ seen' = {}
  /\ UNCHANGED unchecked

\* [DERIVED_SKIP]: the dependent proposal is not simulated.
SkipDerived ==
  /\ run = "predecessor" /\ stage = "report"
  /\ ~GatePasses
  /\ stage' = "skip"
  /\ UNCHANGED <<engine, run, source, unchecked, dest, seen>>

DerivedNext ==
  \/ Simulate \/ CheckSource \/ CheckCall \/ CheckThrows
  \/ Derive \/ SkipDerived

DerivedSpec == DerivedInit /\ [][DerivedNext]_vars
-----------------------------------------------------------------------------
(***************************************************************************)
(* The gate is fail-closed: a dependent proposal is simulated only after a *)
(* predecessor whose source simulation succeeded, on none of whose calls a *)
(* check found an error - however the results were merged - and on each of *)
(* whose chains some check ran.                                            *)
(***************************************************************************)
GateIsFailClosed ==
  [][run' # run =>
       /\ pc # "failed"
       /\ \A x \in seen : ~HasErrors(x.found)
       /\ \A c \in {Source} \cup {proposal[n].chain : n \in DOMAIN proposal} :
            \E x \in seen : x.chain = c /\ ~AllSkipped(x.found)]_vars

(***************************************************************************)
(* A dependent proposal starts from exactly the whole predecessor: on every*)
(* chain all effects of all its messages in order, and no simulation stub. *)
(***************************************************************************)
SentAs(p, c, n) == IF p[n].chain = c THEN EffectsOf(p[n]) ELSE <<>>

SentBy(p, c) ==
  LET upTo[n \in 0..Len(p)] ==
        IF n = 0 THEN <<>> ELSE upTo[n - 1] \o SentAs(p, c, n)
  IN  upTo

Sent(c) == SentBy(proposal, c)[Len(proposal)]

DependentBuildsOnPredecessor ==
  [][run' # run =>
       \A c \in Chains : base'[c].effects = Sent(c) /\ ~base'[c].stub]_vars

(***************************************************************************)
(* docs/API.md: coverage is about whether each check executed, and a report*)
(* with skipped rows is incomplete.  So in a complete report each check ran*)
(* on each call that was simulated.                                        *)
(***************************************************************************)
CompleteMeansChecked ==
  stage = "report" /\ pc = "done" /\ (\A row \in Coverage : row.status # "skipped") =>
    \A x \in seen : \A k \in Checks : x.found[k] # "skipped"
-----------------------------------------------------------------------------
(* Why the gate holds.                                                     *)

DerivedTypes ==
  /\ run \in {"predecessor", "dependent"}
  /\ stage \in {"simulate", "check", "report", "skip"}
  /\ source \in CheckRuns \cup {None}
  /\ unchecked \subseteq Nat \X Nat
  /\ dest \in [Chains -> [Checks -> Verdicts] \cup {None}]
  /\ \A x \in seen : x.found \in [Checks -> Verdicts]

\* Nothing is checked before a run is simulated, and only calls with a result.
InStages ==
  /\ stage # "simulate" => pc \in {"done", "failed"}
  /\ stage = "check" <=> unchecked # {}
  /\ stage = "simulate" => seen = {} /\ \A c \in Chains : dest[c] = None
  /\ \A call \in unchecked : call[1] \in DOMAIN results

\* No error that was found is merged away, ...
SeenIsMerged ==
  \A x \in seen :
    \/ x.chain = Source /\ x.found = source
    \/ /\ \E n \in DOMAIN results : ChainOf(n) = x.chain
       /\ dest[x.chain] # None
       /\ HasErrors(x.found) => HasErrors(dest[x.chain])

\* ... and nothing counts as checked that every run of the checks skipped.
MergedIsSeen ==
  /\ stage # "simulate" => \E x \in seen : x.chain = Source /\ x.found = source
  /\ \A c \in Chains :
       dest[c] # None /\ ~AllSkipped(dest[c]) =>
         \E x \in seen : x.chain = c /\ ~AllSkipped(x.found)

\* While all jobs succeed, each chain has what was sent to it, in order.
GrowsAsSent ==
  /\ run = "predecessor" => \A c \in Chains : base[c] = Fresh
  /\ (\A n \in DOMAIN results : Succeeded(n)) =>
       \A c \in Chains :
         committed[c].effects =
           base[c].effects \o SentBy(proposal, c)[Len(results)]

DerivedInv ==
  /\ EngineInv /\ DerivedTypes /\ InStages /\ SeenIsMerged /\ MergedIsSeen
  /\ GrowsAsSent
=============================================================================
