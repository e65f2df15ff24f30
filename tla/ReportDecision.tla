--------------------------- MODULE ReportDecision ---------------------------
(***************************************************************************)
(* From a finished simulation to what a reader decides by: the checks of   *)
(* the source and of each step on a destination chain, their merge, the    *)
(* coverage, the structured report with its status, trust and cross-chain  *)
(* preview, the files, the four gates of docs/API.md and the report page   *)
(* (index.ts, run-checks.ts, utils/check-results.ts,                       *)
(* presentation/report.ts, frontend).  What index.ts does for a batch, the *)
(* main of run-checks.ts does for one proposal.                            *)
(***************************************************************************)
EXTENDS Integers, Sequences, FiniteSets

CONSTANTS
  Source,        \* the chain of the governor
  Examined,      \* destination chains with supportsL2Checks
  JobLists,      \* what the execution engine may hand over
  CheckIds,
  Outcomes       \* what one run of all the checks may give: [CheckIds -> Result]

\* "note" is an information, "hint" one that reads like a skip (SKIP_PATTERNS).
Result == [found: SUBSET {"error", "warning", "note", "hint"}, skipped: BOOLEAN]
Job == [chain: STRING, status: {"success", "failure", "skipped"}, steps: Nat]

ASSUME ReportAssumption ==
  /\ Source \notin Examined
  /\ \A list \in JobLists : list \in Seq(Job) /\ \A n \in DOMAIN list :
       list[n].chain # Source /\ (list[n].status = "skipped" => list[n].chain \notin Examined)
  /\ \A run \in Outcomes : run \in [CheckIds -> Result]

NoRun == [k \in {} |-> 0]     \* a chain for which there are no checks
LostPreview == <<[status |-> "lost"]>>     \* a preview that could not be built
NoReport == [status |-> "none"]

VARIABLES
  jobs,          \* destinationJobResults
  reporting,     \* where processSimulation is
  job, call,     \* the step whose checks come next
  sourceChecks,  \* mainnetResults
  destChecks,    \* destinationChecks, per chain
  examined,      \* history: the steps that were checked, and what was found
  thrown,        \* history: chains on which an examination threw
  report,        \* the structured report
  files          \* what is saved, by format

decisionVars == <<jobs, reporting, job, call, sourceChecks, destChecks, examined,
                  thrown, report, files>>

Chains == {jobs[n].chain : n \in DOMAIN jobs}
NothingSaved == [f \in {"html", "md", "json", "pdf", "coverage", "results"} |-> NoReport]
-----------------------------------------------------------------------------
(* Results of checks.                                                      *)

\* mergeCheckResult: findings are united, a skip stays only if both skipped.
Merged(a, b) == [found |-> a.found \cup b.found, skipped |-> a.skipped /\ b.skipped]

\* mergeAllCheckResults
MergedAll(a, b) ==
  [k \in DOMAIN a \cup DOMAIN b |->
     IF k \notin DOMAIN a THEN b[k] ELSE IF k \notin DOMAIN b THEN a[k] ELSE Merged(a[k], b[k])]

\* getStatusForChecks: skips do not count.
CheckStatus(groups) ==
  LET found == UNION {UNION {g[k].found : k \in DOMAIN g} : g \in groups}
  IN  IF "error" \in found THEN "error" ELSE IF "warning" \in found THEN "warning" ELSE "success"

\* formatChecksForStructuredReport, and toCheckSummary of the Markdown report.
Shown(r) ==
  IF r.skipped THEN "skipped"
  ELSE IF "error" \in r.found THEN "failed"
  ELSE IF "warning" \in r.found THEN "warning" ELSE "passed"

\* inferSkipFromInfo: there are informations, and all read like a skip.
SkipInferred(r) == "hint" \in r.found /\ "note" \notin r.found

\* buildCoverageFromResults
CoverageRow(k, c, r) ==
  LET inferred == ~r.skipped /\ "error" \notin r.found /\ SkipInferred(r)
  IN  [check |-> k, chain |-> c, inferred |-> inferred,
       status |-> IF r.skipped \/ inferred THEN "skipped"
                  ELSE IF "error" \in r.found THEN "failed" ELSE "ran"]

Covered == {c \in Chains : destChecks[c] # NoRun}
JobStatuses(c) == {jobs[n].status : n \in {m \in DOMAIN jobs : jobs[m].chain = c}}

\* The status of a chain without checks (processSimulation).
DestinationStatus(c) ==
  CASE "failure" \in JobStatuses(c) -> "failed"
    [] "failure" \notin JobStatuses(c) /\ (c \notin Examined \/ "skipped" \in JobStatuses(c)) -> "skipped"
    [] OTHER -> "failed"

\* Every chain that has a job gets a row, also one without checks.
Coverage ==
  {CoverageRow(k, Source, sourceChecks[k]) : k \in DOMAIN sourceChecks} \cup
  (UNION {{CoverageRow(k, c, destChecks[c][k]) : k \in DOMAIN destChecks[c]} : c \in Covered}) \cup
  {[check |-> "crossChainDestination", chain |-> c, inferred |-> FALSE,
    status |-> DestinationStatus(c)] : c \in Chains \ Covered}
-----------------------------------------------------------------------------
(* The report.                                                             *)

\* buildReportTrustMetadata for a report without a dependency.
TrustMetadata(status, reports) ==
  IF status = "error" \/ \E c \in DOMAIN reports : CheckStatus({reports[c]}) = "error" THEN "blocked"
  ELSE IF status = "warning" \/ \E k \in DOMAIN reports[Source] : reports[Source][k].skipped
    THEN "warning" ELSE "ready"

\* buildCrossChainPreview: each job as it ended, unless building it throws.
Preview(lost) == IF lost THEN LostPreview ELSE jobs

ChainReports == [c \in {Source} \cup Covered |-> IF c = Source THEN sourceChecks ELSE destChecks[c]]

\* generateStructuredReport and what generateAndSaveReports adds to it.
StructuredReport(lost) ==
  LET status == CheckStatus({sourceChecks} \cup {destChecks[c] : c \in Covered})
  IN  [status |-> status, reports |-> ChainReports, trust |-> TrustMetadata(status, ChainReports),
       rows |-> Coverage, jobs |-> Preview(lost)]

\* formatCrossChainResults: a chain's line in the Markdown report.
ExecutionStatus(c) ==
  IF "failure" \in JobStatuses(c) THEN "failed"
  ELSE IF "skipped" \in JobStatuses(c) THEN "partial" ELSE "succeeded"

\* formatExecutiveSummary: the result line counts the findings of all groups.
MarkdownResult ==
  LET groups == {sourceChecks} \cup {destChecks[c] : c \in Covered}
      with(finding) == \E g \in groups : \E k \in DOMAIN g : finding \in g[k].found
  IN  IF with("error") THEN "error" ELSE IF with("warning") THEN "warning" ELSE "success"

\* toMarkdownProposalReport, with toCheckSummary for every check.
Markdown ==
  [result |-> MarkdownResult,
   shown |-> [c \in DOMAIN ChainReports |->
                [k \in DOMAIN ChainReports[c] |-> Shown(ChainReports[c][k])]],
   execution |-> [c \in Chains |-> ExecutionStatus(c)]]
-----------------------------------------------------------------------------
(* processSimulation.                                                      *)

DecisionInit ==
  /\ jobs \in JobLists
  /\ reporting = "source" /\ job = 1 /\ call = 1
  /\ sourceChecks = NoRun
  /\ destChecks = [c \in Chains |-> NoRun]
  /\ examined = {} /\ thrown = {}
  /\ report = NoReport /\ files = NothingSaved

\* The checks of the source simulation, which may throw.
CheckSource ==
  /\ reporting = "source"
  /\ \/ /\ \E run \in Outcomes : sourceChecks' = run
        /\ reporting' = "blocks"
     \/ reporting' = "failed" /\ UNCHANGED sourceChecks
  /\ UNCHANGED <<jobs, job, call, destChecks, examined, thrown, report, files>>

\* fetchBlockData
FetchBlocks ==
  /\ reporting = "blocks"
  /\ reporting' \in {"destinations", "failed"}
  /\ UNCHANGED <<jobs, job, call, sourceChecks, destChecks, examined, thrown, report, files>>

\* A job that did not succeed, or whose chain has no checks, is passed over;
\* so is one that has no step left.
NextJob ==
  /\ reporting = "destinations" /\ job \in DOMAIN jobs
  /\ \/ jobs[job].status # "success"
     \/ jobs[job].chain \notin Examined
     \/ call > jobs[job].steps
  /\ job' = job + 1 /\ call' = 1
  /\ UNCHANGED <<jobs, reporting, sourceChecks, destChecks, examined, thrown, report, files>>

\* runChecksForChain on the next step of a job, merged with earlier ones' results.
CheckStep ==
  /\ reporting = "destinations" /\ job \in DOMAIN jobs
  /\ jobs[job].status = "success" /\ jobs[job].chain \in Examined /\ call <= jobs[job].steps
  /\ \E run \in Outcomes :
       /\ destChecks' = [destChecks EXCEPT ![jobs[job].chain] = MergedAll(@, run)]
       /\ examined' = examined \cup {[job |-> job, call |-> call, run |-> run]}
  /\ call' = call + 1
  /\ UNCHANGED <<jobs, reporting, job, sourceChecks, thrown, report, files>>

\* Mutant of CheckThrows: what the chain's earlier steps gave is dropped too.
CheckThrowsClearing ==
  /\ reporting = "destinations" /\ job \in DOMAIN jobs
  /\ jobs[job].status = "success" /\ jobs[job].chain \in Examined /\ call <= jobs[job].steps
  /\ thrown' = thrown \cup {jobs[job].chain}
  /\ destChecks' = [destChecks EXCEPT ![jobs[job].chain] = NoRun]
  /\ job' = job + 1 /\ call' = 1
  /\ UNCHANGED <<jobs, reporting, sourceChecks, examined, report, files>>

\* The examination of a step throws: the rest of its job is not examined.
CheckThrows ==
  /\ reporting = "destinations" /\ job \in DOMAIN jobs
  /\ jobs[job].status = "success" /\ jobs[job].chain \in Examined /\ call <= jobs[job].steps
  /\ thrown' = thrown \cup {jobs[job].chain}
  /\ job' = job + 1 /\ call' = 1
  /\ UNCHANGED <<jobs, reporting, sourceChecks, destChecks, examined, report, files>>

\* The texts are made; a preview that throws is left out, anything else ends it.
BuildReport ==
  /\ reporting = "destinations" /\ job \notin DOMAIN jobs
  /\ \/ /\ \E lost \in BOOLEAN : (lost => jobs # <<>>) /\ report' = StructuredReport(lost)
        /\ reporting' = "write"
     \/ reporting' = "failed" /\ UNCHANGED report
  /\ UNCHANGED <<jobs, job, call, sourceChecks, destChecks, examined, thrown, files>>

\* The four formats are written side by side: one that fails ends the run,
\* whatever became of the others.
WriteFormats ==
  /\ reporting = "write"
  /\ \E done \in {{}, {"md", "html"}, {"md", "html", "json"}, {"md", "html", "json", "pdf"}} :
       /\ files' = [f \in DOMAIN files |->
                      IF f \notin done THEN files[f] ELSE IF f = "json" THEN report ELSE Markdown]
       /\ reporting' = IF Cardinality(done) = 4 THEN "coverage" ELSE "failed"
  /\ UNCHANGED <<jobs, job, call, sourceChecks, destChecks, examined, thrown, report>>

\* writeCoverageJson
WriteCoverage ==
  /\ reporting = "coverage"
  /\ \/ /\ files' = [files EXCEPT !["coverage"] = report.rows] /\ reporting' = "results"
     \/ reporting' = "failed" /\ UNCHANGED files
  /\ UNCHANGED <<jobs, job, call, sourceChecks, destChecks, examined, thrown, report>>

\* writeSimulationResultsJson: a write that fails is only logged.
WriteResults ==
  /\ reporting = "results"
  /\ \/ files' = [files EXCEPT !["results"] = report]
     \/ UNCHANGED files
  /\ reporting' = "done"
  /\ UNCHANGED <<jobs, job, call, sourceChecks, destChecks, examined, thrown, report>>

DecisionNext ==
  \/ CheckSource \/ FetchBlocks \/ NextJob \/ CheckStep \/ CheckThrows \/ BuildReport
  \/ WriteFormats \/ WriteCoverage \/ WriteResults

DecisionSpec == DecisionInit /\ [][DecisionNext]_decisionVars
-----------------------------------------------------------------------------
(* The readers.                                                            *)

\* Gates 3 and 4 of the consumer rule in docs/API.md.
Decision(r) ==
  IF \/ \E row \in r.rows : row.status = "skipped"
     \/ r.jobs # LostPreview /\ \E n \in DOMAIN r.jobs : r.jobs[n].status = "failure"
    THEN "incomplete"
    ELSE CASE r.status = "success" -> "PASS" [] r.status = "warning" -> "WARN"
           [] OTHER -> "FAIL"

\* StructuredReport.tsx: chains without a report, from the coverage.
NoCheckChains(r) ==
  {row.chain : row \in {x \in r.rows : x.check = "crossChainDestination"
                                       /\ x.chain \notin DOMAIN r.reports}}

\* summarizeCrossChainJobs: the jobs a page lists as failed or skipped.
ListedJobs(r) == IF r.jobs = LostPreview THEN {} ELSE {n \in DOMAIN r.jobs : r.jobs[n].status # "success"}

\* DecisionHeader.tsx: the badge of the checks.
AllPassed(r) ==
  \A c \in DOMAIN r.reports, k \in CheckIds : Shown(r.reports[c][k]) = "passed"

CleanRun(run) == \A k \in CheckIds : run[k].found \cap {"error", "warning"} = {}

Clean == CleanRun(sourceChecks) /\ \A e \in examined : CleanRun(e.run)

\* Job n was delivered and all of it examined, unless an examination threw.
Accounted(n) ==
  LET c == jobs[n].chain IN
  /\ jobs[n].status = "success" /\ c \in Examined
  /\ c \in thrown \/ \A s \in 1..jobs[n].steps : \E e \in examined : e.job = n /\ e.call = s

(***************************************************************************)
(* A PASS by the documented gates, from whichever saved file it is read,   *)
(* means that no check found anything on the source or on any step of any  *)
(* chain, however results were merged, and that each job succeeded and was *)
(* examined to its last step; but for chains on which an examination threw,*)
(* and for those with a failed job when the preview could not be built.    *)
(* The page's badge means as much for what was examined; each chain that   *)
(* has a job is on the page, and so is each job that did not succeed, but  *)
(* for a lost preview; and the Markdown has the report's status            *)
(* (processSimulation, generateAndSaveReports).                            *)
(***************************************************************************)
PassHidesNothing ==
  \A f \in {"json", "results"} :
    LET r == files[f] IN
    r # NoReport =>
      /\ Decision(r) = "PASS" =>
           /\ Clean
           /\ \A n \in DOMAIN jobs :
                \/ Accounted(n)
                \/ r.jobs = LostPreview /\ "failure" \in JobStatuses(jobs[n].chain)
      /\ AllPassed(r) => Clean
      /\ Chains \subseteq DOMAIN r.reports \cup NoCheckChains(r)
      /\ \A n \in DOMAIN jobs :
           \/ jobs[n].status = "success" \/ n \in ListedJobs(r)
           \/ jobs[n].chain \in NoCheckChains(r) \/ r.jobs = LostPreview
      /\ files["md"].result = r.status
=============================================================================
