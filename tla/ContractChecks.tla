---------------------------- MODULE ContractChecks ----------------------------
(***************************************************************************)
(* The checks that look at the code a proposal touches: is a SELFDESTRUCT  *)
(* in it (checks/check-targets-no-selfdestruct.ts), who implements a proxy *)
(* (check-proxy-resolution.ts), what do events mean (check-logs.ts), what  *)
(* do the compiler and Slither say (check-solc.ts, check-slither.ts,       *)
(* utils/security-tool.ts).  Each goes through its contracts one by one and*)
(* awaits something at each; a check that has run out of its time goes on  *)
(* beside the next one, so solc and Slither run side by side.              *)
(***************************************************************************)
EXTENDS Integers, SequencesExt

CONSTANTS
  Codings,      \* what may be deployed: contracts -> sequences of opcodes and data
  Simulations,  \* [l1, targets, to, frames, touched, bridges, proxies, logs,
                \* implementation]: the last is the governor's, "none" if it is no proxy
  Together,     \* sets of checks that run side by side
  Behind,       \* proxies -> [beacon, implementation]; "zero" for none
  Published,    \* contracts -> "sourcify", "explorer" or "nowhere"
  Version,      \* contracts -> their compiler
  AbiOf,        \* contracts -> events their own ABI has
  Placeholder   \* DEFAULT_SIMULATION_ADDRESS

Own == {"governor", "timelock"}

\* What is deployed is known of every other contract that a simulation names,
\* and what has compiled it.
ASSUME ContractAssumption ==
  /\ \A coding \in Codings : /\ DOMAIN coding \subseteq DOMAIN Version
                            /\ \A c \in DOMAIN coding : coding[c] \in Seq(STRING)
  /\ \A s \in Simulations, coding \in Codings :
       /\ s.targets \in Seq(Own \cup DOMAIN coding) /\ s.touched \in Seq(Own \cup DOMAIN coding)
       /\ s.to \in Own \cup DOMAIN coding
       /\ s.frames \in Seq([to : Own \cup DOMAIN coding, data : BOOLEAN])
  /\ \A s \in Simulations : s.logs \in Seq([from : STRING, name : STRING, event : STRING, inputs : BOOLEAN])

VARIABLES
  simulation,   \* the TenderlySimulation and the proposal's targets
  code,         \* of every contract but governor and timelock, at the latest block
  nonces,       \* accounts that have sent a transaction
  allowed,      \* shouldAllowUnverified
  managed,      \* usesManagedAccess, and no key for the explorer
  archive,      \* tools that are told the governor's implementation when they ask
  progress,     \* each check: where it is, what is left, what it has said
  compilers,    \* compilerInstalls, and who installs
  directories,  \* temporary directories of the tools
  analysed      \* history: <<tool, contract>> pairs the tool has worked on

contractVars == <<simulation, code, nonces, allowed, managed, archive, progress, compilers,
                  directories, analysed>>

Tools == {"solc", "slither"}
Scanners == {"targets", "touched"}
ContractChecks == Tools \cup Scanners \cup {"proxies", "logs"}
Note(about, what, level) == [about |-> about, what |-> what, level |-> level]
Waiting == [at |-> "begin", left |-> <<>>, said |-> <<>>]

ContractInit ==
  /\ simulation \in Simulations
  /\ code \in Codings
  /\ nonces \in {{}, ToSet(simulation.touched)}
  /\ allowed \in BOOLEAN
  /\ managed \in BOOLEAN
  /\ archive \in SUBSET Tools
  /\ \E set \in Together :
       progress = [c \in ContractChecks |->
                     IF c \in set THEN Waiting ELSE [Waiting EXCEPT !.at = "not run"]]
  /\ compilers = [v \in {Version[c] : c \in DOMAIN Version} |-> "absent"]
  /\ directories = {}
  /\ analysed = {}
-----------------------------------------------------------------------------
(* Where a check begins, goes on and ends.                                 *)

Goes(check, to, rest, notes) ==
  progress' = [progress EXCEPT ![check] =
                 [at |-> to, left |-> rest, said |-> @.said \o notes]]
Current(check) == Head(progress[check].left)
Others(check) == Tail(progress[check].left)
Stands(check, place) == progress[check].at = place /\ progress[check].left # <<>>
Aside == UNCHANGED <<simulation, code, nonces, allowed, managed, archive>>
NoTool == UNCHANGED <<compilers, directories, analysed>>

\* The elements at some places of a list, in its order.
Picked(list, places) ==
  [k \in 1..Cardinality(places) |->
     list[CHOOSE n \in places : Cardinality({m \in places : m < n}) = k - 1]]

Unique(list) == Picked(list, {n \in DOMAIN list : \A m \in 1..(n - 1) : list[m] # list[n]})

\* extractTargetsFromSimulation: whoever is called with data, then tx.to.
CalledWithData ==
  LET called == [i \in DOMAIN simulation.frames |-> simulation.frames[i].to] IN
  Unique(Picked(called, {i \in DOMAIN called : simulation.frames[i].data}) \o <<simulation.to>>)

\* addressesToSkip: the governor's implementation is one if it could be read.
Passed(tool) == Own \cup (IF tool \in archive THEN {simulation.implementation} ELSE {})

\* The contracts each check goes through.
ListOf(check) ==
  CASE check = "targets" -> IF simulation.l1 THEN Unique(simulation.targets) ELSE CalledWithData
    [] check = "touched" -> simulation.touched
    [] check = "proxies" ->
         Unique((IF simulation.l1 THEN simulation.targets ELSE <<simulation.to>>) \o
                Picked(simulation.touched, {i \in DOMAIN simulation.touched :
                                              simulation.touched[i] \in simulation.proxies}))
    [] check = "logs" -> Unique([i \in DOMAIN simulation.logs |-> simulation.logs[i].from])
    [] check \in Tools -> Picked(simulation.touched, {i \in DOMAIN simulation.touched :
                                                        simulation.touched[i] \notin Passed(check)})

\* getImplementation throws: the governor's implementation is analysed too, and
\* a warning says so.
Unread(check) ==
  IF check \in Tools \ archive
    THEN <<Note("governor", "implementation unknown", "warning")>> ELSE <<>>

BeginCheck(check) ==
  /\ progress[check].at = "begin"
  /\ IF check = "slither" /\ ~simulation.l1 THEN Goes(check, "skipped", <<>>, <<>>)
     ELSE Goes(check, IF ListOf(check) = <<>> THEN "skipped" ELSE "next",
               ListOf(check), Unread(check))
  /\ Aside /\ NoTool

\* A request throws: runCheckSafely turns it into an error of the check, and
\* what the check had said is lost.
RequestThrows(check) ==
  /\ Stands(check, "next")
  /\ progress' = [progress EXCEPT ![check] =
       [at |-> "thrown", left |-> <<>>, said |-> <<Note("check", "failed", "error")>>]]
  /\ Aside /\ NoTool
-----------------------------------------------------------------------------
(* checkNoSelfdestruct.                                                    *)

Halting == {"STOP", "SELFDESTRUCT"}
PushLength(op) == CASE op = "PUSH1" -> 1 [] op = "PUSH2" -> 2 [] OTHER -> 0

\* Mutant of Scanned: data of a PUSH are read as opcodes.
ScannedBytewise(bytes) ==
  LET state[i \in 0..Len(bytes)] ==
        IF i = 0 THEN [next |-> 1, halted |-> FALSE, seen |-> {}]
        ELSE [next |-> i + 1,
              halted |-> bytes[i] \in Halting \/ (state[i - 1].halted /\ bytes[i] # "JUMPDEST"),
              seen |-> state[i - 1].seen \cup
                       (IF state[i - 1].halted THEN {} ELSE {bytes[i]})]
  IN  state[Len(bytes)].seen

\* The opcodes the loop meets while it is not halted.  A JUMPDEST ends the halt,
\* what halts begins it, and the data of a PUSH are passed over.
Scanned(bytes) ==
  LET state[i \in 0..Len(bytes)] ==
        IF i = 0 THEN [next |-> 1, halted |-> FALSE, seen |-> {}]
        ELSE IF i < state[i - 1].next THEN state[i - 1]
        ELSE [next |-> i + 1 + PushLength(bytes[i]),
              halted |-> bytes[i] \in Halting \/ (state[i - 1].halted /\ bytes[i] # "JUMPDEST"),
              seen |-> state[i - 1].seen \cup
                       (IF state[i - 1].halted THEN {} ELSE {bytes[i]})]
  IN  state[Len(bytes)].seen

\* An account without code: what getCode answers for it decides whether its
\* nonce is looked at.
Statuses(c) ==
  IF c \in Own THEN {"trusted"}
  ELSE IF code[c] = <<>> THEN {"empty"} \cup (IF c \in nonces THEN {"eoa"} ELSE {})
  ELSE IF "SELFDESTRUCT" \in Scanned(code[c]) THEN {"selfdestruct"}
  ELSE IF "DELEGATECALL" \in Scanned(code[c]) THEN {"delegatecall"}
  ELSE {"safe"}

\* What is said of it; of the placeholder, warnings are set aside.
Level(check, c, status) ==
  CASE status = "selfdestruct" -> "error"
    [] status = "empty" -> IF check = "touched" THEN "info"
                           ELSE IF c = Placeholder THEN "aside" ELSE "warning"
    [] status = "delegatecall" -> IF c \in simulation.bridges THEN "info"
                                  ELSE IF c = Placeholder THEN "aside" ELSE "warning"
    [] OTHER -> "info"

ScanCode(check) ==
  /\ check \in Scanners
  /\ Stands(check, "next")
  /\ \E status \in Statuses(Current(check)) :
       Goes(check, "next", Others(check),
            <<Note(Current(check), status, Level(check, Current(check), status))>>)
  /\ Aside /\ NoTool

\* What was set aside is dropped when it is alone, and else a warning.
Settled(said) ==
  LET alone == \A i \in DOMAIN said : said[i].level # "warning" IN
  [i \in DOMAIN said |->
     IF said[i].level # "aside" THEN said[i]
     ELSE [said[i] EXCEPT !.level = IF alone THEN "dropped" ELSE "warning"]]

\* A check with nothing to tell of proxies counts as skipped.
EndCheck(check) ==
  /\ progress[check].at = "next" /\ progress[check].left = <<>>
  /\ progress' = [progress EXCEPT ![check] =
       [at |-> IF check = "proxies" /\ @.said = <<>> THEN "skipped" ELSE "ended",
        left |-> <<>>, said |-> Settled(@.said)]]
  /\ Aside /\ NoTool
-----------------------------------------------------------------------------
(* checkProxyResolution.                                                   *)

\* detectProxy reads the beacon first; a beacon may not answer.
Implementations(c) ==
  IF Behind[c].beacon # "zero" THEN {Behind[c].implementation, "zero"}
  ELSE {Behind[c].implementation}

\* What is said of a proxy and its implementation.
ResolvedNotes(c, implementation, verified) ==
  IF implementation = "zero" THEN <<Note(c, "unresolved", "warning")>>
  ELSE <<Note(c, implementation, "info")>> \o
       (IF verified THEN <<>> ELSE <<Note(c, "unverified", "warning")>>)

\* Sourcify may fail to answer, and then only the explorer counts.
ResolveProxy ==
  /\ Stands("proxies", "next")
  /\ LET c == Current("proxies") IN
     IF c \notin DOMAIN Behind THEN Goes("proxies", "next", Others("proxies"), <<>>)
     ELSE \E implementation \in Implementations(c) :
          \E verified \in IF implementation = "zero" THEN {FALSE}
                          ELSE IF Published[implementation] = "sourcify" THEN {TRUE, FALSE}
                          ELSE {Published[implementation] = "explorer"} :
            Goes("proxies", "next", Others("proxies"),
                 ResolvedNotes(c, implementation, verified))
  /\ Aside /\ NoTool
-----------------------------------------------------------------------------
(* checkLogs.                                                              *)

Dull(log) ==
  \/ log.from = "governor" /\ log.name = "ProposalExecuted"
  \/ log.from = "timelock" /\ log.name = "ExecuteTransaction" /\ ~log.inputs

\* As the provider has decoded it, by its contract's ABI, by that of the
\* implementation, or raw.
Described(log, abi, implementation) ==
  Note(log, IF log.name # "none" THEN "decoded"
            ELSE IF log.event \in abi \cup implementation THEN "abi" ELSE "raw", "info")

\* What one contract has emitted.
LogsOf(c) ==
  Picked(simulation.logs, {n \in DOMAIN simulation.logs : /\ simulation.logs[n].from = c
                                                          /\ ~Dull(simulation.logs[n])})

\* The events of one contract, in their order.  An ABI may not be had.
DescribeLogs ==
  /\ Stands("logs", "next")
  /\ LET c == Current("logs") IN
         \E abi \in {{}, AbiOf[c]},
            implementation \in {{}} \cup
              (IF c \in DOMAIN Behind THEN {AbiOf[Behind[c].implementation]} ELSE {}) :
           Goes("logs", "next", Others("logs"),
                [i \in DOMAIN LogsOf(c) |-> Described(LogsOf(c)[i], abi, implementation)])
  /\ Aside /\ NoTool
-----------------------------------------------------------------------------
(* checkSolc and checkSlither: runSecurityTool for each contract.          *)

\* runCryticCompile: whatever fails has failed.
SolcVerdict(outcome) == IF outcome = "fine" THEN "report" ELSE "failed"

\* runSlither: Slither complains by failing, in its own words; what ends with a
\* crash, is killed, or fails otherwise has failed.
SlitherVerdict(outcome) == IF outcome \in {"fine", "complaint"} THEN "report" ELSE "failed"

Verdict(tool, outcome) ==
  IF tool = "solc" THEN SolcVerdict(outcome) ELSE SlitherVerdict(outcome)

\* A failure is warned about, and the next contract is taken up.
Concludes(tool, outcome) ==
  LET verdict == Verdict(tool, outcome) IN
  Goes(tool, "next", Others(tool),
       <<Note(Current(tool), verdict, IF verdict = "report" THEN "info" ELSE "warning")>>)

\* checkContractVerification; the explorer may fail to answer.
AtExplorer(c) == {FALSE, Published[c] = "explorer"}

\* Slither is kept from what the explorer does not have, unless the override is
\* set.
Verify ==
  /\ Stands("slither", "next")
  /\ \E atExplorer \in AtExplorer(Current("slither")) :
       IF atExplorer THEN Goes("slither", "source", progress["slither"].left, <<>>)
       ELSE IF allowed
         THEN Goes("slither", "source", progress["slither"].left,
                   <<Note(Current("slither"), "override", "warning")>>)
         ELSE Goes("slither", "next", Others("slither"),
                   <<Note(Current("slither"), "not analysed", "info")>>)
  /\ Aside /\ NoTool

Compile ==
  /\ Stands("solc", "next")
  /\ Goes("solc", "source", progress["solc"].left, <<>>)
  /\ Aside /\ NoTool

\* Started directly with the explorer's key; or fetchContractSource, which has
\* no source or answers with an error.
GetSource(tool) ==
  /\ Stands(tool, "source")
  /\ \/ ~managed /\ Goes(tool, "running", progress[tool].left, <<>>)
     \/ /\ managed /\ Published[Current(tool)] = "explorer"
        /\ Goes(tool, "compiler", progress[tool].left, <<>>)
     \/ managed /\ Concludes(tool, "no source")
  /\ Aside /\ NoTool

\* ensureCompiler: the first to need a version installs it.
StartInstall(tool) ==
  /\ Stands(tool, "compiler")
  /\ LET v == Version[Current(tool)] IN
     /\ compilers[v] = "absent"
     /\ compilers' = [compilers EXCEPT ![v] = "installing"]
  /\ UNCHANGED <<progress, directories, analysed>>
  /\ Aside

EndInstall(v) ==
  /\ compilers[v] = "installing"
  /\ \E outcome \in {"installed", "complaint", "crash"} :
       compilers' = [compilers EXCEPT ![v] = outcome]
  /\ UNCHANGED <<progress, directories, analysed>>
  /\ Aside

\* The promise is kept, also when it was rejected.
UseCompiler(tool) ==
  /\ Stands(tool, "compiler")
  /\ LET v == Version[Current(tool)] IN
     /\ compilers[v] \notin {"absent", "installing"}
     /\ IF compilers[v] = "installed"
          THEN /\ Goes(tool, "running", progress[tool].left, <<>>)
               /\ directories' = directories \cup {tool}
          ELSE Concludes(tool, compilers[v]) /\ UNCHANGED directories
  /\ UNCHANGED <<compilers, analysed>>
  /\ Aside

\* The tool ends, in one way or another, or the source cannot be written to the
\* directory, which is removed in any case.
ToolEnds(tool) ==
  /\ Stands(tool, "running")
  /\ \/ \E outcome \in {"fine", "complaint", "crash", "killed"} :
          /\ Concludes(tool, outcome)
          /\ analysed' = analysed \cup {<<tool, Current(tool)>>}
     \/ managed /\ Concludes(tool, "unsafe path") /\ UNCHANGED analysed
  /\ directories' = directories \ {tool}
  /\ UNCHANGED compilers
  /\ Aside

ContractNext ==
  \/ \E check \in ContractChecks :
       BeginCheck(check) \/ RequestThrows(check) \/ ScanCode(check) \/ EndCheck(check)
  \/ ResolveProxy \/ DescribeLogs \/ Verify \/ Compile
  \/ \E tool \in Tools :
       GetSource(tool) \/ StartInstall(tool) \/ UseCompiler(tool) \/ ToolEnds(tool)
  \/ \E v \in DOMAIN compilers : EndInstall(v)

ContractSpec == ContractInit /\ [][ContractNext]_contractVars
-----------------------------------------------------------------------------
(* What the machine that runs the code can do with it.                     *)

\* Where its instructions begin.
Instructions(bytes) ==
  LET starts[i \in 0..Len(bytes)] ==
        IF i = 0 THEN {1}
        ELSE IF i \in starts[i - 1] THEN starts[i - 1] \cup {i + 1 + PushLength(bytes[i])}
        ELSE starts[i - 1]
  IN  starts[Len(bytes)] \cap DOMAIN bytes

Continues(bytes, i) ==
  IF bytes[i] \in Halting THEN {}
  ELSE IF bytes[i] = "JUMP" THEN {d \in Instructions(bytes) : bytes[d] = "JUMPDEST"}
  ELSE {i + 1 + PushLength(bytes[i])} \cap DOMAIN bytes

\* The instructions that can be executed.
Executable(bytes) ==
  LET after[n \in 0..Len(bytes)] ==
        IF n = 0 THEN {1} \cap DOMAIN bytes
        ELSE after[n - 1] \cup UNION {Continues(bytes, i) : i \in after[n - 1]}
  IN  {bytes[i] : i \in after[Len(bytes)]}

Ended(check) == progress[check].at = "ended"
Said(check) == ToSet(progress[check].said)
Conclusions(tool) ==
  Picked(progress[tool].said, {n \in DOMAIN progress[tool].said :
                                 progress[tool].said[n].what \in {"report", "failed", "not analysed"}})
\* What the check of events has told of a contract's.
ToldOf(c) ==
  Picked(progress["logs"].said, {n \in DOMAIN progress["logs"].said :
                                   progress["logs"].said[n].about.from = c})

(***************************************************************************)
(* A check that ends has told of every contract in its turn, whatever      *)
(* failed on the way.  Code that can execute a SELFDESTRUCT is an error,   *)
(* code that can only delegate is at least a warning unless it is a known  *)
(* bridge's or the simulation's placeholder sender (whose warning is       *)
(* dropped when it is the only one), and no data byte is taken for an      *)
(* instruction.  A tool passes over governor and timelock, and over the    *)
(* governor's implementation only if it could be read.  A proxy's          *)
(* implementation that is unpublished is warned about.  Every event is     *)
(* told once, in order.  A tool's report is told only of what it worked on *)
(* (or Slither's compiler could not be installed, which looks alike), solc *)
(* never reports without a compilation, and a tool at rest leaves no files.*)
(***************************************************************************)
CodeIsTold ==
  /\ \A check \in Scanners : Ended(check) =>
       /\ [i \in DOMAIN progress[check].said |-> progress[check].said[i].about] = ListOf(check)
       /\ \A note \in Said(check) : note.about \notin Own =>
            LET bytes == code[note.about] IN
            /\ "SELFDESTRUCT" \in Executable(bytes) => note.level = "error"
            /\ note.level = "error" =>
                 \E i \in Instructions(bytes) : bytes[i] = "SELFDESTRUCT"
            /\ "DELEGATECALL" \in Executable(bytes) =>
                 \/ note.level \in {"warning", "error"}
                 \/ note.about \in simulation.bridges \cup {Placeholder}
  /\ Ended("proxies") =>
       \A c \in ToSet(ListOf("proxies")) \cap DOMAIN Behind :
         Published[Behind[c].implementation] = "nowhere" =>
           \E note \in Said("proxies") : note.about = c /\ note.level = "warning"
  /\ Ended("logs") =>
       \A c \in ToSet(ListOf("logs")) :
         [i \in DOMAIN ToldOf(c) |-> ToldOf(c)[i].about] = LogsOf(c)
  /\ \A tool \in Tools :
       /\ Ended(tool) =>
            [i \in DOMAIN Conclusions(tool) |-> Conclusions(tool)[i].about] = ListOf(tool)
       /\ \A note \in Said(tool) : note.what = "report" =>
            \/ <<tool, note.about>> \in analysed
            \/ tool = "slither" /\ managed /\ compilers[Version[note.about]] = "complaint"
       /\ progress[tool].at # "running" => tool \notin directories
=============================================================================
