----------------------------- MODULE ProposalBatch -----------------------------
(***************************************************************************)
(* The Governance Checks workflow: `main' (index.ts) over all proposals of *)
(* a governor, with the cache of utils/cache/proposalCache.ts.  A job is   *)
(* given the saved `cache' and `reports' directories, runs `main' up to    *)
(* five times until one attempt ends well, and then signs the reports.     *)
(* An attempt reads the proposals' states, sorts out those whose cached    *)
(* simulation will do, and simulates, reports and caches the others one    *)
(* after the other.  It may be killed anywhere, also within a write.       *)
(***************************************************************************)
EXTENDS Integers

CONSTANTS
  Count,         \* proposals are numbered 1..Count
  Moves,         \* the moves a governor makes: pairs of states
  MaxAge,        \* age up to which an entry is fresh: 4 hours in the code
  MaxAttempts,   \* max_attempts of the workflow: 5
  MaxTime,       \* bound: the clock stops there
  MaxFaults,     \* bound: attempts that are killed, writes that fail
  MaxPushes,     \* bound: changes of the code
  None, Torn     \* no file; a file that was cut off

Proposals == 1..Count
States == {m[1] : m \in Moves} \cup {m[2] : m \in Moves}
Final == {s \in States : \A m \in Moves : m[1] # s}

\* What the files hold: a whole entry and a whole report.
Entry == [state: States, at: 0..MaxTime]
Report == [state: States, saw: States]

terminalStates == {"Executed", "Cancelled", "Expired"}

\* Moves never lead back, and lead from "none" to the created proposals; the
\* states that the cache takes for terminal are left no more, if the governor
\* has them at all.
ASSUME BatchAssumption ==
  /\ {Count, MaxAttempts} \subseteq Nat \ {0}
  /\ {MaxAge, MaxTime, MaxFaults, MaxPushes} \subseteq Nat
  /\ \E rank \in [States -> 0..7] : \A m \in Moves : rank[m[1]] < rank[m[2]]
  /\ "none" \in States
  /\ terminalStates \cap States \subseteq Final
  /\ {None, Torn} \cap (Entry \cup Report) = {}

VARIABLES
  now,
  chain,      \* per proposal: its state at the governor
  entry,      \* per proposal: its file in cache/rpc-v11
  report,     \* per proposal: its file in reports
  saved,      \* the directories as actions/cache saved them last, or None
  hit,        \* they were saved under the key of the present code
  pc,         \* "idle", "read", "next", "report", "reporting", "cache", "failed"
  attempt,
  todo,       \* proposals still to read, then still to simulate
  seen,       \* per proposal: the state this attempt has read
  sim,        \* the state its simulation met
  published,  \* the signed bundle of the last job that succeeded
  faults, pushes

disk == <<entry, report>>
store == <<saved, hit, pushes>>
vars == <<now, chain, disk, store, pc, attempt, todo, seen, sim, published, faults>>
-----------------------------------------------------------------------------
NoFiles == [p \in Proposals |-> None]

Whole(file) == file \notin {None, Torn}

Init ==
  /\ now = 0
  /\ chain = [p \in Proposals |-> "none"]
  /\ entry = NoFiles /\ report = NoFiles
  /\ saved = None /\ hit = FALSE
  /\ pc = "idle"
  /\ attempt = 0
  /\ todo = {}
  /\ seen = [p \in Proposals |-> "none"]
  /\ sim = "none"
  /\ published = NoFiles
  /\ faults = 0 /\ pushes = 0
-----------------------------------------------------------------------------
(* The world around a job.                                                 *)

\* Proposals are created one after the other and go their way.
Govern(p) ==
  /\ \E m \in Moves : chain[p] = m[1] /\ chain' = [chain EXCEPT ![p] = m[2]]
  /\ p > 1 => chain[p - 1] # "none"
  /\ UNCHANGED <<now, disk, store, pc, attempt, todo, seen, sim, published, faults>>

Tick ==
  /\ now < MaxTime
  /\ now' = now + 1
  /\ UNCHANGED <<chain, disk, store, pc, attempt, todo, seen, sim, published, faults>>

\* New code has a new cache key.
Push ==
  /\ pushes < MaxPushes
  /\ pushes' = pushes + 1
  /\ hit' = FALSE
  /\ UNCHANGED <<now, chain, disk, saved, pc, attempt, todo, seen, sim, published, faults>>
-----------------------------------------------------------------------------
(* An attempt begins: read the states of the proposals there are.          *)

Listed == {p \in Proposals : chain[p] # "none"}

\* Proposals are read, and then simulated, in the order of their creation.
simProposal == CHOOSE p \in todo : \A q \in todo : p <= q

Begin ==
  /\ pc' = "read"
  /\ todo' = Listed
  /\ seen' = [p \in Proposals |-> "none"]
  /\ sim' = "none"

\* The job restores what was saved last: under its own key, or an older one.
StartJob ==
  /\ pc = "idle"
  /\ Begin
  /\ attempt' = 1
  /\ entry' = IF saved = None THEN NoFiles ELSE saved.entry
  /\ report' = IF saved = None THEN NoFiles ELSE saved.report
  /\ UNCHANGED <<now, chain, store, published, faults>>

\* Another attempt, on the files that the one before left.
Retry ==
  /\ pc = "failed"
  /\ attempt < MaxAttempts
  /\ Begin
  /\ attempt' = attempt + 1
  /\ UNCHANGED <<now, chain, disk, store, published, faults>>

ReadState ==
  /\ pc = "read" /\ todo # {}
  /\ seen' = [seen EXCEPT ![simProposal] = chain[simProposal]]
  /\ todo' = todo \ {simProposal}
  /\ UNCHANGED <<now, chain, disk, store, pc, attempt, sim, published, faults>>
-----------------------------------------------------------------------------
(* needsSimulation.                                                        *)

\* Mutant of needsSimulation: an entry that does not parse will do.
needsSimulationIfParsed(p) ==
  \/ entry[p] = None
  \/ /\ Whole(entry[p])
     /\ entry[p].state \notin terminalStates
     /\ entry[p].state # seen[p] \/ now - entry[p].at > MaxAge

\* Mutant of needsSimulation: the cached state is not compared.
needsSimulationByAge(p) ==
  \/ ~Whole(entry[p])
  \/ entry[p].state \notin terminalStates /\ now - entry[p].at > MaxAge

needsSimulation(p) ==
  \/ ~Whole(entry[p])
  \/ /\ entry[p].state \notin terminalStates
     /\ entry[p].state # seen[p] \/ now - entry[p].at > MaxAge

Decide ==
  /\ pc = "read" /\ todo = {}
  /\ todo' = {p \in Proposals : seen[p] # "none" /\ needsSimulation(p)}
  /\ pc' = "next"
  /\ UNCHANGED <<now, chain, disk, store, attempt, seen, sim, published, faults>>
-----------------------------------------------------------------------------
(* Simulate, check, report and cache the next proposal.                    *)

Simulate ==
  /\ pc = "next" /\ todo # {}
  /\ sim' = chain[simProposal]
  /\ pc' = "report"
  /\ UNCHANGED <<now, chain, disk, store, attempt, todo, seen, published, faults>>

WriteReport ==
  /\ pc = "report"
  /\ report' = [report EXCEPT ![simProposal] = Torn]
  /\ pc' = "reporting"
  /\ UNCHANGED <<now, chain, entry, store, attempt, todo, seen, sim, published, faults>>

ReportWritten ==
  /\ pc = "reporting"
  /\ report' = [report EXCEPT ![simProposal] =
                  [state |-> seen[simProposal], saw |-> sim]]
  /\ pc' = "cache"
  /\ UNCHANGED <<now, chain, entry, store, attempt, todo, seen, sim, published, faults>>

\* Mutant of cacheProposal: the state of the proposal is read again.
cacheProposalAnew ==
  /\ pc = "cache"
  /\ entry' = [entry EXCEPT ![simProposal] =
                 [state |-> chain[simProposal], at |-> now]]
  /\ todo' = todo \ {simProposal}
  /\ sim' = "none"
  /\ pc' = "next"
  /\ UNCHANGED <<now, chain, report, store, attempt, seen, published, faults>>

\* A write that fails is logged, and the batch goes on.
cacheProposal ==
  /\ pc = "cache"
  /\ \/ /\ entry' = [entry EXCEPT ![simProposal] =
                       [state |-> seen[simProposal], at |-> now]]
        /\ UNCHANGED faults
     \/ /\ faults < MaxFaults
        /\ faults' = faults + 1
        /\ entry' \in {entry, [entry EXCEPT ![simProposal] = Torn]}
  /\ todo' = todo \ {simProposal}
  /\ sim' = "none"
  /\ pc' = "next"
  /\ UNCHANGED <<now, chain, report, store, attempt, seen, published>>
-----------------------------------------------------------------------------
(* The end of an attempt, and of a job.                                    *)

\* What the process had in memory.
Forget ==
  /\ todo' = {}
  /\ seen' = [p \in Proposals |-> "none"]
  /\ sim' = "none"

\* An exception ends the process, as does the time limit of an attempt; the
\* entry may be cut off in the middle.
Abort ==
  /\ pc \in {"read", "next", "report", "reporting", "cache"}
  /\ faults < MaxFaults
  /\ faults' = faults + 1
  /\ entry' \in {entry} \cup
       (IF pc = "cache" THEN {[entry EXCEPT ![simProposal] = Torn]} ELSE {})
  /\ pc' = "failed"
  /\ Forget
  /\ UNCHANGED <<now, chain, report, store, attempt, published>>

\* Every job has a machine of its own.
Leave ==
  /\ pc' = "idle"
  /\ attempt' = 0
  /\ entry' = NoFiles /\ report' = NoFiles
  /\ Forget

\* A job that fails leaves nothing behind: the cache is saved on success.
JobFails ==
  /\ pc = "failed"
  /\ attempt = MaxAttempts
  /\ Leave
  /\ UNCHANGED <<now, chain, store, published, faults>>

\* The reports are signed and uploaded; the directories are saved unless the
\* key of the present code has been saved before.
JobSucceeds ==
  /\ pc = "next" /\ todo = {}
  /\ published' = report
  /\ saved' = IF hit THEN saved ELSE [entry |-> entry, report |-> report]
  /\ hit' = TRUE
  /\ Leave
  /\ UNCHANGED <<now, chain, pushes, faults>>

Job ==
  \/ StartJob \/ Retry \/ ReadState \/ Decide
  \/ Simulate \/ WriteReport \/ ReportWritten \/ cacheProposal
  \/ JobFails \/ JobSucceeds

Next ==
  \/ \E p \in Proposals : Govern(p)
  \/ Tick \/ Push \/ Abort \/ Job

Spec == Init /\ [][Next]_vars

\* Jobs are scheduled for ever and run on.
FairSpec == Spec /\ WF_vars(Job)
-----------------------------------------------------------------------------
(***************************************************************************)
(* A proposal that an attempt does not simulate has a report on the disk,  *)
(* whole and made for the state the proposal has now, and the simulation   *)
(* behind it met the proposal in that state: whatever was killed where,    *)
(* restored from when, or moved between being read and being simulated.    *)
(***************************************************************************)
ReusedIsCurrent ==
  [][\A p \in Proposals :
       pc = "read" /\ pc' = "next" /\ seen[p] # "none"
         /\ p \notin todo'
       => report[p] = [state |-> seen[p], saw |-> seen[p]]]_vars

(***************************************************************************)
(* A job that succeeds signs, for every proposal it has listed, a whole    *)
(* report about the state it has read.                                     *)
(***************************************************************************)
PublishedIsComplete ==
  pc = "next" /\ todo = {} =>
    \A p \in Proposals :
      seen[p] # "none" => Whole(report[p]) /\ report[p].state = seen[p]

(***************************************************************************)
(* As long as jobs are not killed for ever, each proposal is reported in   *)
(* the state in which it ends, even if its entry was cut off and saved.    *)
(***************************************************************************)
EveryEndIsReported ==
  \A p \in Proposals, s \in Final :
    chain[p] = s ~> published[p] = [state |-> s, saw |-> s]

(***************************************************************************)
(* utils/cache/proposalCache.ts: a proposal in a terminal state does not   *)
(* need another simulation.                                                *)
(***************************************************************************)
TerminalIsNotRerun ==
  pc = "next" /\ todo # {} =>
    ~(Whole(entry[simProposal]) /\ entry[simProposal].state \in Final)
-----------------------------------------------------------------------------
(* Why the properties hold.                                                *)

\* Proposals only go forward, and end where they end.
Rank ==
  CHOOSE rank \in [States -> 0..7] : \A m \in Moves : rank[m[1]] < rank[m[2]]
Before(s, t) == s = t \/ (Rank[s] < Rank[t] /\ s \notin Final)

File(kind) == [Proposals -> kind \cup {None, Torn}]

BatchTypes ==
  /\ chain \in [Proposals -> States] /\ seen \in [Proposals -> States]
  /\ entry \in File(Entry) /\ report \in File(Report)
  /\ now \in 0..MaxTime
  /\ saved # None => saved \in [entry: File(Entry), report: File(Report)]
  /\ todo \subseteq Proposals
  /\ sim \in States
  /\ pc \in {"idle", "read", "next", "report", "reporting", "cache", "failed"}

\* An entry is not used again for a proposal in state s.
Outdated(e, s) ==
  e.state \notin terminalStates /\ (e.state # s \/ now - e.at > MaxAge)

\* A report belongs to an entry, for a proposal that is in state s.
Belongs(r, e, s) ==
  Whole(r) /\ r.state = e.state /\ Before(e.state, r.saw) /\ Before(r.saw, s)

\* The files of a proposal in state s: the entry is not used again, or has its
\* report next to it.
Usable(e, r, s) ==
  Whole(e) => Before(e.state, s) /\ (Outdated(e, s) \/ Belongs(r, e, s))

\* Files may be cut off or out of date, and yet do no harm, now or later.
FilesAreUsable ==
  \A p \in Proposals :
    /\ Usable(entry[p], report[p], chain[p])
    /\ saved # None => Usable(saved.entry[p], saved.report[p], chain[p])

\* What an attempt has read so far may be old when it decides: the files are
\* usable for the states it has seen, too.
ReadIsUsable ==
  pc = "read" =>
    \A p \in Proposals :
      seen[p] # "none" => /\ Before(seen[p], chain[p])
                          /\ Usable(entry[p], report[p], seen[p])

\* What an attempt still has to do is out of date, and the rest is reported.
WorkIsKnown ==
  pc \in {"next", "report", "reporting", "cache"} =>
    \A p \in Proposals :
      /\ p \in todo =>
           /\ seen[p] # "none"
           /\ Whole(entry[p]) =>
                Before(entry[p].state, seen[p]) /\ Outdated(entry[p], seen[p])
      /\ seen[p] # "none" =>
           /\ Before(seen[p], chain[p])
           /\ p \notin todo => Whole(report[p]) /\ report[p].state = seen[p]

\* What is being done to the proposal that is simulated.
SimulationFits ==
  pc \in {"report", "reporting", "cache"} =>
    /\ todo # {}
    /\ Before(seen[simProposal], sim) /\ Before(sim, chain[simProposal])
    /\ pc = "cache" =>
         report[simProposal] = [state |-> seen[simProposal], saw |-> sim]

IInv ==
  BatchTypes /\ FilesAreUsable /\ ReadIsUsable /\ WorkIsKnown /\ SimulationFits
=============================================================================
