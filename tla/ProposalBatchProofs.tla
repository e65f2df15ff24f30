-------------------------- MODULE ProposalBatchProofs --------------------------
(***************************************************************************)
(* What the proof system shows of ProposalBatch, for any number of         *)
(* proposals, any governor whose moves never lead back, any age an entry   *)
(* may have, and any number of attempts, faults and pushes.                *)
(***************************************************************************)
EXTENDS ProposalBatch, WellFoundedInduction, TLAPS

-----------------------------------------------------------------------------
(* The order of states.                                                    *)

\* A governor's moves follow the rank of the states.
LEMMA RankOrder ==
  /\ Rank \in [States -> 0..7]
  /\ \A m \in Moves : Rank[m[1]] < Rank[m[2]]
BY BatchAssumption DEF Rank

\* A proposal is never before itself by a detour.
LEMMA BeforeIsAntisymmetric ==
  ASSUME NEW s \in States, NEW t \in States, Before(s, t), Before(t, s)
  PROVE  s = t
BY RankOrder DEF Before

\* What was before a state is before every later one.
LEMMA BeforeIsTransitive ==
  ASSUME NEW s \in States, NEW t \in States, NEW u \in States,
         Before(s, t), Before(t, u)
  PROVE  Before(s, u)
BY RankOrder DEF Before

\* A move leads to a later state.
LEMMA MovesGoOn ==
  ASSUME NEW m \in Moves
  PROVE  m[1] \in States /\ m[2] \in States /\ Before(m[1], m[2])
BY RankOrder DEF Before, States, Final

\* Nothing comes after the states that the cache takes for terminal.
LEMMA TerminalIsLast ==
  ASSUME NEW s \in States, NEW t \in States, s \in terminalStates, Before(s, t)
  PROVE  s = t
BY BatchAssumption DEF Before

-----------------------------------------------------------------------------
(* The files of a proposal.                                                *)

\* A file that is neither missing nor cut off is an entry, or a report.
LEMMA WholeEntry ==
  ASSUME NEW e \in Entry \cup {None, Torn}, Whole(e)
  PROVE  e \in Entry /\ e.state \in States /\ e.at \in 0..MaxTime
BY DEF Whole, Entry

LEMMA WholeReport ==
  ASSUME NEW r \in Report \cup {None, Torn}, Whole(r)
  PROVE  r \in Report /\ r.state \in States /\ r.saw \in States
BY DEF Whole, Report

\* What is written in one go is whole.
LEMMA WrittenIsWhole ==
  /\ \A e \in Entry : Whole(e)
  /\ \A r \in Report : Whole(r)
  /\ ~Whole(None) /\ ~Whole(Torn)
BY BatchAssumption DEF Whole

\* An entry that is out of date stays so while the proposal goes on.
LEMMA OutdatedStays ==
  ASSUME NEW e \in Entry, NEW s \in States, NEW t \in States,
         Before(e.state, s), Before(s, t), Outdated(e, s)
  PROVE  Outdated(e, t)
<1>1. e.state \in States
  BY DEF Entry
<1>2. CASE e.state # s /\ e.state = t
  <2>1. s = t
    BY <1>1, <1>2, BeforeIsAntisymmetric
  <2> QED
    BY <1>2, <2>1
<1>3. CASE ~(e.state # s /\ e.state = t)
  BY <1>3 DEF Outdated
<1> QED
  BY <1>2, <1>3

\* Files that are usable stay so while the proposal goes on.
LEMMA UsableStays ==
  ASSUME NEW e \in Entry \cup {None, Torn}, NEW r \in Report \cup {None, Torn},
         NEW s \in States, NEW t \in States, Before(s, t), Usable(e, r, s)
  PROVE  Usable(e, r, t)
<1> SUFFICES ASSUME Whole(e)
             PROVE  Before(e.state, t) /\ (Outdated(e, t) \/ Belongs(r, e, t))
  BY DEF Usable
<1>1. e \in Entry /\ e.state \in States
  BY WholeEntry
<1>2. Before(e.state, s) /\ (Outdated(e, s) \/ Belongs(r, e, s))
  BY DEF Usable
<1>3. Before(e.state, t)
  BY <1>1, <1>2, BeforeIsTransitive
<1>4. CASE Outdated(e, s)
  BY <1>1, <1>2, <1>3, <1>4, OutdatedStays
<1>5. CASE Belongs(r, e, s)
  <2>1. Whole(r) /\ r.state = e.state /\ Before(e.state, r.saw)
                 /\ Before(r.saw, s) /\ r.saw \in States
    BY <1>5, WholeReport DEF Belongs
  <2>2. Before(r.saw, t)
    BY <2>1, BeforeIsTransitive
  <2> QED
    BY <1>3, <2>1, <2>2 DEF Belongs
<1> QED
  BY <1>2, <1>4, <1>5

\* An entry that is not used again may have any report next to it.
LEMMA OutdatedIsUsable ==
  ASSUME NEW e \in Entry \cup {None, Torn}, NEW r,
         NEW s \in States, NEW t \in States, Before(s, t),
         Whole(e) => Before(e.state, s) /\ Outdated(e, s)
  PROVE  Usable(e, r, t)
<1> SUFFICES ASSUME Whole(e)
             PROVE  Before(e.state, t) /\ Outdated(e, t)
  BY DEF Usable
<1>1. e \in Entry /\ e.state \in States
  BY WholeEntry
<1> QED
  BY <1>1, BeforeIsTransitive, OutdatedStays

\* An entry that will do, for the state a proposal was seen in, has a whole
\* report next to it, and its simulation met the proposal in that state.
LEMMA UsedIsCurrent ==
  ASSUME BatchTypes, NEW p \in Proposals,
         Usable(entry[p], report[p], seen[p]), ~needsSimulation(p)
  PROVE  report[p] = [state |-> seen[p], saw |-> seen[p]] /\ Whole(report[p])
<1> DEFINE e == entry[p]
           r == report[p]
           s == seen[p]
<1>1. /\ e \in Entry \cup {None, Torn}
      /\ r \in Report \cup {None, Torn}
      /\ s \in States
  BY DEF BatchTypes, File
<1>2. Whole(e)
  BY DEF needsSimulation
<1>3. \/ e.state \in terminalStates
      \/ e.state = s /\ ~(now - e.at > MaxAge)
  BY <1>2 DEF needsSimulation
<1>4. e \in Entry /\ e.state \in States
  BY <1>1, <1>2, WholeEntry
<1>5. Before(e.state, s) /\ (Outdated(e, s) \/ Belongs(r, e, s))
  BY <1>2 DEF Usable
<1>6. e.state = s
  BY <1>1, <1>3, <1>4, <1>5, TerminalIsLast
<1>7. ~Outdated(e, s)
  BY <1>3, <1>6 DEF Outdated
<1>8. Whole(r) /\ r.state = s /\ Before(s, r.saw) /\ Before(r.saw, s)
  BY <1>5, <1>6, <1>7 DEF Belongs
<1>9. r \in Report /\ r.saw \in States
  BY <1>1, <1>8, WholeReport
<1>10. r.saw = s
  BY <1>1, <1>8, <1>9, BeforeIsAntisymmetric
<1> QED
  BY <1>8, <1>9, <1>10 DEF Report
-----------------------------------------------------------------------------
(* The work of an attempt.                                                 *)

\* A set of numbers that is not empty has an element with none below it.
LEMMA MinimalNumber ==
  ASSUME NEW R, IsWellFoundedOn(R, Nat), NEW T, T \subseteq Nat, T # {}
  PROVE  \E p \in T : \A q \in T : ~(<<q, p>> \in R)
BY WFMin, Zenon

\* With the order of the numbers that element is below the others.
LEMMA BelowTheOthers ==
  ASSUME NEW R, IsWellFoundedOn(R, Nat), R = {ss \in Nat \X Nat : ss[1] < ss[2]},
         NEW T, T \subseteq Nat, T # {}
  PROVE  \E p \in T : \A q \in T : p <= q
<1>1. PICK p \in T : \A q \in T : ~(<<q, p>> \in R)
  BY MinimalNumber, Zenon
<1>2. ASSUME NEW q \in T PROVE p <= q
  <2>1. p \in Nat /\ q \in Nat
    OBVIOUS
  <2>2. <<q, p>> \notin R
    BY <1>1
  <2>3. <<q, p>> \in {ss \in Nat \X Nat : ss[1] < ss[2]} <=> q < p
    BY <2>1
  <2> QED
    BY <2>1, <2>2, <2>3
<1> QED
  BY <1>2

\* Hence a set of numbers that is not empty has a least element.
LEMMA LeastNumber ==
  ASSUME NEW T, T \subseteq Nat, T # {}
  PROVE  \E p \in T : \A q \in T : p <= q
<1>1. IsWellFoundedOn({ss \in Nat \X Nat : ss[1] < ss[2]}, Nat)
  BY NatLessThanWellFounded, Zenon DEF OpToRel
<1> QED
  BY <1>1, BelowTheOthers, Zenon

\* The next proposal is one of those still to do.
LEMMA SimProposalIsToDo ==
  ASSUME todo \subseteq Proposals, todo # {}
  PROVE  simProposal \in todo /\ simProposal \in Proposals
<1>1. todo \subseteq Nat
  BY DEF Proposals
<1>2. \E p \in todo : \A q \in todo : p <= q
  BY <1>1, LeastNumber
<1> QED
  BY <1>2 DEF simProposal

\* Every state of a file that is written is a state of the governor.
LEMMA SimulationTypes ==
  ASSUME BatchTypes, SimulationFits, pc \in {"report", "reporting", "cache"}
  PROVE  /\ simProposal \in todo /\ simProposal \in Proposals
         /\ seen[simProposal] \in States /\ chain[simProposal] \in States
         /\ sim \in States
BY SimProposalIsToDo DEF BatchTypes, SimulationFits

-----------------------------------------------------------------------------
(* The inductive invariant.                                                *)

\* At the beginning nothing is saved, read or under way.
LEMMA InitIsFine == Init => IInv
<1> SUFFICES ASSUME Init PROVE IInv
  OBVIOUS
<1>1. NoFiles \in File(Entry) /\ NoFiles \in File(Report)
  BY DEF NoFiles, File
<1>2. BatchTypes
  BY <1>1, BatchAssumption DEF Init, BatchTypes
<1>3. FilesAreUsable
  BY WrittenIsWhole DEF Init, NoFiles, FilesAreUsable, Usable
<1>4. ReadIsUsable /\ WorkIsKnown /\ SimulationFits
  BY DEF Init, ReadIsUsable, WorkIsKnown, SimulationFits
<1> QED
  BY <1>2, <1>3, <1>4 DEF IInv

\* The governor moves a proposal on: what was usable stays usable.
LEMMA GovernKeepsIInv ==
  ASSUME IInv, NEW p \in Proposals, Govern(p)
  PROVE  IInv'
<1> USE DEF IInv
<1>1. PICK m \in Moves : chain[p] = m[1] /\ chain' = [chain EXCEPT ![p] = m[2]]
  BY DEF Govern
<1>2. UNCHANGED <<now, disk, store, pc, attempt, todo, seen, sim, published, faults>>
  BY DEF Govern
<1>3. chain' \in [Proposals -> States]
  BY <1>1, MovesGoOn DEF BatchTypes
<1>4. BatchTypes'
  BY <1>2, <1>3 DEF BatchTypes, disk, store
<1>5. \A q \in Proposals : Before(chain[q], chain'[q])
  BY <1>1, MovesGoOn DEF BatchTypes, Before
<1>6. ASSUME NEW q \in Proposals, NEW s \in States, Before(s, chain[q])
      PROVE  Before(s, chain'[q])
  BY <1>3, <1>5, <1>6, BeforeIsTransitive DEF BatchTypes
<1>7. FilesAreUsable'
  <2> SUFFICES ASSUME NEW q \in Proposals
               PROVE  /\ Usable(entry[q], report[q], chain'[q])
                      /\ saved # None =>
                           Usable(saved.entry[q], saved.report[q], chain'[q])
    BY <1>2 DEF FilesAreUsable, disk, store, Usable, Belongs, Outdated
  <2>1. chain[q] \in States /\ chain'[q] \in States
    BY <1>3 DEF BatchTypes
  <2>2. Usable(entry[q], report[q], chain'[q])
    <3>1. entry[q] \in Entry \cup {None, Torn} /\ report[q] \in Report \cup {None, Torn}
      BY DEF BatchTypes, File
    <3> QED
      BY <1>5, <2>1, <3>1, UsableStays DEF FilesAreUsable
  <2>3. ASSUME saved # None
        PROVE  Usable(saved.entry[q], saved.report[q], chain'[q])
    <3>1. /\ saved.entry[q] \in Entry \cup {None, Torn}
          /\ saved.report[q] \in Report \cup {None, Torn}
      BY <2>3 DEF BatchTypes, File
    <3> QED
      BY <1>5, <2>1, <2>3, <3>1, UsableStays DEF FilesAreUsable
  <2> QED
    BY <2>2, <2>3
<1>8. ReadIsUsable'
  <2>1. \A q \in Proposals : seen[q] \in States
    BY DEF BatchTypes
  <2> QED
    BY <1>2, <1>6, <2>1
    DEF ReadIsUsable, disk, store, Usable, Belongs, Outdated
<1>9. WorkIsKnown'
  <2>1. \A q \in Proposals : seen[q] \in States
    BY DEF BatchTypes
  <2> QED
    BY <1>2, <1>6, <2>1 DEF WorkIsKnown, disk, store, Outdated
<1>10. SimulationFits'
  <2> SUFFICES ASSUME pc \in {"report", "reporting", "cache"}
               PROVE  SimulationFits'
    BY <1>2 DEF SimulationFits
  <2>1. simProposal' = simProposal
    BY <1>2 DEF simProposal
  <2>2. Before(sim, chain'[simProposal])
    BY <1>6, SimulationTypes DEF SimulationFits
  <2> QED
    BY <1>2, <2>1, <2>2 DEF SimulationFits, disk
<1> QED
  BY <1>4, <1>7, <1>8, <1>9, <1>10

\* An entry that is out of date stays so while time goes by.
LEMMA TickKeepsIInv == IInv /\ Tick => IInv'
<1> SUFFICES ASSUME IInv, Tick PROVE IInv'
  OBVIOUS
<1> USE DEF IInv
<1>1. now' = now + 1 /\ now' \in 0..MaxTime /\ now \in 0..MaxTime
  BY BatchAssumption DEF Tick, BatchTypes
<1>2. UNCHANGED <<chain, disk, store, pc, attempt, todo, seen, sim, published, faults>>
  BY DEF Tick
<1>3. BatchTypes'
  BY <1>1, <1>2 DEF BatchTypes, disk, store
<1>4. ASSUME NEW e \in Entry \cup {None, Torn}, NEW s, Whole(e), Outdated(e, s)
      PROVE  Outdated(e, s)'
  <2>1. e.at \in 0..MaxTime
    BY <1>4, WholeEntry
  <2> QED
    BY <1>1, <1>4, <2>1, BatchAssumption DEF Outdated
<1>5. ASSUME NEW e \in Entry \cup {None, Torn}, NEW r, NEW s, Usable(e, r, s)
      PROVE  Usable(e, r, s)'
  BY <1>4, <1>5 DEF Usable, Belongs
<1>6. \A q \in Proposals : entry[q] \in Entry \cup {None, Torn}
  BY DEF BatchTypes, File
<1>7. FilesAreUsable'
  <2>1. ASSUME saved # None, NEW q \in Proposals
        PROVE  saved.entry[q] \in Entry \cup {None, Torn}
    BY <2>1 DEF BatchTypes, File
  <2> QED
    BY <1>2, <1>5, <1>6, <2>1 DEF FilesAreUsable, disk, store
<1>8. ReadIsUsable'
  BY <1>2, <1>5, <1>6 DEF ReadIsUsable, disk
<1>9. WorkIsKnown'
  BY <1>2, <1>4, <1>6 DEF WorkIsKnown, disk
<1>10. SimulationFits'
  BY <1>2 DEF SimulationFits, disk, simProposal
<1> QED
  BY <1>3, <1>7, <1>8, <1>9, <1>10
\* A push changes the key of the cache and nothing else.
LEMMA PushKeepsIInv == IInv /\ Push => IInv'
BY DEF IInv, Push, BatchTypes, FilesAreUsable, ReadIsUsable, WorkIsKnown,
       SimulationFits, Usable, Belongs, Outdated, disk, simProposal

\* A job starts with no files, or with those that were saved last.
LEMMA StartJobKeepsIInv == IInv /\ StartJob => IInv'
<1> SUFFICES ASSUME IInv, StartJob PROVE IInv'
  OBVIOUS
<1> USE DEF IInv, StartJob, Begin
<1>1. NoFiles \in File(Entry) /\ NoFiles \in File(Report)
  BY DEF NoFiles, File
<1>2. entry' \in File(Entry) /\ report' \in File(Report)
  BY <1>1 DEF BatchTypes
<1>3. BatchTypes'
  <2>1. seen' \in [Proposals -> States] /\ sim' \in States
    BY BatchAssumption
  <2>2. todo' \subseteq Proposals
    BY DEF Listed
  <2> QED
    BY <1>2, <2>1, <2>2 DEF BatchTypes, store
<1>4. FilesAreUsable'
  <2> SUFFICES ASSUME NEW p \in Proposals
               PROVE  /\ Usable(entry'[p], report'[p], chain[p])
                      /\ saved # None =>
                           Usable(saved.entry[p], saved.report[p], chain[p])
    BY DEF FilesAreUsable, store, Usable, Outdated, Belongs
  <2>1. CASE saved = None
    BY <2>1, WrittenIsWhole DEF NoFiles, Usable
  <2>2. CASE saved # None
    BY <2>2 DEF FilesAreUsable
  <2> QED
    BY <2>1, <2>2
<1>5. ReadIsUsable' /\ WorkIsKnown' /\ SimulationFits'
  BY DEF ReadIsUsable, WorkIsKnown, SimulationFits
<1> QED
  BY <1>3, <1>4, <1>5

\* Another attempt goes on with the files there are.
LEMMA RetryKeepsIInv == IInv /\ Retry => IInv'
<1> SUFFICES ASSUME IInv, Retry PROVE IInv'
  OBVIOUS
<1> USE DEF IInv, Retry, Begin
<1>1. BatchTypes'
  BY BatchAssumption DEF BatchTypes, store, disk, Listed
<1>2. FilesAreUsable'
  BY DEF FilesAreUsable, store, disk, Usable, Outdated, Belongs
<1>3. ReadIsUsable' /\ WorkIsKnown' /\ SimulationFits'
  BY DEF ReadIsUsable, WorkIsKnown, SimulationFits
<1> QED
  BY <1>1, <1>2, <1>3

\* What is read now is the present state, for which the files are usable.
LEMMA ReadStateKeepsIInv == IInv /\ ReadState => IInv'
<1> SUFFICES ASSUME IInv, ReadState PROVE IInv'
  OBVIOUS
<1> USE DEF IInv, ReadState
<1>1. simProposal \in Proposals
  BY SimProposalIsToDo DEF BatchTypes
<1>2. BatchTypes'
  BY <1>1 DEF BatchTypes, store, disk
<1>3. FilesAreUsable'
  BY DEF FilesAreUsable, store, disk, Usable, Outdated, Belongs
<1>4. ReadIsUsable'
  <2> SUFFICES ASSUME NEW p \in Proposals, seen'[p] # "none"
               PROVE  /\ Before(seen'[p], chain[p])
                      /\ Usable(entry[p], report[p], seen'[p])
    BY DEF ReadIsUsable, disk, Usable, Outdated, Belongs
  <2>1. CASE p = simProposal
    <3>1. seen'[p] = chain[p]
      BY <1>1, <2>1 DEF BatchTypes
    <3> QED
      BY <3>1 DEF FilesAreUsable, Before
  <2>2. CASE p # simProposal
    <3>1. seen'[p] = seen[p]
      BY <1>1, <2>2 DEF BatchTypes
    <3> QED
      BY <3>1 DEF ReadIsUsable
  <2> QED
    BY <2>1, <2>2
<1>5. WorkIsKnown' /\ SimulationFits'
  BY DEF WorkIsKnown, SimulationFits
<1> QED
  BY <1>2, <1>3, <1>4, <1>5

\* What is not to be simulated is reported; the rest is out of date.
LEMMA DecideKeepsIInv == IInv /\ Decide => IInv'
<1> SUFFICES ASSUME IInv, Decide PROVE IInv'
  OBVIOUS
<1> USE DEF IInv, Decide
<1>1. BatchTypes'
  BY DEF BatchTypes, store, disk
<1>2. FilesAreUsable'
  BY DEF FilesAreUsable, store, disk, Usable, Outdated, Belongs
<1>3. WorkIsKnown'
  <2> SUFFICES ASSUME NEW p \in Proposals
               PROVE  /\ p \in todo' =>
                           /\ seen[p] # "none"
                           /\ Whole(entry[p]) =>
                                /\ Before(entry[p].state, seen[p])
                                /\ Outdated(entry[p], seen[p])
                      /\ seen[p] # "none" =>
                           /\ Before(seen[p], chain[p])
                           /\ p \notin todo' =>
                                Whole(report[p]) /\ report[p].state = seen[p]
    BY DEF WorkIsKnown, disk, Outdated
  <2>1. ASSUME p \in todo'
        PROVE  /\ seen[p] # "none"
               /\ Whole(entry[p]) => /\ Before(entry[p].state, seen[p])
                                     /\ Outdated(entry[p], seen[p])
    BY <2>1 DEF needsSimulation, ReadIsUsable, Usable, Outdated
  <2>2. ASSUME seen[p] # "none"
        PROVE  /\ Before(seen[p], chain[p])
               /\ p \notin todo' =>
                    Whole(report[p]) /\ report[p].state = seen[p]
    <3>1. Before(seen[p], chain[p]) /\ Usable(entry[p], report[p], seen[p])
      BY <2>2 DEF ReadIsUsable
    <3>2. ASSUME p \notin todo'
          PROVE  Whole(report[p]) /\ report[p].state = seen[p]
      <4>1. ~needsSimulation(p)
        BY <2>2, <3>2
      <4>2. /\ report[p] = [state |-> seen[p], saw |-> seen[p]]
            /\ Whole(report[p])
        <5>1. BatchTypes
          OBVIOUS
        <5> QED
          BY <3>1, <4>1, <5>1, UsedIsCurrent, Zenon
      <4> QED
        BY <4>2
    <3> QED
      BY <3>1, <3>2
  <2> QED
    BY <2>1, <2>2
<1>4. ReadIsUsable' /\ SimulationFits'
  BY DEF ReadIsUsable, SimulationFits
<1> QED
  BY <1>1, <1>2, <1>3, <1>4
\* A simulation meets the proposal in the state it has now.
LEMMA SimulateKeepsIInv == IInv /\ Simulate => IInv'
<1> SUFFICES ASSUME IInv, Simulate PROVE IInv'
  OBVIOUS
<1> USE DEF IInv, Simulate
<1>1. simProposal \in todo /\ simProposal \in Proposals
  BY SimProposalIsToDo DEF BatchTypes
<1>2. BatchTypes'
  BY <1>1 DEF BatchTypes, store, disk
<1>3. FilesAreUsable'
  BY DEF FilesAreUsable, store, disk, Usable, Outdated, Belongs
<1>4. WorkIsKnown'
  BY DEF WorkIsKnown, disk, Outdated
<1>5. SimulationFits'
  <2>1. simProposal' = simProposal
    BY DEF simProposal
  <2>2. Before(seen[simProposal], sim') /\ Before(sim', chain[simProposal])
    BY <1>1 DEF WorkIsKnown, Before
  <2> QED
    BY <2>1, <2>2 DEF SimulationFits
<1>6. ReadIsUsable'
  BY DEF ReadIsUsable
<1> QED
  BY <1>2, <1>3, <1>4, <1>5, <1>6

\* A report is replaced only where the entry is out of date, or gone.
LEMMA ReportIsReplaced ==
  ASSUME IInv, pc \in {"report", "reporting"},
         NEW r \in Report \cup {None, Torn},
         report' = [report EXCEPT ![simProposal] = r],
         UNCHANGED <<now, chain, entry, store, todo, seen, sim>>
  PROVE  /\ report' \in File(Report)
         /\ FilesAreUsable'
         /\ pc' \in {"report", "reporting", "cache"} => WorkIsKnown'
<1> DEFINE cur == simProposal
<1> USE DEF IInv
<1>1. cur \in todo /\ cur \in Proposals /\ chain[cur] \in States /\ seen[cur] \in States
  BY SimulationTypes
<1>2. report' \in File(Report)
  BY <1>1 DEF BatchTypes, File
<1>3. \A p \in Proposals : p # cur => report'[p] = report[p]
  BY <1>1 DEF BatchTypes, File
<1>4. FilesAreUsable'
  <2> SUFFICES ASSUME NEW p \in Proposals
               PROVE  Usable(entry[p], report'[p], chain[p])
    BY DEF FilesAreUsable, store, Usable, Outdated, Belongs
  <2>1. CASE p = cur
    <3>1. entry[p] \in Entry \cup {None, Torn}
      BY DEF BatchTypes, File
    <3>2. Before(seen[p], chain[p])
      BY <1>1, <2>1 DEF WorkIsKnown
    <3>3. Whole(entry[p]) => /\ Before(entry[p].state, seen[p])
                             /\ Outdated(entry[p], seen[p])
      BY <1>1, <2>1 DEF WorkIsKnown
    <3> QED
      BY <1>1, <2>1, <3>1, <3>2, <3>3, OutdatedIsUsable
  <2>2. CASE p # cur
    BY <1>3, <2>2 DEF FilesAreUsable
  <2> QED
    BY <2>1, <2>2
<1>5. ASSUME pc' \in {"report", "reporting", "cache"} PROVE WorkIsKnown'
  BY <1>1, <1>3 DEF WorkIsKnown, Outdated
<1> QED
  BY <1>2, <1>4, <1>5

LEMMA WriteReportKeepsIInv == IInv /\ WriteReport => IInv'
<1> SUFFICES ASSUME IInv, WriteReport PROVE IInv'
  OBVIOUS
<1> USE DEF WriteReport
<1>1. report' \in File(Report) /\ FilesAreUsable' /\ WorkIsKnown'
  BY ReportIsReplaced
<1> USE DEF IInv
<1>2. BatchTypes'
  BY <1>1 DEF BatchTypes, store
<1>3. SimulationFits'
  <2>1. simProposal' = simProposal
    BY DEF simProposal
  <2> QED
    BY <2>1 DEF SimulationFits
<1>4. ReadIsUsable'
  BY DEF ReadIsUsable
<1> QED
  BY <1>1, <1>2, <1>3, <1>4

LEMMA ReportWrittenKeepsIInv == IInv /\ ReportWritten => IInv'
<1> SUFFICES ASSUME IInv, ReportWritten PROVE IInv'
  OBVIOUS
<1> USE DEF ReportWritten
<1> DEFINE r == [state |-> seen[simProposal], saw |-> sim]
<1>1. r \in Report /\ simProposal \in Proposals
  BY SimulationTypes DEF IInv, Report
<1>2. report' \in File(Report) /\ FilesAreUsable' /\ WorkIsKnown'
  BY <1>1, ReportIsReplaced
<1> USE DEF IInv
<1>3. BatchTypes'
  BY <1>2 DEF BatchTypes, store
<1>4. SimulationFits'
  <2>1. simProposal' = simProposal
    BY DEF simProposal
  <2>2. report'[simProposal] = r
    BY <1>1 DEF BatchTypes, File
  <2> QED
    BY <2>1, <2>2 DEF SimulationFits
<1>5. ReadIsUsable'
  BY DEF ReadIsUsable
<1> QED
  BY <1>2, <1>3, <1>4, <1>5

\* The new entry belongs to the report that was just written; and an old one,
\* or one that is cut off, is not used again.
LEMMA CacheProposalKeepsIInv == IInv /\ cacheProposal => IInv'
<1> SUFFICES ASSUME IInv, cacheProposal PROVE IInv'
  OBVIOUS
<1> DEFINE cur == simProposal
           new == [state |-> seen[cur], at |-> now]
<1> USE DEF IInv, cacheProposal
<1>1. cur \in todo /\ cur \in Proposals /\ chain[cur] \in States /\ seen[cur] \in States
  BY SimulationTypes
<1>2. new \in Entry
  BY <1>1 DEF Entry, BatchTypes
<1>3. entry' \in {entry, [entry EXCEPT ![cur] = new], [entry EXCEPT ![cur] = Torn]}
  OBVIOUS
<1>4. entry' \in File(Entry) /\ \A p \in Proposals : p # cur => entry'[p] = entry[p]
  <2> HIDE DEF cur, new
  <2> QED
    BY <1>1, <1>2, <1>3 DEF BatchTypes, File
<1>5. entry'[cur] \in {entry[cur], new, Torn}
  <2> HIDE DEF cur, new
  <2> QED
    BY <1>1, <1>3 DEF BatchTypes, File
<1>6. /\ seen[cur] # "none" /\ Before(seen[cur], chain[cur])
      /\ Whole(entry[cur]) => /\ Before(entry[cur].state, seen[cur])
                              /\ Outdated(entry[cur], seen[cur])
  BY <1>1 DEF WorkIsKnown
<1>7. /\ report[cur] = [state |-> seen[cur], saw |-> sim]
      /\ Before(seen[cur], sim) /\ Before(sim, chain[cur]) /\ sim \in States
  BY DEF SimulationFits, BatchTypes
<1>8. Whole(report[cur]) /\ report[cur].state = seen[cur]
  BY <1>1, <1>7, WrittenIsWhole DEF Report
<1>9. BatchTypes'
  BY <1>4, BatchAssumption DEF BatchTypes, store
<1>10. Usable(entry'[cur], report[cur], chain[cur])
  <2>1. CASE entry'[cur] = entry[cur]
    <3>1. entry[cur] \in Entry \cup {None, Torn}
      BY <1>1 DEF BatchTypes, File
    <3> QED
      BY <1>1, <1>6, <2>1, <3>1, OutdatedIsUsable
  <2>2. CASE entry'[cur] = new
    <3>1. Belongs(report[cur], new, chain[cur])
      BY <1>7, <1>8 DEF Belongs
    <3> QED
      BY <1>6, <2>2, <3>1 DEF Usable
  <2>3. CASE entry'[cur] = Torn
    BY <2>3, WrittenIsWhole DEF Usable
  <2> QED
    BY <1>5, <2>1, <2>2, <2>3
<1>11. FilesAreUsable'
  <2> SUFFICES ASSUME NEW p \in Proposals
               PROVE  Usable(entry'[p], report[p], chain[p])
    BY DEF FilesAreUsable, store, Usable, Outdated, Belongs
  <2> QED
    BY <1>4, <1>10 DEF FilesAreUsable
<1>12. WorkIsKnown'
  BY <1>1, <1>4, <1>8 DEF WorkIsKnown, Outdated
<1>13. ReadIsUsable' /\ SimulationFits'
  BY DEF ReadIsUsable, SimulationFits
<1> QED
  BY <1>9, <1>11, <1>12, <1>13

\* An attempt that is killed leaves the files as they are, or one entry cut off.
LEMMA AbortKeepsIInv == IInv /\ Abort => IInv'
<1> SUFFICES ASSUME IInv, Abort PROVE IInv'
  OBVIOUS
<1> USE DEF IInv, Abort, Forget
<1>1. entry' = entry \/ (/\ simProposal \in Proposals
                         /\ entry' = [entry EXCEPT ![simProposal] = Torn])
  BY SimulationTypes
<1>2. \A p \in Proposals : entry'[p] = entry[p] \/ entry'[p] = Torn
  BY <1>1 DEF BatchTypes, File
<1>3. entry' \in File(Entry)
  BY <1>1 DEF BatchTypes, File
<1>4. BatchTypes'
  BY <1>3, BatchAssumption DEF BatchTypes, store
<1>5. FilesAreUsable'
  <2> SUFFICES ASSUME NEW p \in Proposals
               PROVE  Usable(entry'[p], report[p], chain[p])
    BY DEF FilesAreUsable, store, Usable, Outdated, Belongs
  <2> QED
    BY <1>2, WrittenIsWhole DEF FilesAreUsable, Usable
<1>6. ReadIsUsable' /\ WorkIsKnown' /\ SimulationFits'
  BY DEF ReadIsUsable, WorkIsKnown, SimulationFits
<1> QED
  BY <1>4, <1>5, <1>6

\* A machine that goes away takes its files along.
LEMMA LeaveKeepsIInv ==
  ASSUME IInv, Leave, UNCHANGED <<now, chain>>,
         saved' = saved \/ saved' = [entry |-> entry, report |-> report]
  PROVE  IInv'
<1> USE DEF IInv, Leave, Forget
<1>1. NoFiles \in File(Entry) /\ NoFiles \in File(Report)
  BY DEF NoFiles, File
<1>2. entry \in File(Entry) /\ report \in File(Report)
  BY DEF BatchTypes
<1>3. BatchTypes'
  BY <1>1, <1>2, BatchAssumption DEF BatchTypes
<1>4. FilesAreUsable'
  <2> SUFFICES ASSUME NEW p \in Proposals
               PROVE  /\ Usable(NoFiles[p], NoFiles[p], chain[p])
                      /\ saved' # None =>
                           Usable(saved'.entry[p], saved'.report[p], chain[p])
    BY DEF FilesAreUsable, Usable, Outdated, Belongs
  <2>1. Usable(NoFiles[p], NoFiles[p], chain[p])
    BY WrittenIsWhole DEF NoFiles, Usable
  <2>2. ASSUME saved' # None
        PROVE  Usable(saved'.entry[p], saved'.report[p], chain[p])
    BY <2>2 DEF FilesAreUsable
  <2> QED
    BY <2>1, <2>2
<1>5. ReadIsUsable' /\ WorkIsKnown' /\ SimulationFits'
  BY DEF ReadIsUsable, WorkIsKnown, SimulationFits
<1> QED
  BY <1>3, <1>4, <1>5

LEMMA NextKeepsIInv == IInv /\ [Next]_vars => IInv'
<1> SUFFICES ASSUME IInv, [Next]_vars PROVE IInv'
  OBVIOUS
<1>1. CASE \E p \in Proposals : Govern(p)
  BY <1>1, GovernKeepsIInv
<1>2. CASE Tick
  BY <1>2, TickKeepsIInv
<1>3. CASE Push
  BY <1>3, PushKeepsIInv
<1>4. CASE Abort
  BY <1>4, AbortKeepsIInv
<1>5. CASE Job
  <2>1. CASE StartJob \/ Retry \/ ReadState \/ Decide
    BY <2>1, StartJobKeepsIInv, RetryKeepsIInv, ReadStateKeepsIInv, DecideKeepsIInv
  <2>2. CASE Simulate \/ WriteReport \/ ReportWritten \/ cacheProposal
    BY <2>2, SimulateKeepsIInv, WriteReportKeepsIInv, ReportWrittenKeepsIInv,
       CacheProposalKeepsIInv
  <2>3. CASE JobFails
    BY <2>3, LeaveKeepsIInv DEF JobFails, store
  <2>4. CASE JobSucceeds
    BY <2>4, LeaveKeepsIInv DEF JobSucceeds
  <2> QED
    BY <1>5, <2>1, <2>2, <2>3, <2>4 DEF Job
<1>6. CASE UNCHANGED vars
  BY <1>6 DEF IInv, vars, BatchTypes, FilesAreUsable, ReadIsUsable, WorkIsKnown,
              SimulationFits, Usable, Belongs, Outdated, disk, store, simProposal
<1> QED
  BY <1>1, <1>2, <1>3, <1>4, <1>5, <1>6 DEF Next

(***************************************************************************)
(* The directories that jobs save, restore and go on with are fit to be    *)
(* used at any time, whatever was killed where.                            *)
(***************************************************************************)
THEOREM BatchInvariant == Spec => []IInv
<1>1. IInv /\ [Next]_vars => IInv'
  BY NextKeepsIInv
<1> QED
  BY <1>1, InitIsFine, PTL DEF Spec

(***************************************************************************)
(* A job that succeeds signs a whole report about the state it has read,   *)
(* for every proposal it has listed.                                       *)
(***************************************************************************)
THEOREM BatchPublishesComplete == Spec => []PublishedIsComplete
<1>1. IInv => PublishedIsComplete
  BY DEF IInv, WorkIsKnown, PublishedIsComplete
<1> QED
  BY <1>1, BatchInvariant, PTL

\* The step that decides leaves out only proposals whose report is current.
LEMMA DecisionIsCurrent ==
  ASSUME IInv, [Next]_vars, NEW p \in Proposals,
         pc = "read", pc' = "next", seen[p] # "none", p \notin todo'
  PROVE  report[p] = [state |-> seen[p], saw |-> seen[p]]
<1>1. Decide
  BY DEF Next, Govern, Tick, Push, Abort, Job, StartJob, Retry, ReadState,
         Simulate, WriteReport, ReportWritten, cacheProposal, JobFails,
         JobSucceeds, Leave, Begin, vars
<1>2. ~needsSimulation(p)
  BY <1>1 DEF Decide
<1>3. BatchTypes /\ Usable(entry[p], report[p], seen[p])
  BY DEF IInv, ReadIsUsable
<1> QED
  BY <1>2, <1>3, UsedIsCurrent

(***************************************************************************)
(* A proposal that is not simulated again has a whole report about the     *)
(* state it has now, from a simulation that met it in that state.          *)
(***************************************************************************)
THEOREM BatchReusesCurrent == Spec => ReusedIsCurrent
<1> DEFINE A == \A p \in Proposals :
                  pc = "read" /\ pc' = "next" /\ seen[p] # "none" /\ p \notin todo'
                    => report[p] = [state |-> seen[p], saw |-> seen[p]]
<1>1. IInv /\ [Next]_vars => A
  BY DecisionIsCurrent
<1>2. Spec => [][A]_vars
  <2> HIDE DEF A
  <2> QED
    BY <1>1, BatchInvariant, PTL DEF Spec
<1> QED
  BY <1>2 DEF ReusedIsCurrent
=============================================================================
