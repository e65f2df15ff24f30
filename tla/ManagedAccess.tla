---------------------------- MODULE ManagedAccess ----------------------------
(***************************************************************************)
(* How a run gets and keeps its access to the gateway (utils/clients/      *)
(* managed-access.ts): the team's code is read from a file that all runs   *)
(* of a user share, checked with the gateway, else typed, checked, and     *)
(* saved through a temporary file.  The team changes the code; runs end    *)
(* anywhere and the user starts them again.                                *)
(***************************************************************************)
EXTENDS Integers, FiniteSets

CONSTANTS
  Pids,               \* process ids that runs have, again and again
  MaxCode,            \* bound: changes of the team's code
  MaxFaults           \* bound: crashes, wrong entries, unavailable services

ASSUME AccessAssumption == {MaxCode, MaxFaults} \subseteq Nat

VARIABLES
  team,     \* the code that the gateway takes now
  saved,    \* accessFile(): a code, or a sign that it holds none
  tmp,      \* temporary files, by the pid in their names
  proc,     \* the runs
  faults

accessVars == <<team, saved, tmp, proc, faults>>

Codes == 0..MaxCode
Missing == -1       \* no file
Broken == -2        \* not JSON, or not a code
Wrong == -3         \* a typed code that is not the team's

AccessInit ==
  /\ team = 0
  /\ saved \in {Missing, Broken, 0}
  /\ tmp \in SUBSET Pids
  /\ proc = [p \in Pids |-> [pc |-> "off", code |-> Missing]]
  /\ faults = 0

Goto(p, pc, code) == proc' = [proc EXCEPT ![p] = [pc |-> pc, code |-> code]]
Fault == faults < MaxFaults /\ faults' = faults + 1

\* authorize, memoised for the life of the run: read the file.
ReadSaved(p) ==
  /\ proc[p].pc = "off"
  /\ IF saved \in Codes THEN Goto(p, "checking", saved)
                        ELSE Goto(p, "typing", Missing)
  /\ UNCHANGED <<team, saved, tmp, faults>>

\* The gateway takes the saved code, or answers 401.
CheckSaved(p) ==
  /\ proc[p].pc = "checking"
  /\ IF proc[p].code = team THEN Goto(p, "ready", team)
                            ELSE Goto(p, "typing", Missing)
  /\ UNCHANGED <<team, saved, tmp, faults>>

\* The user types the code the team has now.
readCode(p) ==
  /\ proc[p].pc = "typing"
  /\ Goto(p, "verifying", team)
  /\ UNCHANGED <<team, saved, tmp, faults>>

Mistype(p) ==
  /\ proc[p].pc = "typing"
  /\ Fault
  /\ Goto(p, "verifying", Wrong)
  /\ UNCHANGED <<team, saved, tmp>>

\* The gateway takes the typed code, or the run throws.
VerifyTyped(p) ==
  /\ proc[p].pc = "verifying"
  /\ IF proc[p].code = team THEN Goto(p, "writing", team)
                            ELSE Goto(p, "off", Missing)
  /\ UNCHANGED <<team, saved, tmp, faults>>

\* writeFile with flag wx; it throws if the file is there, and rm takes it away.
WriteTemporary(p) ==
  /\ proc[p].pc = "writing"
  /\ tmp' = tmp \cup {p}
  /\ IF p \in tmp THEN Goto(p, "throwing", Missing)
                  ELSE Goto(p, "renaming", proc[p].code)
  /\ UNCHANGED <<team, saved, faults>>

RenameTemporary(p) ==
  /\ proc[p].pc = "renaming"
  /\ saved' = proc[p].code
  /\ tmp' = tmp \ {p}
  /\ Goto(p, "saved", proc[p].code)
  /\ UNCHANGED <<team, faults>>

\* Mutant of RemoveTemporary: a write that threw leaves the old file there.
RemoveTemporaryIfSaved(p) ==
  /\ proc[p].pc \in {"throwing", "saved"}
  /\ tmp' = IF proc[p].pc = "saved" THEN tmp \ {p} ELSE tmp
  /\ IF proc[p].pc = "saved" THEN Goto(p, "ready", proc[p].code)
                             ELSE Goto(p, "off", Missing)
  /\ UNCHANGED <<team, saved, faults>>

\* The finally: rm, then the code is returned or the error thrown.
RemoveTemporary(p) ==
  /\ proc[p].pc \in {"throwing", "saved"}
  /\ tmp' = tmp \ {p}
  /\ IF proc[p].pc = "saved" THEN Goto(p, "ready", proc[p].code)
                             ELSE Goto(p, "off", Missing)
  /\ UNCHANGED <<team, saved, faults>>

\* managedFetch with a code that is not the team's any more: the run throws.
Revoked(p) ==
  /\ proc[p].pc = "ready" /\ proc[p].code # team
  /\ Goto(p, "off", Missing)
  /\ UNCHANGED <<team, saved, tmp, faults>>

\* The service cannot be reached, or the run is killed: its files stay as they are.
RunEnds(p) ==
  /\ proc[p].pc # "off"
  /\ Fault
  /\ Goto(p, "off", Missing)
  /\ UNCHANGED <<team, saved, tmp>>

TeamChangesCode ==
  /\ team < MaxCode
  /\ team' = team + 1
  /\ UNCHANGED <<saved, tmp, proc, faults>>

\* What a run does by itself, with a user who knows the code and starts it again.
RunSteps(p) ==
  \/ ReadSaved(p) \/ CheckSaved(p) \/ readCode(p) \/ VerifyTyped(p)
  \/ WriteTemporary(p) \/ RenameTemporary(p) \/ RemoveTemporary(p) \/ Revoked(p)

AccessNext ==
  \/ TeamChangesCode
  \/ \E p \in Pids : RunSteps(p) \/ Mistype(p) \/ RunEnds(p)

AccessFairness == \A p \in Pids : WF_accessVars(RunSteps(p))
-----------------------------------------------------------------------------
(***************************************************************************)
(* Access is regained: once nothing goes wrong any more, every run that    *)
(* the user starts again and again ends up with the code the team has now, *)
(* whatever files crashed runs of the same pid have left and whichever     *)
(* code another run saves meanwhile.                                       *)
(***************************************************************************)
AccessRegained ==
  \A p \in Pids : <>[](proc[p].pc = "ready" /\ proc[p].code = team)
=============================================================================
