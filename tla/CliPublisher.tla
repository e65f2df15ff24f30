----------------------------- MODULE CliPublisher -----------------------------
(***************************************************************************)
(* defaultRelayPublisher and defaultRunCommand (relay/server.ts): an       *)
(* execution of the relay writes a directory, runs `vercel deploy' in it   *)
(* under a deadline, and removes the directory before it answers.  Two     *)
(* promises race for the result: one waits for the command's exit and the  *)
(* ends of its outputs, the other for the deadline and those ends.         *)
(***************************************************************************)
CONSTANTS Execs     \* executions of the relay that publish through the CLI

VARIABLES deploy    \* what each execution holds, sees and has answered

Pipes == {"stdout", "stderr"}

\* `code' is how the command ended, `seen' whether child.exited has settled,
\* `open' the outputs not read to their ends, `link' the best address printed.
\* `up' (Vercel serves the deployment) and `unready' (the directory was left
\* half written) are histories.
NewDeploy == [pc |-> "idle", dir |-> FALSE, child |-> "none", killed |-> FALSE,
              code |-> "none", seen |-> FALSE, open |-> {}, link |-> "none",
              timer |-> "off", up |-> FALSE, unready |-> FALSE,
              answer |-> "none"]

CliInit == deploy = [d \in Execs |-> NewDeploy]

Becomes(d, r) == deploy' = [deploy EXCEPT ![d] = r]

\* readManagedVercelEnv throws: nothing was written yet.
Misconfigured(d) ==
  /\ deploy[d].pc = "idle"
  /\ Becomes(d, [deploy[d] EXCEPT !.pc = "answered", !.answer = "failed"])

\* prepareDeployDirectory throws between mkdtemp and its last file, outside of
\* the try block whose finally removes the directory.
PreparationFails(d) ==
  /\ deploy[d].pc = "idle"
  /\ Becomes(d, [deploy[d] EXCEPT !.pc = "answered", !.answer = "failed",
                                  !.dir = TRUE, !.unready = TRUE])

\* The directory is there, but no CLI is (ENOENT): it is removed again.
CliMissing(d) ==
  /\ deploy[d].pc = "idle"
  /\ Becomes(d, [deploy[d] EXCEPT !.pc = "answered", !.answer = "failed"])

\* Bun.spawn, and the timer that follows it.
Spawn(d) ==
  /\ deploy[d].pc = "idle"
  /\ Becomes(d, [deploy[d] EXCEPT !.pc = "running", !.dir = TRUE,
                                  !.child = "runs", !.open = Pipes,
                                  !.timer = "set"])

\* The command has Vercel bring the deployment up ...
GoesLive(d) ==
  /\ deploy[d].child = "runs" /\ ~deploy[d].up
  /\ Becomes(d, [deploy[d] EXCEPT !.up = TRUE])

\* ... prints addresses, an inspection page's or the deployment's ...
Prints(d) ==
  /\ deploy[d].child = "runs" /\ deploy[d].open # {}
  /\ \E l \in {"other", "deployment"} :
       /\ deploy[d].link \notin {l, "deployment"}
       /\ Becomes(d, [deploy[d] EXCEPT !.link = l])

\* ... and ends: well if the deployment is up, badly, or by the signal.
Exits(d) ==
  /\ deploy[d].child = "runs"
  /\ \E c \in {"zero", "error", "signal"} :
       /\ c = "zero" => deploy[d].up
       /\ c = "signal" => deploy[d].killed
       /\ Becomes(d, [deploy[d] EXCEPT !.child = "ended", !.code = c])

\* Promise.race: the completion was asked for first, so it also wins when the
\* last output's end settles both.
Completed(r) == r.seen /\ r.open = {}
TimedOut(r) == ~r.seen /\ r.timer = "fired" /\ r.open = {}

\* The rest of defaultRelayPublisher; extractDeploymentUrl takes the last
\* address of Vercel, else the last address at all.
Outcome(r) ==
  IF TimedOut(r) THEN "timeout"
  ELSE IF r.code = "zero" /\ r.link # "none" THEN "published"
  ELSE "failed"

\* What happened is r; when that settles the race, the timer is cleared, the
\* directory removed and the answer given before anything else happens.
Happens(d, r) ==
  IF Completed(r) \/ TimedOut(r)
    THEN Becomes(d, [r EXCEPT !.pc = "answered", !.answer = Outcome(r),
                              !.dir = FALSE])
    ELSE Becomes(d, r)

\* child.exited settles.
ExitSeen(d) ==
  /\ deploy[d].pc = "running"
  /\ deploy[d].child = "ended" /\ ~deploy[d].seen
  /\ Happens(d, [deploy[d] EXCEPT !.seen = TRUE])

\* An output is read to its end: the command has ended or has closed it.
PipeEnds(d, p) ==
  /\ deploy[d].pc = "running"
  /\ p \in deploy[d].open
  /\ Happens(d, [deploy[d] EXCEPT !.open = @ \ {p}])

\* Mutant of TimerFires: the command is not told to stop.
TimerFiresOnly(d) ==
  /\ deploy[d].pc = "running" /\ deploy[d].timer = "set"
  /\ Happens(d, [deploy[d] EXCEPT !.timer = "fired"])

\* The deadline: child.kill(), which a command that has ended does not feel.
TimerFires(d) ==
  /\ deploy[d].pc = "running" /\ deploy[d].timer = "set"
  /\ Happens(d, [deploy[d] EXCEPT !.timer = "fired",
                                  !.killed = deploy[d].child = "runs"])

CliNext ==
  \E d \in Execs :
    \/ Misconfigured(d) \/ PreparationFails(d) \/ CliMissing(d) \/ Spawn(d)
    \/ GoesLive(d) \/ Prints(d) \/ Exits(d)
    \/ ExitSeen(d) \/ TimerFires(d) \/ \E p \in Pipes : PipeEnds(d, p)

CliSpec == CliInit /\ [][CliNext]_deploy
-----------------------------------------------------------------------------
ExitCodes == {"none", "zero", "error", "signal"}

Deploys ==
  [pc: {"idle", "running", "answered"}, dir: BOOLEAN,
   child: {"none", "runs", "ended"}, killed: BOOLEAN, code: ExitCodes,
   seen: BOOLEAN, open: SUBSET Pipes, link: {"none", "other", "deployment"},
   timer: {"off", "set", "fired"}, up: BOOLEAN, unready: BOOLEAN,
   answer: {"none", "published", "timeout", "failed"}]

CliTypeOK == deploy \in [Execs -> Deploys]

(***************************************************************************)
(* What an answer says is done is done, in whatever order the deadline,    *)
(* the exit and the outputs were seen: the directory is gone, unless       *)
(* writing it failed, the command has ended or was told to, and an address *)
(* is one that is up.  A command that nobody told to stop is watched, and  *)
(* its directory is still there.                                           *)
(***************************************************************************)
AnsweredIsDone ==
  \A d \in Execs :
    /\ (deploy[d].pc = "answered" /\ ~deploy[d].unready) => ~deploy[d].dir
    /\ deploy[d].answer = "published" => deploy[d].up /\ deploy[d].code = "zero"
    /\ (deploy[d].child = "runs" /\ ~deploy[d].killed) =>
         deploy[d].pc = "running" /\ deploy[d].dir
=============================================================================
