---------------------------- MODULE UploadAndShare ----------------------------
(***************************************************************************)
(* From the artifact on disk to the page that shows it.  Publishing is     *)
(* asked for by `bun upload' (scripts/upload.ts) and by the share button   *)
(* (frontend/src/app/api/share-link/route.ts), both with the hash of what  *)
(* they send as idempotency key and both with a timeout after which the    *)
(* relay goes on alone.  Somebody runs them again.  The relay is here what *)
(* IdempotentPublish promises of one instance: a slot per key.             *)
(***************************************************************************)
EXTENDS RuntimePublisher, ReportViewer

CONSTANTS
  Runs,               \* runs of the upload command and clicks of the button
  Artifacts,          \* contents that simulations write to the results file
  LookupWorks         \* bound: whether writes of lookup records may fail

VARIABLES
  file,     \* frontend/public/simulation-results.json
  run,      \* each run: what it read and what it came to
  log,      \* the publish log of the upload command
  slot,     \* the relay's record of each key
  lookup    \* publish ids that the relay resolves

clients == <<file, run, log>>
vars == <<publishing, clients, slot, lookup>>

NewRun == [pc |-> "idle", via |-> None, raw |-> None, dir |-> FALSE,
           exec |-> None, link |-> None]

\* buildRelayPublishArtifactRaw on what each side's schema returns: zod writes
\* the keys it knows first, and the two schemas know different ones.
Raw(a, via) == [artifact |-> a, via |-> via]

ASSUME UploadAssumption ==
  /\ [artifact: Artifacts, via: {"cli", "share"}] \subseteq Raws
  /\ None \notin Runs

\* parseSimulationResultsJson (frontend/src/lib/simulation-results.ts)
Parses(f) == f \in Artifacts \cup {"loose"}

\* validatePublishArtifact: it asks for a structured report with metadata and
\* for a single result, which the frontend does not.
Publishable(f) == f \in Artifacts

Init ==
  /\ PublisherInit
  /\ file \in Artifacts \cup {"loose", "invalid", None}
  /\ run = [r \in Runs |-> NewRun]
  /\ log = {}
  /\ slot = [k \in Raws \cup Runs |-> None]
  /\ lookup = {}

Go(r, new) == run' = [run EXCEPT ![r] = new]
End(r) == Go(r, [run[r] EXCEPT !.pc = "ended"])

\* A simulation run writes the results file.
Resimulate ==
  /\ \E a \in Artifacts : a # file /\ file' = a
  /\ UNCHANGED <<publishing, run, log, slot, lookup>>

\* runUpload or the share button without a file that it takes.
ArtifactRejected(r) ==
  /\ run[r].pc = "idle"
  /\ ~Publishable(file)
  /\ End(r)
  /\ UNCHANGED <<publishing, file, log, slot, lookup>>

\* runUpload without --publish, or with --validate-only: the mode that is
\* logged looks at --publish alone.
ValidateOnly(r) ==
  /\ run[r].pc = "idle"
  /\ Publishable(file)
  /\ \E mode \in {"validate-only", "managed-relay"} :
       log' = log \cup {[raw |-> Raw(file, "cli"), mode |-> mode]}
  /\ End(r)
  /\ UNCHANGED <<publishing, file, slot, lookup>>

Sends(r, via) ==
  Go(r, [run[r] EXCEPT !.pc = "posting", !.via = via, !.raw = Raw(file, via)])

\* runUpload with --publish: the log entry, then the request.
Upload(r) ==
  /\ run[r].pc = "idle"
  /\ Publishable(file)
  /\ log' = log \cup {[raw |-> Raw(file, "cli"), mode |-> "managed-relay"]}
  /\ Sends(r, "cli")
  /\ UNCHANGED <<publishing, file, slot, lookup>>

\* runUpload with --publish-provider vercel: the log entry, a deploy directory
\* and the Vercel CLI in it, past the relay.
DeployDirectly(r) ==
  /\ run[r].pc = "idle"
  /\ Publishable(file)
  /\ log' = log \cup {[raw |-> Raw(file, "disk"), mode |-> "byo-vercel"]}
  /\ Go(r, [run[r] EXCEPT !.pc = "deploying", !.dir = TRUE])
  /\ UNCHANGED <<publishing, file, slot, lookup>>

\* The CLI ends, well or not, and the directory goes; unless the run is killed.
DeployEnds(r) ==
  /\ run[r].pc = "deploying"
  /\ \E kept \in BOOLEAN : Go(r, [run[r] EXCEPT !.pc = "ended", !.dir = kept])
  /\ UNCHANGED <<publishing, file, log, slot, lookup>>

\* POST /api/share-link.
Share(r) ==
  /\ run[r].pc = "idle"
  /\ Parses(file)
  /\ Sends(r, "share")
  /\ UNCHANGED <<publishing, file, log, slot, lookup>>

\* Mutant of Key: the publish id that createPublishMetadata draws for the run.
KeyOfRun(r) == r

Key(r) == run[r].raw

\* The request reaches the relay, perhaps after its sender has given up.
Accept(r) ==
  /\ run[r].raw # None /\ run[r].exec = None
  /\ Publishable(run[r].raw.artifact)
  /\ IF slot[Key(r)] # None
       THEN /\ run' = [run EXCEPT ![r].exec = slot[Key(r)]]
            /\ UNCHANGED <<exec, slot>>
       ELSE \E e \in Execs :
              /\ exec[e].pc = "idle"
              /\ Step(e, [exec[e] EXCEPT !.pc = "creating", !.raw = run[r].raw])
              /\ slot' = [slot EXCEPT ![Key(r)] = e]
              /\ run' = [run EXCEPT ![r].exec = e]
  /\ UNCHANGED <<ready, alias, file, log, lookup>>

\* Too large a payload, 400, 413, 429 or an unreachable relay.
NotAccepted(r) ==
  /\ run[r].pc = "posting" /\ run[r].exec = None
  /\ Go(r, [run[r] EXCEPT !.pc = "ended", !.raw = None])
  /\ UNCHANGED <<publishing, file, log, slot, lookup>>

\* The relay writes the lookup record of a publish that returned.
Record(e) ==
  /\ exec[e].pc = "returned"
  /\ Step(e, [exec[e] EXCEPT !.pc = "recorded"])
  /\ \/ lookup' = lookup \cup {e}
     \/ ~LookupWorks /\ UNCHANGED lookup
  /\ UNCHANGED <<ready, alias, clients, slot>>

\* A failed execution frees its key.
Release(k) ==
  /\ slot[k] # None /\ exec[slot[k]].pc = "failed"
  /\ slot' = [slot EXCEPT ![k] = None]
  /\ UNCHANGED <<publishing, clients, lookup>>

\* The link a sender makes of the answer: pretty if the publish id resolves.
ShareUrl(e) ==
  [kind |-> IF e \in lookup THEN "pretty" ELSE "canonical", exec |-> e]

\* The answer of the relay: 201, or 502 if the execution failed.
Answered(r) ==
  LET e == run[r].exec IN
  /\ run[r].pc = "posting" /\ e # None
  /\ exec[e].pc \in {"recorded", "failed"}
  /\ Go(r, [run[r] EXCEPT
              !.pc = "ended",
              !.link = IF exec[e].pc = "failed" THEN None
                       ELSE ShareUrl(e)])
  /\ UNCHANGED <<publishing, file, log, slot, lookup>>

\* The abort timer of the sender, a lost answer, or the sender is killed.
GivesUp(r) ==
  /\ run[r].pc = "posting"
  /\ End(r)
  /\ UNCHANGED <<publishing, file, log, slot, lookup>>

Next ==
  \/ Resimulate
  \/ PublisherNext /\ UNCHANGED <<clients, slot, lookup>>
  \/ \E r \in Runs : \/ ArtifactRejected(r) \/ ValidateOnly(r) \/ Upload(r)
                     \/ Share(r) \/ DeployDirectly(r) \/ DeployEnds(r)
                     \/ Accept(r) \/ NotAccepted(r)
                     \/ Answered(r) \/ GivesUp(r)
  \/ \E e \in Execs : Record(e)
  \/ \E k \in DOMAIN slot : Release(k)

Spec == Init /\ [][Next]_vars
-----------------------------------------------------------------------------
\* The deployment whose files an execution's artifact and metadata URLs serve.
Serving(e) == IF exec[e].base = "alias" THEN alias[Host(e)] ELSE e

Fetched(d) == IF d \in ready THEN exec[d].raw ELSE Nothing
MetadataOf(d) == IF d \in ready THEN Metadata(d, exec[d].raw) ELSE Nothing

\* The pages a link may open now; the metadata may fail to be fetched.
Pages(link) ==
  LET d == Serving(link.exec) IN
  {IF link.kind = "pretty"
     THEN ByPublishId([id |-> link.exec, hash |-> exec[link.exec].raw],
                      Fetched(d), m)
     ELSE ByArtifact(Fetched(d), m) : m \in {MetadataOf(d), Nothing}}

(***************************************************************************)
(* A link that was given out shows, whenever it shows anything, exactly    *)
(* what its run had read from the results file, and is not blocked: not    *)
(* when the alias was answered with 409, not when the publish fell back to *)
(* the deployment's URL, not when a rerun was answered from the first one. *)
(***************************************************************************)
LinkShowsWhatWasSent ==
  \A r \in Runs :
    run[r].link # None =>
      \A p \in Pages(run[r].link) :
        p # Failed => p.shown = run[r].raw /\ p.trust # "blocked"

(***************************************************************************)
(* An artifact that any run has sent is published at most once, however    *)
(* often runs are repeated after a timeout that the relay did not notice;  *)
(* only a failed execution leaves room for another one.                    *)
(***************************************************************************)
RerunsPublishOnce ==
  \A d, e \in Execs :
    /\ exec[d].raw # None /\ exec[d].raw = exec[e].raw
    /\ exec[d].pc # "failed" /\ exec[e].pc # "failed"
    => d = e
-----------------------------------------------------------------------------
(* Why the properties hold.                                                *)

Sent == [artifact: Artifacts \cup {"loose"}, via: {"cli", "share"}]
Links == [kind: {"pretty", "canonical"}, exec: Execs]

ClientTypes ==
  /\ file \in Artifacts \cup {"loose", "invalid", None}
  /\ run \in [Runs ->
               [pc: {"idle", "posting", "deploying", "ended"},
                via: {"cli", "share", None}, raw: Sent \cup {None},
                dir: BOOLEAN, exec: Execs \cup {None}, link: Links \cup {None}]]
  /\ slot \in [Raws \cup Runs -> Execs \cup {None}]
  /\ lookup \subseteq Execs

\* What is being published, or has been, holds the slot of its artifact.
SlotIsHeld ==
  \A e \in Execs :
    /\ exec[e].raw = None <=> exec[e].pc = "idle"
    /\ exec[e].raw # None /\ exec[e].pc # "failed" => slot[exec[e].raw] = e

\* A slot is held by an execution of its key.
HolderFits ==
  \A k \in DOMAIN slot : slot[k] # None => exec[slot[k]].raw = k

\* A run waits for an execution of what it sent, and its link leads to it.
RunIsServed ==
  \A r \in Runs :
    /\ run[r].pc = "idle" => run[r].raw = None /\ run[r].exec = None
    /\ run[r].exec # None =>
         run[r].raw # None /\ exec[run[r].exec].raw = run[r].raw
    /\ run[r].link # None => run[r].exec # None /\ run[r].link.exec = run[r].exec

ShareInv ==
  PublisherInv /\ ClientTypes /\ SlotIsHeld /\ HolderFits /\ RunIsServed
=============================================================================
