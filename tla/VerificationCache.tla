--------------------------- MODULE VerificationCache ---------------------------
(***************************************************************************)
(* Is a contract's source published?  BlockExplorerFactory.                *)
(* getContractVerification (utils/clients/block-explorers/factory.ts) asks *)
(* a cache in memory, a cache file that processes share, Sourcify, and the *)
(* chain's explorer, which is asked again when it fails.  Lookups of one   *)
(* contract run side by side; publication cannot be undone; time is kept   *)
(* as ages, which stop where nothing more depends on them.                 *)
(***************************************************************************)
EXTENDS Integers, FiniteSets

CONSTANTS
  Procs,              \* processes, one after the other or side by side
  Lookups,            \* lookups of the contract
  Home,               \* the process of each lookup
  VerifiedTTL,        \* VERIFIED_TTL_MS, 30 days
  UnverifiedTTL,      \* UNVERIFIED_TTL_MS, 1 day
  MaxRetries,         \* maxRetries, 3
  MaxCrashes          \* bound

ASSUME CacheAssumption ==
  /\ Home \in [Lookups -> Procs]
  /\ {VerifiedTTL, UnverifiedTTL, MaxRetries} \subseteq Nat \ {0}
  /\ MaxCrashes \in Nat

VARIABLES
  onSourcify,   \* the source is published at Sourcify
  onExplorer,   \* age of its publication at the explorer, or Unpublished
  backend,      \* "explorer", or "none" for a chain without one
  memory,       \* verificationCache of each process
  file,         \* the cache file: an entry, or what is left of one
  matched,      \* processes whose Sourcify client keeps a match
  look,         \* the lookups
  crashes

cacheVars ==
  <<onSourcify, onExplorer, backend, memory, file, matched, look, crashes>>

Unpublished == -1
OldAge == UnverifiedTTL + 1
NoEntry == [verified |-> FALSE, backend |-> "absent", age |-> 0]
Torn == [verified |-> FALSE, backend |-> "torn", age |-> 0]
Entry(verified, age) == [verified |-> verified, backend |-> backend, age |-> age]
NewLookup == [pc |-> "idle", attempt |-> 0, status |-> "none"]

CacheInit ==
  /\ onSourcify \in BOOLEAN
  /\ onExplorer \in {Unpublished, 0}
  /\ backend \in {"explorer", "none"}
  /\ memory = [p \in Procs |-> NoEntry]
  /\ file \in {NoEntry, Torn, [verified |-> FALSE, backend |-> "other", age |-> 0]}
  /\ matched = {}
  /\ look = [l \in Lookups |-> NewLookup]
  /\ crashes = 0

Look(l, pc, attempt, status) ==
  look' = [look EXCEPT ![l] = [pc |-> pc, attempt |-> attempt, status |-> status]]

Answer(l, status) == Look(l, "answered", 0, status)
StatusOf(verified) == IF verified THEN "verified" ELSE "unverified"

Expired(e) == e.age > (IF e.verified THEN VerifiedTTL ELSE UnverifiedTTL)
Usable(e) == e.backend \notin {"absent", "torn"} /\ ~Expired(e)
Kept(e) == IF Usable(e) THEN e ELSE NoEntry

\* Mutant of Loaded: an entry from the file starts a new life in memory.
LoadedAnew(e) == [e EXCEPT !.age = 0]

\* setVerificationEntryInMemory with the entry of the file, timestamp and all.
Loaded(e) == e

\* Memory, then the file; what cannot be used is deleted from both, and what
\* another backend has said is passed over.
ReadCaches(l) ==
  LET p == Home[l] m == Kept(memory[p]) f == Kept(file) IN
  /\ look[l].pc = "idle"
  /\ IF m.backend = backend
       THEN /\ Answer(l, StatusOf(m.verified))
            /\ UNCHANGED <<memory, file>>
       ELSE /\ file' = f
            /\ IF f.backend = backend
                 THEN /\ memory' = [memory EXCEPT ![p] = Loaded(f)]
                      /\ Answer(l, StatusOf(f.verified))
                 ELSE /\ memory' = [memory EXCEPT ![p] = m]
                      /\ Look(l, "sourcify", 0, "none")
  /\ UNCHANGED <<onSourcify, onExplorer, backend, matched, crashes>>

\* setVerificationCache; a file that cannot be written is only warned about.
Store(l, verified) ==
  /\ memory' = [memory EXCEPT ![Home[l]] = Entry(verified, 0)]
  /\ file' \in {Entry(verified, 0), file}
  /\ Answer(l, StatusOf(verified))

\* Sourcify has it, or its client has kept the match.
SourcifyMatches(l) ==
  /\ look[l].pc = "sourcify"
  /\ onSourcify \/ Home[l] \in matched
  /\ matched' = matched \cup {Home[l]}
  /\ Store(l, TRUE)
  /\ UNCHANGED <<onSourcify, onExplorer, backend, crashes>>

\* No match, or no answer, which counts as none; on to the explorer.
SourcifyDoesNot(l) ==
  /\ look[l].pc = "sourcify"
  /\ Home[l] \notin matched
  /\ IF backend = "none" THEN Answer(l, "unknown")
                         ELSE Look(l, "explorer", 1, "none")
  /\ UNCHANGED <<onSourcify, onExplorer, backend, memory, file, matched, crashes>>

ExplorerAnswers(l) ==
  /\ look[l].pc = "explorer"
  /\ Store(l, onExplorer # Unpublished)
  /\ UNCHANGED <<onSourcify, onExplorer, backend, matched, crashes>>

\* Failures are not cached.
GiveUp(l) == Answer(l, "unknown") /\ UNCHANGED <<memory, file>>

\* The request fails: again after a delay, or never when the answer has another
\* form or, from Blockscout, says 404.
ExplorerFails(l) ==
  /\ look[l].pc = "explorer"
  /\ \/ /\ look[l].attempt < MaxRetries
        /\ Look(l, "explorer", look[l].attempt + 1, "none")
        /\ UNCHANGED <<memory, file>>
     \/ GiveUp(l)
  /\ UNCHANGED <<onSourcify, onExplorer, backend, matched, crashes>>

\* The check has used the answer; another check asks again.
AskAgain(l) ==
  /\ look[l].pc = "answered"
  /\ Look(l, "idle", 0, "none")
  /\ UNCHANGED <<onSourcify, onExplorer, backend, memory, file, matched, crashes>>

\* A process ends, perhaps within writeFileSync, and another one starts.
ProcessEnds(p) ==
  /\ crashes < MaxCrashes
  /\ crashes' = crashes + 1
  /\ memory' = [memory EXCEPT ![p] = NoEntry]
  /\ matched' = matched \ {p}
  /\ file' \in {file} \cup (IF \E l \in Lookups : /\ Home[l] = p
                                                  /\ look[l].pc \in {"sourcify", "explorer"}
                            THEN {Torn} ELSE {})
  /\ look' = [l \in Lookups |-> IF Home[l] = p THEN NewLookup ELSE look[l]]
  /\ UNCHANGED <<onSourcify, onExplorer, backend>>

Publish ==
  /\ \/ ~onSourcify /\ onSourcify' = TRUE /\ UNCHANGED onExplorer
     \/ onExplorer = Unpublished /\ onExplorer' = 0 /\ UNCHANGED onSourcify
  /\ UNCHANGED <<backend, memory, file, matched, look, crashes>>

Older(e) ==
  IF e.backend \in {"absent", "torn"} \/ Expired(e) THEN e
  ELSE [e EXCEPT !.age = @ + 1]

\* A day's part passes; an answer is used at once.
CacheTick ==
  /\ \A l \in Lookups : look[l].pc # "answered"
  /\ onExplorer' = IF onExplorer \in {Unpublished, OldAge} THEN onExplorer
                   ELSE onExplorer + 1
  /\ memory' = [p \in Procs |-> Older(memory[p])]
  /\ file' = Older(file)
  /\ UNCHANGED <<onSourcify, backend, matched, look, crashes>>

CacheNext ==
  \/ Publish \/ CacheTick
  \/ \E p \in Procs : ProcessEnds(p)
  \/ \E l \in Lookups :
       \/ ReadCaches(l) \/ SourcifyMatches(l) \/ SourcifyDoesNot(l)
       \/ ExplorerAnswers(l) \/ ExplorerFails(l) \/ AskAgain(l)

CacheSpec == CacheInit /\ [][CacheNext]_cacheVars
-----------------------------------------------------------------------------
\* checkVerificationStatuses warns of a contract.
Warns(l) == look[l].status \in {"unverified", "unknown"}

(***************************************************************************)
(* What a report says of a contract's source is warranted, whichever       *)
(* caches, failures, crashes and other lookups stood between: a contract   *)
(* published nowhere is always warned about, and one that has been at the  *)
(* explorer for longer than an "unverified" may be kept is never called so.*)
(***************************************************************************)
VerdictIsWarranted ==
  \A l \in Lookups :
    look[l].pc = "answered" =>
      /\ (~onSourcify /\ onExplorer = Unpublished) => Warns(l)
      /\ look[l].status = "unverified" =>
           onExplorer \in {Unpublished} \cup 0..UnverifiedTTL
=============================================================================
