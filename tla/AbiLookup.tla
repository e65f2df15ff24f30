------------------------------- MODULE AbiLookup -------------------------------
(***************************************************************************)
(* What is a contract called, and what does a call of it say?  Checks ask  *)
(* BlockExplorerFactory.fetchContractAbi (utils/clients/block-explorers/   *)
(* factory.ts): a cache in memory, a cache file, then one provider after   *)
(* the other.  A report's calls go through caches of their own on top, in  *)
(* which a lookup under way is shared, and fall back to 4byte.directory    *)
(* (presentation/report.ts, function-signature-registry.ts).  Names come   *)
(* from the chain's explorer (getContractName, utils/clients/tenderly.ts). *)
(* All of it for one contract and one selector on one chain.               *)
(***************************************************************************)
EXTENDS Integers, Sequences, FiniteSets

CONSTANTS
  Inquiries,    \* lookups that run side by side
  Purposes,     \* bound: what they may be for
  Providers,    \* getExplorers and Sourcify, in the order they are asked
  Tries,        \* maxRetries, 3
  MaxRestarts   \* bound

ASSUME LookupAssumption ==
  /\ Purposes \subseteq [Inquiries -> {"check", "report", "name"}]
  /\ Providers \in Seq(STRING) /\ Providers # <<>>
  /\ Providers[Len(Providers)] = "Sourcify"
  /\ \A n \in DOMAIN Providers : Providers[n] \notin {"none", "unknown", "torn"}
  /\ Tries \in Nat \ {0} /\ MaxRestarts \in Nat
  /\ "no one" \notin Inquiries

VARIABLES
  purpose,      \* what each is for: "check", "report" or "name"
  verifiedAt,   \* the providers that have the contract
  inAbi,        \* its ABI has the selector; a proxy's may not
  listed,       \* 4byte.directory lists a signature of the selector
  abiMemory,    \* abiCache: the provider of the entry, "unknown" or "none"
  abiFile,      \* the cache file: likewise, or "torn"
  names,        \* contractNameCache and its file: "name", "none", "torn" or "old"
  abiCache,     \* CONTRACT_ABI_CACHE: "absent", "null" or "abi"
  abiPromise,   \* CONTRACT_ABI_PROMISE_CACHE: who asks, if someone does
  signatures,   \* selectorResultCache: "absent", "null" or "signature"
  sigPromise,   \* selectorPromiseCache: who asks
  inquiry,      \* the lookups
  restarts

lookupVars == <<purpose, verifiedAt, inAbi, listed, abiMemory, abiFile, names, abiCache,
                abiPromise, signatures, sigPromise, inquiry, restarts>>

NoOne == "no one"
Asleep == [at |-> "idle", provider |-> 0, try |-> 0, told |-> "nothing", source |-> "none"]

LookupInit ==
  /\ purpose \in Purposes
  /\ verifiedAt \in {{}, {Providers[1]}}
  /\ inAbi \in BOOLEAN
  /\ listed \in BOOLEAN
  /\ abiMemory = "none"
  /\ abiFile \in {"none", "unknown", "torn"}
  /\ names = [memory |-> "none", file |-> "none"]
  /\ abiCache = "absent" /\ abiPromise = NoOne
  /\ signatures = "absent" /\ sigPromise = NoOne
  /\ inquiry = [q \in Inquiries |-> Asleep]
  /\ restarts = 0
-----------------------------------------------------------------------------
World == UNCHANGED <<purpose, verifiedAt, inAbi, listed, restarts>>
Is(q, kind, place) == purpose[q] = kind /\ inquiry[q].at = place
PutAt(q, place) == [inquiry EXCEPT ![q].at = place]
Asks(q, n, try) == [inquiry EXCEPT ![q] = [@ EXCEPT !.at = "ask", !.provider = n, !.try = try]]
Told(q, what, source) ==
  [inquiry EXCEPT ![q] = [Asleep EXCEPT !.at = "answered", !.told = what, !.source = source]]

\* getAbiFromMemory, or else getAbiFromFile, which loads it.
Cached == IF abiMemory # "none" THEN abiMemory ELSE IF abiFile = "torn" THEN "none" ELSE abiFile

\* Of a report's lookups, the one that asks leaves the result to all.
Shared(place) ==
  [q \in Inquiries |-> IF purpose[q] = "report" /\ inquiry[q].at \in {"ask", "wait"}
                       THEN [inquiry[q] EXCEPT !.at = place] ELSE inquiry[q]]

\* fetchContractAbi has an ABI for q.
FoundAbi(q) ==
  IF purpose[q] = "check"
    THEN inquiry' = PutAt(q, "decode") /\ UNCHANGED <<abiCache, abiPromise>>
    ELSE inquiry' = Shared("decode") /\ abiCache' = "abi" /\ abiPromise' = NoOne

\* It has none; a report keeps that in mind, too.
Unfound(q) ==
  IF purpose[q] = "check"
    THEN inquiry' = Told(q, "nothing", "none") /\ UNCHANGED <<abiCache, abiPromise>>
    ELSE inquiry' = Shared("select") /\ abiCache' = "null" /\ abiPromise' = NoOne
-----------------------------------------------------------------------------
(* A lookup of an ABI.                                                     *)

BeginCheckLookup(q) ==
  /\ Is(q, "check", "idle")
  /\ IF Cached # "none" THEN inquiry' = PutAt(q, "decode")
                        ELSE inquiry' = Asks(q, 1, 1)
  /\ abiMemory' = Cached
  /\ UNCHANGED <<abiFile, names, abiCache, abiPromise, signatures, sigPromise>>
  /\ World

\* Mutant of Joins: whoever finds nothing in the cache asks.
JoinsNever == FALSE

\* Someone asks already: his promise is awaited.
Joins == abiPromise # NoOne

\* fetchContractAbiCached.
BeginReportLookup(q) ==
  /\ Is(q, "report", "idle")
  /\ IF abiCache # "absent"
       THEN /\ inquiry' = PutAt(q, IF abiCache = "abi" THEN "decode" ELSE "select")
            /\ UNCHANGED <<abiMemory, abiCache, abiPromise>>
     ELSE IF Joins
       THEN inquiry' = PutAt(q, "wait") /\ UNCHANGED <<abiMemory, abiCache, abiPromise>>
     ELSE /\ abiMemory' = Cached
          /\ IF Cached # "none" THEN FoundAbi(q)
             ELSE inquiry' = Asks(q, 1, 1) /\ abiPromise' = q /\ UNCHANGED abiCache
  /\ UNCHANGED <<abiFile, names, signatures, sigPromise>>
  /\ World

Asking(q) == purpose[q] # "name" /\ inquiry[q].at = "ask"
Provider(q) == Providers[inquiry[q].provider]
Knows(q) == Provider(q) \in verifiedAt
MayRetry(q) == inquiry[q].try < Tries
LastAsked(q) == inquiry[q].provider = Len(Providers)

\* On to the next provider, if there is one.
NextProvider(q) ==
  IF LastAsked(q) THEN Unfound(q)
  ELSE inquiry' = Asks(q, inquiry[q].provider + 1, 1) /\ UNCHANGED <<abiCache, abiPromise>>

\* Another lookup has filled the caches: an explorer looks there first.
HasMeanwhile(q) ==
  /\ Asking(q) /\ ~LastAsked(q) /\ inquiry[q].try = 1
  /\ Cached # "none"
  /\ abiMemory' = Cached
  /\ FoundAbi(q)
  /\ UNCHANGED <<abiFile, names, signatures, sigPromise>>
  /\ World

\* It has the ABI.  When the file cannot be written the ABI is in memory, and
\* the provider has failed.
ProviderAnswers(q) ==
  /\ Asking(q)
  /\ Knows(q)
  /\ abiMemory' = Provider(q)
  /\ \/ abiFile' = Provider(q) /\ FoundAbi(q)
     \/ UNCHANGED abiFile /\ NextProvider(q)
  /\ UNCHANGED <<names, signatures, sigPromise>>
  /\ World

ProviderHasNot(q) ==
  /\ Asking(q)
  /\ ~Knows(q)
  /\ NextProvider(q)
  /\ UNCHANGED <<abiMemory, abiFile, names, signatures, sigPromise>>
  /\ World

\* Explorers are asked again after a delay, unless the answer has another form.
ProviderFails(q) ==
  /\ Asking(q)
  /\ \/ /\ ~LastAsked(q) /\ MayRetry(q)
        /\ inquiry' = Asks(q, inquiry[q].provider, inquiry[q].try + 1)
        /\ UNCHANGED <<abiCache, abiPromise>>
     \/ NextProvider(q)
  /\ UNCHANGED <<abiMemory, abiFile, names, signatures, sigPromise>>
  /\ World

\* decodeFunctionWithAbi and decodeContractCall: the source is the one of the
\* cache's entry now, which another lookup may have replaced.
Decode(q) ==
  /\ inquiry[q].at = "decode"
  /\ inquiry' = IF inAbi THEN Told(q, "abi", abiMemory)
                ELSE IF purpose[q] = "report" THEN PutAt(q, "select")
                ELSE Told(q, "nothing", "none")
  /\ UNCHANGED <<abiMemory, abiFile, names, abiCache, abiPromise, signatures, sigPromise>>
  /\ World
-----------------------------------------------------------------------------
(* lookupFunctionSignatureBySelector.                                      *)

Registered(kept) == IF kept = "signature" THEN "4byte" ELSE "nothing"

BeginSelector(q) ==
  /\ inquiry[q].at = "select"
  /\ IF signatures # "absent"
       THEN inquiry' = Told(q, Registered(signatures), "none") /\ UNCHANGED sigPromise
     ELSE IF sigPromise # NoOne THEN inquiry' = PutAt(q, "share") /\ UNCHANGED sigPromise
     ELSE inquiry' = PutAt(q, "registry") /\ sigPromise' = q
  /\ UNCHANGED <<abiMemory, abiFile, names, abiCache, abiPromise, signatures>>
  /\ World

\* A failure, or too late an answer, is kept as "no signature".
RegistryAnswers(q) ==
  /\ inquiry[q].at = "registry"
  /\ \E answer \in {"null"} \cup (IF listed THEN {"signature"} ELSE {}) :
       /\ signatures' = answer
       /\ inquiry' = [p \in Inquiries |->
            IF inquiry[p].at \in {"registry", "share"}
              THEN [Asleep EXCEPT !.at = "answered", !.told = Registered(answer)]
              ELSE inquiry[p]]
  /\ sigPromise' = NoOne
  /\ UNCHANGED <<abiMemory, abiFile, names, abiCache, abiPromise>>
  /\ World
-----------------------------------------------------------------------------
(* fetchContractNameCached.                                                *)

\* A file that is too old or cannot be read is deleted.
BeginName(q) ==
  /\ Is(q, "name", "idle")
  /\ LET file == IF names.file = "name" THEN "name" ELSE "none" IN
     IF names.memory = "name" THEN inquiry' = Told(q, "name", "none") /\ UNCHANGED names
     ELSE /\ names' = [memory |-> file, file |-> file]
          /\ inquiry' = IF file = "name" THEN Told(q, "name", "none") ELSE Asks(q, 1, 1)
  /\ UNCHANGED <<abiMemory, abiFile, abiCache, abiPromise, signatures, sigPromise>>
  /\ World

AskingName(q) == Is(q, "name", "ask")
OnlyNames ==
  /\ UNCHANGED <<abiMemory, abiFile, abiCache, abiPromise, signatures, sigPromise>>
  /\ World

\* It is kept; when the file cannot be written, in memory only, and the caller
\* gets the exception.
NameAnswers(q) ==
  /\ AskingName(q)
  /\ Knows(q)
  /\ \/ names' = [memory |-> "name", file |-> "name"] /\ inquiry' = Told(q, "name", "none")
     \/ names' = [names EXCEPT !.memory = "name"] /\ inquiry' = Told(q, "failed", "none")
  /\ OnlyNames

\* Only the chain's explorer is asked, and that there is no name is not kept.
NameUnknown(q) ==
  /\ AskingName(q)
  /\ inquiry' \in {Told(q, "nothing", "none")} \cup
                  (IF MayRetry(q) THEN {Asks(q, 1, inquiry[q].try + 1)} ELSE {})
  /\ UNCHANGED names
  /\ OnlyNames
-----------------------------------------------------------------------------
\* The contract becomes known to a provider.
IsVerified(p) ==
  /\ verifiedAt' = verifiedAt \cup {p}
  /\ p \notin verifiedAt
  /\ UNCHANGED <<purpose, inAbi, listed, abiMemory, abiFile, names, abiCache, abiPromise,
                 signatures, sigPromise, inquiry, restarts>>

AskedAgain(q) ==
  /\ inquiry[q].at = "answered"
  /\ inquiry' = [inquiry EXCEPT ![q] = Asleep]
  /\ UNCHANGED <<abiMemory, abiFile, names, abiCache, abiPromise, signatures, sigPromise>>
  /\ World

\* The process ends, perhaps as it writes, and another one starts, perhaps after
\* CONTRACT_NAME_TTL_MS.
LookupRestart ==
  /\ restarts < MaxRestarts
  /\ restarts' = restarts + 1
  /\ inquiry' = [q \in Inquiries |-> Asleep]
  /\ abiMemory' = "none"
  /\ abiFile' \in {abiFile} \cup
       (IF \E q \in Inquiries : Asking(q) /\ Knows(q) THEN {"torn"} ELSE {})
  /\ \E file \in {names.file} \cup (IF names.file = "name" THEN {"old"} ELSE {}) \cup
       (IF \E q \in Inquiries : AskingName(q) /\ Knows(q) THEN {"torn"} ELSE {}) :
       names' = [memory |-> "none", file |-> file]
  /\ abiCache' = "absent" /\ abiPromise' = NoOne
  /\ signatures' = "absent" /\ sigPromise' = NoOne
  /\ UNCHANGED <<purpose, verifiedAt, inAbi, listed>>

LookupNext ==
  \/ \E q \in Inquiries :
       \/ BeginCheckLookup(q) \/ BeginReportLookup(q) \/ HasMeanwhile(q)
       \/ ProviderAnswers(q) \/ ProviderHasNot(q) \/ ProviderFails(q) \/ Decode(q)
       \/ BeginSelector(q) \/ RegistryAnswers(q)
       \/ BeginName(q) \/ NameAnswers(q) \/ NameUnknown(q) \/ AskedAgain(q)
  \/ \E n \in DOMAIN Providers : IsVerified(Providers[n])
  \/ LookupRestart

LookupSpec == LookupInit /\ [][LookupNext]_lookupVars
-----------------------------------------------------------------------------
(***************************************************************************)
(* Lookups that run into each other neither double nor strand one another, *)
(* and none makes anything up.  One call of a report at most asks for the  *)
(* ABI, and one for the signature; whoever waits waits for someone who is  *)
(* asking.  A source that is named has the contract; an ABI, a signature or*)
(* a name that is told was given by someone who has it, or by a file.      *)
(***************************************************************************)
LookupsAreShared ==
  /\ \A q \in Inquiries :
       /\ purpose[q] = "report" /\ inquiry[q].at = "ask" => abiPromise = q
       /\ inquiry[q].at = "registry" => sigPromise = q
       /\ inquiry[q].at = "wait" =>
            abiPromise # NoOne /\ inquiry[abiPromise].at = "ask"
       /\ inquiry[q].at = "share" =>
            sigPromise # NoOne /\ inquiry[sigPromise].at = "registry"
       /\ inquiry[q].source \notin {"none", "unknown"} => inquiry[q].source \in verifiedAt
       /\ inquiry[q].told = "abi" => abiMemory # "none"
       /\ inquiry[q].told = "4byte" => listed
       /\ inquiry[q].told = "name" => Providers[1] \in verifiedAt
       /\ purpose[q] = "check" /\ inquiry[q].at = "decode" => abiMemory # "none"
  /\ abiMemory \notin {"none", "unknown"} => abiMemory \in verifiedAt
  /\ abiCache = "abi" => abiMemory # "none"
=============================================================================
