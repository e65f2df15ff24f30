--------------------------- MODULE StorageEvidence ---------------------------
(***************************************************************************)
(* How words of storage are read and written in terms of source code.      *)
(* checkStateChanges names the fields that a simulation changed when the   *)
(* verified layout of the code that wrote them is at hand                  *)
(* (checks/check-state-changes.ts, utils/storage-layout.ts).  The calls    *)
(* that a chain is sent are simulated and checked one after another, their *)
(* results are merged (utils/check-results.ts), and the report takes its   *)
(* list from the merged lines (presentation/report.ts).  encodeRpcState    *)
(* packs named fields into the words of an override                        *)
(* (utils/clients/rpc-storage.ts).  Differences that Tenderly labels by    *)
(* itself are left out.                                                    *)
(***************************************************************************)
EXTENDS Integers, SequencesExt

CONSTANTS
  Traces,     \* call trees: frames [parent, kind, to, input, failed] in preorder
  Layouts,    \* code -> fields [slot, part, kind] of its verified layout
  Libraries,  \* code -> libraries linked into it
  Setters,    \* codes with a function that stores a mapping's value by key
  MaxCalls,   \* bound: calls that a chain is sent
  MaxWrites,  \* bound: writes of all of them
  Overrides,  \* lists of [slot, part, value] to encode
  Chain,      \* slot -> word at the pinned block, for encoding
  Governor, ExecutedFlag  \* the governor's address; the word of an executed flag

\* A word holds two fields and bits that belong to none.
Parts == {"low", "high", "gap"}
Values == 0..2
Word == [Parts -> Values]
Empty == [p \in Parts |-> 0]

\* Fields are encoded into slots of the layout, which the chain has.
ASSUME StorageAssumption ==
  /\ Chain \in [DOMAIN Chain -> Word]
  /\ Overrides \subseteq Seq([slot : DOMAIN Chain, part : Parts, value : Int])
  /\ MaxCalls \in Nat /\ MaxWrites \in Nat

VARIABLES
  frames,    \* the trace of the call that is simulated
  verified,  \* codes whose layout an explorer's source reproduces
  original,  \* address -> slot -> word before this call
  storage,   \* and after its writes so far
  writers,   \* history: [address, code] of every write of this call that stays
  writes,    \* how many there were of all calls
  checked,   \* whether this call has been checked
  results,   \* per checked call: the check's lines, or what it says instead
  history,   \* per checked call: the words that it changed, and by which codes
  overrides, encoded  \* the fields to encode, the words or "thrown"

storageVars ==
  <<frames, verified, original, storage, writers, writes, checked, results, history,
    overrides, encoded>>

NotEncoded == [state |-> "none", words |-> <<>>]
Addresses == {f.to : f \in UNION {ToSet(t) : t \in Traces}}
\* Slot m.k is where the mapping of a Setter keeps key k.
MappingSlot(key) == "m." \o key
Slots == {"s0"} \cup {MappingSlot(k) : k \in {"k1", "k2"}}
-----------------------------------------------------------------------------
(* The trace.                                                              *)

Delegates(n) == frames[n].kind = "DELEGATECALL"
LiveFrame[n \in Nat] == IF n = 0 THEN TRUE ELSE ~frames[n].failed /\ LiveFrame[frames[n].parent]
\* Whose storage a frame works on: a delegate call keeps its caller's.
Context[n \in Nat] == IF Delegates(n) THEN Context[frames[n].parent] ELSE frames[n].to

\* A proxy that hands its own calldata on; library calls have other calldata.
Forwards(n) ==
  \E m \in DOMAIN frames : /\ frames[m].parent = n /\ Delegates(m) /\ ~frames[m].failed
                           /\ frames[m].input = frames[n].input

StorageInit ==
  /\ frames \in Traces /\ verified \in SUBSET DOMAIN Layouts
  /\ original = [a \in Addresses |-> [s \in Slots |-> Empty]] /\ storage = original
  /\ writers = {} /\ writes = 0 /\ checked = FALSE /\ results = <<>> /\ history = <<>>
  /\ overrides \in Overrides /\ encoded = NotEncoded

\* Code of a frame that is not undone, in a transaction that is not, writes a part of a word; forwarding
\* proxies and constructors are taken to write none that a layout names.
Write(n, slot, part, value) ==
  /\ encoded # NotEncoded /\ ~checked /\ writes < MaxWrites
  /\ ~frames[1].failed /\ LiveFrame[n] /\ ~Forwards(n)
  /\ frames[n].kind \notin {"STATICCALL", "CREATE"}
  /\ storage' = [storage EXCEPT ![Context[n]][slot][part] = value]
  /\ writers' = writers \cup {[address |-> Context[n], code |-> frames[n].to]}
  /\ writes' = writes + 1
  /\ UNCHANGED <<frames, verified, original, checked, results, history, overrides, encoded>>

\* The next call of the chain, on the state that this one leaves.
NextCall ==
  /\ checked /\ ~frames[1].failed /\ Len(results) < MaxCalls
  /\ frames' \in {t \in Traces : ~t[1].failed}
  /\ original' = storage /\ writers' = {} /\ checked' = FALSE
  /\ UNCHANGED <<verified, storage, writes, results, history, overrides, encoded>>
-----------------------------------------------------------------------------
(* checkStateChanges.                                                      *)

\* storageCalls of one address
StorageCalls(a) ==
  {n \in DOMAIN frames : /\ LiveFrame[n] /\ Context[n] = a /\ ~Forwards(n)
                         /\ frames[n].kind \notin {"STATICCALL", "CREATE"}}

\* The code of the first of them; a contract without any is its own.
CodeOf(a) ==
  IF StorageCalls(a) = {} THEN a
  ELSE frames[CHOOSE n \in StorageCalls(a) : \A m \in StorageCalls(a) : n <= m].to

\* Mutant of Ambiguous: any further code is taken for a library.
NeverAmbiguous(a) == FALSE

\* Code other than the first and its linked libraries ran on this storage.
Ambiguous(a) ==
  \E n \in StorageCalls(a) : frames[n].to \notin {CodeOf(a)} \cup Libraries[CodeOf(a)]

HasLayout(a) == CodeOf(a) \in verified /\ ~Ambiguous(a)

\* What a part reads as under a field's type; a bool has two values.
Readable(field, value) == field.kind = "bool" => value \in 0..1

\* decodeStorageWrite: the changed fields, if they account for every changed
\* bit; a field that does not decode is as good as none.
DecodeStorageWrite(old, new, fields) ==
  LET changed == {f \in fields : /\ old[f.part] # new[f.part]
                                 /\ Readable(f, old[f.part]) /\ Readable(f, new[f.part])} IN
  IF \A p \in Parts : old[p] # new[p] => \E f \in changed : f.part = p
    THEN {[label |-> f.part, old |-> old[f.part], new |-> new[f.part]] : f \in changed}
    ELSE {}

\* decodeMappingWrite: a call of this code with this key and value explains
\* the word at the key's slot.
DecodeMappingWrite(a, slot, old, new) ==
  LET explains(n) == /\ frames[n].to = CodeOf(a) /\ frames[n].to \in Setters
                     /\ frames[n].input.key # "none" /\ MappingSlot(frames[n].input.key) = slot
                     /\ new["low"] = frames[n].input.value
  IN IF \E n \in StorageCalls(a) : explains(n)
       THEN DecodeStorageWrite(old, new, {[slot |-> slot, part |-> "low", kind |-> "uint"]})
       ELSE {}

DecodedFields(a, slot) ==
  LET old == original[a][slot]  new == storage[a][slot]
      direct == DecodeStorageWrite(old, new, {f \in Layouts[CodeOf(a)] : f.slot = slot}) IN
  IF ~HasLayout(a) THEN {} ELSE IF direct # {} THEN direct ELSE DecodeMappingWrite(a, slot, old, new)

\* Left out as noise: any word of the governor that goes from zero to the value
\* a proposal's executed flag has.
Skipped(a, s) == a = Governor /\ original[a][s] = Empty /\ storage[a][s] = ExecutedFlag
Changed(a) == {s \in Slots : storage[a][s] # original[a][s] /\ ~Skipped(a, s)}

\* The line of a word, named or raw; a named one comes with its contract.
Line(a, s) ==
  IF DecodedFields(a, s) = {}
    THEN [kind |-> "raw", slot |-> s, old |-> original[a][s], new |-> storage[a][s]]
    ELSE [kind |-> "named", address |-> a, slot |-> s, old |-> original[a][s], new |-> storage[a][s],
          code |-> CodeOf(a), fields |-> DecodedFields(a, s)]

\* The lines: a header per contract, then its words.
LinesOf(a) ==
  <<[kind |-> "contract", address |-> a]>> \o
  [i \in 1..Cardinality(Changed(a)) |-> Line(a, SetToSeq(Changed(a))[i])]

Lines ==
  LET touched == SetToSeq({a \in Addresses : Changed(a) # {}}) IN
  IF frames[1].failed THEN <<[kind |-> "reverted"]>>
  ELSE IF touched = <<>> THEN <<[kind |-> "no state changes"]>>
  ELSE FlattenSeq([i \in DOMAIN touched |-> LinesOf(touched[i])])

NoDiff == <<[kind |-> "no state diff"]>>

ChangeOf(a, s) ==
  [address |-> a, slot |-> s, old |-> original[a][s], new |-> storage[a][s],
   codes |-> {w.code : w \in {x \in writers : x.address = a}}]
Difference == UNION {{ChangeOf(a, s) : s \in Changed(a)} : a \in Addresses}

\* A provider may return no difference at all, which is said.
CheckStates ==
  /\ encoded # NotEncoded /\ ~checked
  /\ \E lines \in {Lines, IF frames[1].failed THEN Lines ELSE NoDiff} :
       results' = Append(results, lines)
  /\ history' = Append(history, Difference) /\ checked' = TRUE
  /\ UNCHANGED <<frames, verified, original, storage, writers, writes, overrides, encoded>>
-----------------------------------------------------------------------------
(* The merged result of a chain's calls, and what the report makes of it.  *)

\* A line has its place in the result of a call.
Places == UNION {{k} \X DOMAIN results[k] : k \in DOMAIN results}
TheLine(p) == results[p[1]][p[2]]
Before(p, q) == p[1] < q[1] \/ (p[1] = q[1] /\ p[2] < q[2])

\* mergeCheckResult: of equal lines the first stays, whatever contract they
\* are about, and of equal headers; one result is not merged with anything.
KeptLines ==
  {p \in Places : Len(results) = 1 \/ \A q \in Places : Before(q, p) => TheLine(q) # TheLine(p)}

\* extractStateChanges: named fields as the check gives them, raw words with
\* the contract whose header came last.
Header(p) ==
  LET headers == {q \in KeptLines : Before(q, p) /\ TheLine(q).kind = "contract"} IN
  IF headers = {} THEN ""
  ELSE TheLine(CHOOSE q \in headers : \A r \in headers : r = q \/ Before(r, q)).address

ListedChanges ==
  {[address |-> IF TheLine(p).kind = "raw" THEN Header(p) ELSE TheLine(p).address,
    slot |-> TheLine(p).slot, old |-> TheLine(p).old, new |-> TheLine(p).new] :
     p \in {q \in KeptLines : TheLine(q).kind \in {"raw", "named"}}}
-----------------------------------------------------------------------------
(* encodeRpcState.                                                         *)

\* Each field is packed into the word that an earlier field made, or else
\* into the chain's; a field out of the layout or of its width throws.
PackInto(acc, field) ==
  LET words == acc.words
      word == IF field.slot \in DOMAIN words THEN words[field.slot] ELSE Chain[field.slot]
      packed == [word EXCEPT ![field.part] = field.value] IN
  IF acc.state = "thrown" \/ field.part = "gap" \/ field.value \notin Values
    THEN [acc EXCEPT !.state = "thrown"]
    ELSE [acc EXCEPT !.words = [s \in DOMAIN words \cup {field.slot} |->
                                  IF s = field.slot THEN packed ELSE words[s]]]

Encode ==
  /\ encoded = NotEncoded
  /\ encoded' =
       LET upTo[n \in 0..Len(overrides)] ==
             IF n = 0 THEN [state |-> "done", words |-> <<>>]
             ELSE PackInto(upTo[n - 1], overrides[n])
       IN upTo[Len(overrides)]
  /\ UNCHANGED <<frames, verified, original, storage, writers, writes, checked, results, history, overrides>>

StorageNext ==
  \/ \E n \in DOMAIN frames, s \in Slots, p \in Parts, v \in Values : Write(n, s, p, v)
  \/ CheckStates
  \/ NextCall
  \/ Encode

StorageSpec == StorageInit /\ [][StorageNext]_storageVars
-----------------------------------------------------------------------------
LastOverride(slot, part) ==
  LET mine == {n \in DOMAIN overrides : /\ overrides[n].slot = slot
                                         /\ overrides[n].part = part} IN
  IF mine = {} THEN Chain[slot][part]
  ELSE overrides[CHOOSE n \in mine : \A m \in mine : m <= n].value

\* The calls whose differences there were.
WithDiff == {k \in DOMAIN results : results[k] # NoDiff}
SameWord(c, d) == c.slot = d.slot /\ c.old = d.old /\ c.new = d.new

\* A contract that no earlier call changed, and a word whose line is not that
\* of another contract's word.
FirstTold(k, c) ==
  /\ \A j \in WithDiff : \A d \in history[j] : d.address = c.address => j >= k
  /\ \A j \in WithDiff : \A d \in history[j] : j <= k /\ SameWord(c, d) => d.address = c.address

NamedFor(k, c) ==
  \E n \in DOMAIN results[k] : /\ results[k][n].kind = "named"
                               /\ results[k][n].address = c.address /\ results[k][n].slot = c.slot

(***************************************************************************)
(* Whatever calls wrote a contract's storage, in one simulation or in the  *)
(* several of a chain: every word that changed is in the report's list     *)
(* with its old and new value, a word of the governor that took an         *)
(* executed flag's value excepted, or the difference is said to be         *)
(* missing.  It stands under its contract if there was one call, if its    *)
(* fields are named, or if this call is the first to change the contract   *)
(* and no other contract's word has an equal line (a raw word of another   *)
(* call may stand under another contract, whose header came last, for the  *)
(* merge keeps the first of equal headers).  Whatever stands under a       *)
(* contract it does not belong to is of one that an earlier call changed.  *)
(* Fields are named only from the layout of the one code, with its         *)
(* libraries, that wrote this storage, and turn the word's old value into  *)
(* the new one exactly.  Encoded overrides hold each field's last value    *)
(* and the chain's bits everywhere else.                                   *)
(***************************************************************************)
StorageIsUnderstood ==
  /\ \A k \in WithDiff : \A c \in history[k] :
       /\ \E l \in ListedChanges : SameWord(l, c)
       /\ Len(results) = 1 \/ NamedFor(k, c) \/ FirstTold(k, c) =>
            \E l \in ListedChanges : SameWord(l, c) /\ l.address = c.address
  /\ \A l \in ListedChanges : \E k \in WithDiff : \E c \in history[k] :
       /\ SameWord(l, c)
       /\ l.address = c.address \/ \E j \in WithDiff : j < k /\ \E d \in history[j] : d.address = c.address
  /\ \A p \in Places : TheLine(p).kind = "named" =>
       \E c \in history[p[1]] :
         /\ c.address = TheLine(p).address /\ SameWord(c, TheLine(p))
         /\ c.codes \subseteq {TheLine(p).code} \cup Libraries[TheLine(p).code]
         /\ c.new = [x \in Parts |-> IF \E f \in TheLine(p).fields : f.label = x
                                        THEN (CHOOSE f \in TheLine(p).fields : f.label = x).new
                                        ELSE c.old[x]]
  /\ encoded.state = "done" =>
       \A s \in DOMAIN encoded.words : \A p \in Parts : encoded.words[s][p] = LastOverride(s, p)
=============================================================================
