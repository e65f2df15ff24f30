------------------------- MODULE PermissionEvidence -------------------------
(***************************************************************************)
(* What checkPermissionDiff (checks/check-permission-diff.ts) tells of the *)
(* powers a proposal moves: owners, a timelock's admin and pending admin,  *)
(* and roles.  The transaction makes its changes one by one and leaves     *)
(* three traces: events, the calls, and the net difference of storage, in  *)
(* decoded form where the contract's source is known.  The check sees only *)
(* the traces.                                                             *)
(***************************************************************************)
EXTENDS Integers, SequencesExt

CONSTANTS
  Powers,        \* [contract, kind]: which address-valued powers there are
  Granting,      \* contracts with roles (one role each)
  Accounts,      \* may hold a power; Zero is the zero address
  Zero,
  HolderAtStart, \* per power
  MembersAtStart, \* per granting contract: who has its role
  Emits,         \* contracts whose power changes emit their event
  Decoded,       \* contracts whose storage differences come with variable names
  Lone,          \* contracts whose powers have a storage word of their own
  MaxChanges     \* bound: calls of the proposal that concern powers

Kinds == {"owner", "admin", "pendingAdmin"}

ASSUME PermissionAssumption ==
  /\ \A p \in Powers : p.kind \in Kinds /\ p = [contract |-> p.contract, kind |-> p.kind]
  /\ Zero \in Accounts /\ HolderAtStart \in [Powers -> Accounts]
  /\ MembersAtStart \in [Granting -> SUBSET (Accounts \ {Zero})]
  /\ MaxChanges \in Nat

VARIABLES
  holder,     \* who has each power now
  members,    \* who has the role of each granting contract now
  events,     \* the transaction's logs that concern powers
  intents,    \* setOwner and transferOwnership calls in the trace, failed ones too
  changes,    \* history: each power that changed, and to whom; a role that was
              \* granted or revoked, and whose
  told        \* permissionsDiff, once the check has run

permissionVars == <<holder, members, events, intents, changes, told>>

Running == <<[kind |-> "running"]>>
Item(kind, contract, previous, next) ==
  [kind |-> kind, contract |-> contract, previous |-> previous, next |-> next]
Power(contract, kind) == [contract |-> contract, kind |-> kind]
-----------------------------------------------------------------------------
(* The transaction.                                                        *)

PermissionInit ==
  /\ holder = HolderAtStart
  /\ members = MembersAtStart
  /\ events = <<>> /\ intents = <<>> /\ changes = <<>>
  /\ told = Running

CanChange == told = Running /\ Len(changes) + Len(intents) < MaxChanges

Logged(p, next) ==
  IF p.contract \in Emits THEN Append(events, Item(p.kind, p.contract, holder[p], next)) ELSE events

\* A power changes hands, by its holder's call of setOwner or another way.
Change(p, next, named) ==
  /\ CanChange /\ next # holder[p]
  /\ holder' = [holder EXCEPT ![p] = next]
  /\ events' = Logged(p, next)
  /\ intents' = IF named /\ p.kind = "owner"
                  THEN Append(intents, [contract |-> p.contract, caller |-> holder[p], next |-> next])
                  ELSE intents
  /\ changes' = Append(changes, [power |-> p, next |-> next])
  /\ UNCHANGED <<members, told>>

\* A call of setOwner that reverts stays in the trace.
Revert(p, caller, next) ==
  /\ CanChange /\ p.kind = "owner"
  /\ intents' = Append(intents, [contract |-> p.contract, caller |-> caller, next |-> next])
  /\ UNCHANGED <<holder, members, events, changes, told>>

\* acceptAdmin: the pending admin becomes admin and is cleared without event.
Accept(c) ==
  LET admin == Power(c, "admin")  pending == Power(c, "pendingAdmin") IN
  /\ CanChange /\ {admin, pending} \subseteq Powers
  /\ holder[pending] \notin {Zero, holder[admin]}
  /\ holder' = [holder EXCEPT ![admin] = holder[pending], ![pending] = Zero]
  /\ events' = Logged(admin, holder[pending])
  /\ changes' = changes \o <<[power |-> admin, next |-> holder[pending]],
                           [power |-> pending, next |-> Zero]>>
  /\ UNCHANGED <<members, intents, told>>

\* RoleGranted and RoleRevoked are emitted for changes only.
Grant(c, a) ==
  LET kind == IF a \in members[c] THEN "revoked" ELSE "granted" IN
  /\ CanChange
  /\ members' = [members EXCEPT ![c] = IF a \in @ THEN @ \ {a} ELSE @ \cup {a}]
  /\ events' = Append(events, Item(kind, c, "unknown", a))
  /\ changes' = Append(changes, [power |-> Power(c, kind), next |-> a])
  /\ UNCHANGED <<holder, intents, told>>
-----------------------------------------------------------------------------
(* The check.                                                              *)

\* One item per log, in their order; of the former holder only
\* OwnershipTransferred speaks.
FromEvents ==
  [n \in DOMAIN events |->
     IF events[n].kind = "owner" THEN events[n] ELSE [events[n] EXCEPT !.previous = "unknown"]]

Moved == {p \in Powers : holder[p] # HolderAtStart[p]}

\* Tenderly's decoded changes of owner, admin and pendingAdmin.
FromDiffs ==
  SetToSeq({Item(p.kind, p.contract, HolderAtStart[p], holder[p]) :
              p \in {q \in Moved : q.contract \in Decoded}})

\* extractRawAddressTransitions: whole words in low slots, whatever they mean.
Transitions ==
  {Item("word", p.contract, HolderAtStart[p], holder[p]) : p \in {q \in Moved : q.contract \in Lone}}

\* hasOwnershipDiff
HasOwnershipDiff(items, contract, next) ==
  \E n \in DOMAIN items : /\ items[n].kind = "owner" /\ items[n].contract = contract
                          /\ items[n].next = next

\* A written word that turns the call's caller into the owner it names.
Confirmed(intent) ==
  {t \in Transitions : /\ t.contract = intent.contract /\ t.next = intent.next
                       /\ t.previous = intent.caller /\ t.previous # Zero}

\* The items at some places of a list, in their order.
ItemsAt(items, places) ==
  LET place(k) == CHOOSE n \in places : Cardinality({m \in places : m < n}) = k - 1 IN
  [k \in 1..Cardinality(places) |-> items[place(k)]]

\* The ownership fallback: an intent that is confirmed adds an item, unless the
\* list has one of its owner, by another intent maybe.
WithIntents(items) ==
  LET confirmed == {i \in DOMAIN intents : Confirmed(intents[i]) # {}}
      adding == {i \in confirmed :
                   /\ ~HasOwnershipDiff(items, intents[i].contract, intents[i].next)
                   /\ \A j \in confirmed : intents[j].contract = intents[i].contract
                                           /\ intents[j].next = intents[i].next => i <= j} IN
  items \o ItemsAt([i \in DOMAIN intents |->
                     Item("owner", intents[i].contract, intents[i].caller, intents[i].next)], adding)

\* Mutant of SameChange: changes of admin and pending admin are one.
SameContract(a, b) == a.contract = b.contract

\* The key of mergeTimelockAdminChanges.
SameChange(a, b) == a.kind = b.kind /\ a.contract = b.contract

\* mergeTimelockAdminChanges: the first item of a kind and contract stays, and
\* takes from the others only the previous holder, the first that is known.
WithMerged(items) ==
  LET admins == {n \in DOMAIN items : items[n].kind \in {"admin", "pendingAdmin"}}
      same(n) == {m \in admins : SameChange(items[m], items[n])}
      knowing(n) == {m \in same(n) : items[m].previous # "unknown"}
      merged(n) == IF n \notin admins \/ knowing(n) = {} THEN items[n]
                   ELSE LET first == CHOOSE m \in knowing(n) : \A k \in knowing(n) : m <= k IN
                        [items[n] EXCEPT !.previous = items[first].previous] IN
  ItemsAt([n \in DOMAIN items |-> merged(n)],
       {n \in DOMAIN items : n \in admins => \A m \in same(n) : n <= m})

\* stableKey: an item that was seen before is dropped.
Deduped(items) == ItemsAt(items, {n \in DOMAIN items : \A m \in 1..(n - 1) : items[m] # items[n]})

Check ==
  /\ told = Running
  /\ told' = Deduped(WithMerged(WithIntents(FromEvents \o FromDiffs)))
  /\ UNCHANGED <<holder, members, events, intents, changes>>

PermissionNext ==
  \/ \E p \in Powers, next \in Accounts, named \in BOOLEAN : Change(p, next, named)
  \/ \E p \in Powers, caller, next \in Accounts : Revert(p, caller, next)
  \/ \E p \in Powers : Accept(p.contract)
  \/ \E c \in Granting, a \in Accounts \ {Zero} : Grant(c, a)
  \/ Check

PermissionSpec == PermissionInit /\ [][PermissionNext]_permissionVars
-----------------------------------------------------------------------------
Times(p) == Cardinality({n \in DOMAIN changes : changes[n].power = p})
TellsOf(p) == {told[n].next : n \in {m \in DOMAIN told : /\ told[m].kind = p.kind
                                                        /\ told[m].contract = p.contract}}

\* A call that was refused names as owner whom another word of the contract
\* names, if the caller was in that word before.
MistakenFor(p) ==
  IF p.kind = "owner" /\ p.contract \in Lone THEN {q \in Powers : q.contract = p.contract} ELSE {p}

\* What can be told of a power: its only change was logged, its variable is
\* decoded, or its holder handed it over by a call and a word that show it.
Evident(p) ==
  \/ p.contract \in Decoded
  \/ \E n \in DOMAIN events : events[n].kind = p.kind /\ events[n].contract = p.contract
  \/ /\ p.kind = "owner" /\ p.contract \in Lone /\ HolderAtStart[p] # Zero
     /\ \E n \in DOMAIN intents : /\ intents[n].contract = p.contract
                                  /\ intents[n].caller = HolderAtStart[p]
                                  /\ intents[n].next = holder[p]

RoleChanges == {"granted", "revoked"}
\* What can happen first to an account of a role.
FirstMove(c, a) == IF a \in MembersAtStart[c] THEN "revoked" ELSE "granted"
ChangedTo(p) == {changes[n].next : n \in {m \in DOMAIN changes : changes[m].power = p}}

(***************************************************************************)
(* Whatever calls moved a power, and whichever trace they left, the list   *)
(* names the account that has it in the end, and names no account as the   *)
(* new holder that never was it; a timelock's admin that changed more than *)
(* once is excepted, for which the first event's account is kept, and an   *)
(* owner for whom another power of the contract may be mistaken.  Of a     *)
(* role the list tells everyone who was granted it and everyone who lost   *)
(* it, and nobody else, so also whoever has it in the end and had not, and *)
(* whoever had it and has not; it tells the first move of an account first *)
(* (an item that repeats an earlier one is dropped: whether an account     *)
(* that was granted a role twice has it in the end is not told).           *)
(***************************************************************************)
PowersAreTold ==
  told # Running =>
    /\ \A p \in Moved : Evident(p) /\ (p.kind = "owner" \/ Times(p) = 1) => holder[p] \in TellsOf(p)
    /\ \A p \in Powers : TellsOf(p) \subseteq UNION {ChangedTo(q) : q \in MistakenFor(p)}
    /\ \A c \in Granting, kind \in RoleChanges : TellsOf(Power(c, kind)) = ChangedTo(Power(c, kind))
    /\ \A c \in Granting : /\ members[c] \ MembersAtStart[c] \subseteq TellsOf(Power(c, "granted"))
                           /\ MembersAtStart[c] \ members[c] \subseteq TellsOf(Power(c, "revoked"))
    /\ \A n \in DOMAIN told :
         LET first == FirstMove(told[n].contract, told[n].next) IN
         told[n].kind \in RoleChanges /\ told[n].kind # first =>
           \E m \in 1..(n - 1) : told[m] = [told[n] EXCEPT !.kind = first]
=============================================================================
