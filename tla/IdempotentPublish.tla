-------------------------- MODULE IdempotentPublish --------------------------
(***************************************************************************)
(* What a publish endpoint with idempotency keys promises, whatever it     *)
(* awaits and in whatever order its handlers resume.  Each instance keeps  *)
(* a slot per key: free, pending for one artifact, or done with the result *)
(* of that artifact.  A slot may be forgotten at any time (a failure, an   *)
(* eviction, a restart), but it never passes to another artifact or result *)
(* without being forgotten first, and a caller is only ever told a result  *)
(* that was produced for the key and the artifact it sent.                 *)
(***************************************************************************)
CONSTANTS Instances, Requests, Keys, Hashes, None, NoBody

VARIABLES
  asked,      \* what each request asks
  slot,       \* per instance and key
  produced,   \* results of successful executions
  told        \* the result a request was given, if any

vars == <<asked, slot, produced, told>>

Free == [st |-> "free", hash |-> None, body |-> NoBody]
Pending(h) == [st |-> "pending", hash |-> h, body |-> NoBody]
Done(h, b) == [st |-> "done", hash |-> h, body |-> b]

Init ==
  /\ asked = [r \in Requests |-> [inst |-> None, key |-> None, hash |-> None]]
  /\ slot = [i \in Instances |-> [k \in Keys |-> Free]]
  /\ produced = {}
  /\ told = [r \in Requests |-> NoBody]

\* The ways one slot may change; several may change in one step.
SlotStep(i, k) ==
  LET old == slot[i][k]
      new == slot'[i][k]
  IN
  \/ new = old
  \/ new = Free
  \/ old = Free /\ \E h \in Hashes : new = Pending(h)
  \/ /\ old.st = "pending"
     /\ \E b \in produced : /\ b.key = k /\ b.hash = old.hash
                            /\ new = Done(old.hash, b)

\* A pending slot's execution produces one result, for its key and artifact.
Produce ==
  /\ produced \subseteq produced'
  /\ \A b \in produced' \ produced :
       \E i \in Instances, k \in Keys : /\ slot[i][k].st = "pending"
                                        /\ b.key = k
                                        /\ b.hash = slot[i][k].hash

Tell(r) ==
  \/ told'[r] = told[r]
  \/ /\ told[r] = NoBody
     /\ told'[r] \in produced
     /\ told'[r].key = asked[r].key /\ told'[r].hash = asked[r].hash

Ask(r) == asked'[r] = asked[r] \/ asked[r].inst = None

Next ==
  /\ \A i \in Instances, k \in Keys : SlotStep(i, k)
  /\ Produce
  /\ \A r \in Requests : Ask(r) /\ Tell(r)

Spec == Init /\ [][Next]_vars
=============================================================================
