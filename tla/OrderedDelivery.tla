--------------------------- MODULE OrderedDelivery ---------------------------
(***************************************************************************)
(* What the cross-chain engine promises: the messages of a proposal are    *)
(* delivered in the order in which the proposal sends them, each one whole *)
(* or not at all, and each gets one verdict.                               *)
(***************************************************************************)
EXTENDS Sequences, Naturals

CONSTANT Names

VARIABLES
  todo,       \* messages without a verdict yet: records [name, chain, effects]
  delivered,  \* per chain: the effects delivered so far
  verdict     \* per message name: "none", "success", "failure" or "skipped"

vars == <<todo, delivered, verdict>>

Init == verdict = [n \in Names |-> "none"]

Judge(v) == verdict' = [verdict EXCEPT ![Head(todo).name] = v]

Deliver ==
  LET m == Head(todo) IN
  /\ todo # <<>>
  /\ todo' = Tail(todo)
  /\ delivered' = [delivered EXCEPT ![m.chain] = @ \o m.effects]
  /\ Judge("success")

Refuse ==
  /\ todo # <<>>
  /\ todo' = Tail(todo)
  /\ Judge("failure") \/ Judge("skipped")
  /\ UNCHANGED delivered

\* The proposal does not execute on the source chain: nothing is sent.
Cancel ==
  /\ verdict = [n \in Names |-> "none"]
  /\ todo' = <<>>
  /\ UNCHANGED <<delivered, verdict>>

Next == Deliver \/ Refuse \/ Cancel

Spec == Init /\ [][Next]_vars
=============================================================================
