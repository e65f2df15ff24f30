----------------------------- MODULE MCDerivedRun -----------------------------
EXTENDS DerivedRun

CONSTANTS a, b, u, k1, k2

MCChains == {a, b, u}
MCSupported == {a, b}
MCSlotZero == {a}
MCNames == {"p1", "p2", "d1", "d2"}
MCChainSeq == [c \in MCChains |-> 2]

Kinds == {[chain |-> a, bridge |-> "plain", calls |-> 2],
          [chain |-> a, bridge |-> "wormhole", calls |-> 1],
          [chain |-> b, bridge |-> "plain", calls |-> 1],
          [chain |-> u, bridge |-> "plain", calls |-> 1]}

Named(k, n) == [name |-> n, chain |-> k.chain, bridge |-> k.bridge,
                calls |-> k.calls]

MCProposals ==
  {<<>>} \cup {<<Named(k, "p1")>> : k \in Kinds}
    \cup {<<Named(k, "p1"), Named(l, "p2")>> : k, l \in Kinds}

\* What a dependent proposal meets: messages of its own on chain a.
MCDependents ==
  {<<Named(k, "d1")>> : k \in {j \in Kinds : j.chain = a}}
    \cup {<<Named(k, "d1"), Named(k, "d2")>> :
            k \in {j \in Kinds : j.bridge = "wormhole"}}

\* All checks run; one finds an error; one or all are skipped.
MCCheckRuns ==
  {[k \in {k1, k2} |-> "ok"], [k \in {k1, k2} |-> "skipped"]}
    \cup {[k \in {k1, k2} |-> IF k = k1 THEN v ELSE "ok"] :
            v \in {"error", "skipped"}}
=============================================================================
