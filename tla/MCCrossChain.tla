----------------------------- MODULE MCCrossChain -----------------------------
EXTENDS CrossChain

CONSTANTS a, b, u    \* u is a chain without L2 checks

MCChains == {a, b, u}
MCSlotZero == {a}
MCSupported == {a, b}
MCNames == {"j1", "j2", "j3"}
MCChainSeq == [c \in MCChains |-> 2]

\* One job of each kind that can interfere with the others on chain a, and
\* jobs elsewhere; a proposal sends up to three of them, in any order.
Kinds == {[chain |-> a, bridge |-> "plain", calls |-> 2],
          [chain |-> a, bridge |-> "wormhole", calls |-> 2],
          [chain |-> a, bridge |-> "layerzero", calls |-> 1],
          [chain |-> b, bridge |-> "plain", calls |-> 1],
          [chain |-> b, bridge |-> "wormhole", calls |-> 1],
          [chain |-> u, bridge |-> "plain", calls |-> 1]}

Named(k, n) == [name |-> n, chain |-> k.chain, bridge |-> k.bridge,
                calls |-> k.calls]

MCProposals ==
  {<<>>} \cup {<<Named(k, "j1")>> : k \in Kinds}
    \cup {<<Named(k, "j1"), Named(l, "j2")>> : k, l \in Kinds}
    \cup {<<Named(k, "j1"), Named(l, "j2"), Named(m, "j3")>> :
            k, l, m \in Kinds}
=============================================================================
