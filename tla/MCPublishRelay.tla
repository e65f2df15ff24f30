---------------------------- MODULE MCPublishRelay ----------------------------
EXTENDS PublishRelay, TLC

\* Requests carry nothing of their own before they arrive.
RequestSymmetry == Permutations(Requests)
=============================================================================
