-------------------------- MODULE MCUploadAndShare --------------------------
EXTENDS UploadAndShare, TLC

CONSTANTS a1, a2

MCArtifacts == {a1, a2}
MCRaws == [artifact: MCArtifacts, via: {"cli", "share"}]

\* Runs differ in nothing, nor do executions before they are given a request.
RunSymmetry == Permutations(Runs) \cup Permutations(Execs)
=============================================================================
