SPECIFICATION DerivedSpec
CONSTANTS
  a = a
  b = b
  u = u
  k1 = k1
  k2 = k2
  Chains <- MCChains
  Supported <- MCSupported
  Blocks = {1}
  ChainSeq <- MCChainSeq
  SlotZero <- MCSlotZero
  Names <- MCNames
  Proposals <- MCProposals
  Dependents <- MCDependents
  Checks = {k1, k2}
  CheckRuns <- MCCheckRuns
  Source = "source"
  None = None
PROPERTIES
  GateIsFailClosed
  DependentBuildsOnPredecessor
CHECK_DEADLOCK FALSE
