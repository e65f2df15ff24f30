SPECIFICATION Spec
CONSTANTS
  a = a
  b = b
  u = u
  Chains <- MCChains
  Supported <- MCSupported
  Blocks = {1, 2}
  ChainSeq <- MCChainSeq
  SlotZero <- MCSlotZero
  Names <- MCNames
  Proposals <- MCProposals
  None = None
INVARIANTS
  CallsSeeTheirPast
  SequenceIsCurrent
PROPERTIES
  ImplementsOrderedDelivery
CHECK_DEADLOCK FALSE
