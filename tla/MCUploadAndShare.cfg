SPECIFICATION Spec
CONSTANTS
  a1 = a1
  a2 = a2
  Artifacts <- MCArtifacts
  Raws <- MCRaws
  Runs = {r1, r2}
  Execs = {e1, e2}
  None = None
  Nothing = Nothing
  RelaySigns = TRUE
  ViewerVerifies = TRUE
  LookupWorks = FALSE
  AliasBudget = 5
  RetryBase = 2
  RetryMax = 2
SYMMETRY RunSymmetry
INVARIANTS
  AliasBudgetIsUsed
  LinkShowsWhatWasSent
  RerunsPublishOnce
CHECK_DEADLOCK FALSE
