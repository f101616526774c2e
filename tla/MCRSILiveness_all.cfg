SPECIFICATION Spec
CONSTANTS
  a = a
  b = b
  l1 = l1
  l2 = l2
  None = None
  References <- Refs
  Labels <- TwoLabels
  Functions <- AllFunctions
INVARIANTS TypeOK OnlyNeeded AnalysisExact
PROPERTIES LiveOnlyGrows Termination
CHECK_DEADLOCK FALSE
