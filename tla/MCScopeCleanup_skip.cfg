SPECIFICATION Spec
CONSTANTS
  StackLimit = 40
  FunctionBodies <- SkippedWhile
INVARIANT StackBalanced
CHECK_DEADLOCK FALSE
