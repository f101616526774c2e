SPECIFICATION Spec
CONSTANTS
  StackLimit = 40
  FunctionBodies <- AllFunctions
INVARIANTS StackBalancedIfBraced ExitsAccepted VariablesDisjoint
CHECK_DEADLOCK FALSE
