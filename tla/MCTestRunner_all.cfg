SPECIFICATION Spec
CONSTANTS
  Tests <- AllTests
  PipeSize = 1
  MaxOutput = 2
  Signal = Signal
  Never = Never
INVARIANTS
  KillsNoStranger
  VerdictDeserved
PROPERTY RunnerEnds
CHECK_DEADLOCK FALSE
