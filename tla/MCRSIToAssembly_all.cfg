SPECIFICATION Spec
CONSTANTS
  Names <- MCNames
  Labels <- MCLabels
  None <- MCNone
  Programs <- Accepted
  UsedRegisters <- UsedRegisters5
INVARIANTS
  BackendsAccept
  RunsAsMeantUnlessMisprinted
  ReturnsCleanly
PROPERTIES
  PassesKeepMeaning
CHECK_DEADLOCK FALSE
