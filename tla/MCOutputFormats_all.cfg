SPECIFICATION Spec
CONSTANTS
  Sources <- MCSources
  RSISources <- MCRSISources
  ByteValues = 4
  RSIByteValues = 2
  Address <- MCAddress
  Bottom = 64512
  StackSize = 1024
  Fuel = 20
  References <- MCReferences
  Labels <- MCLabels
  None <- MCNone
  MaxCalls = 25
INVARIANTS
  GeneratedIsAccepted
  OperandsAgree
  FrameRestored
  CodeMeansSource
PROPERTIES
  CodeEnds
CHECK_DEADLOCK FALSE
