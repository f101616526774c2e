SPECIFICATION Spec
CONSTANTS
  v1 = v1
  v2 = v2
  v3 = v3
  v4 = v4
  Vertices <- FourVertices
  Graphs <- AllGraphs
INVARIANTS TypeOK ProperColoring SpillsArePrivate SpillsOnlyUnderPressure LonePrecoloredKept
PROPERTY Termination
CHECK_DEADLOCK FALSE
