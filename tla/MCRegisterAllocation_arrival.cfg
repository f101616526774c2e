SPECIFICATION Spec
CONSTANTS
  None = None
  References <- RefNames
  Labels <- LabelNames
  Programs <- WithLostParameter
INVARIANT ArrivalsFound
CHECK_DEADLOCK FALSE
