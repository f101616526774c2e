SPECIFICATION Spec
CONSTANTS
  None = None
  References <- RefNames
  Labels <- LabelNames
  Programs <- MCPrograms
INVARIANTS ReadsOwnValue NoLookupThrows HWRegisterKeptWithoutSlots SlotsFitFrame AddressTakenStaysInMemory
CHECK_DEADLOCK FALSE
