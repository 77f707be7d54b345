CONSTANTS
  Snapshot <- MCSnapshot
  Request <- MCRequest
  none = none
  NoSnapshot = none
  MaxEntries = 3
  MaxBytes = 5
  MaxSnapshotTokens = 3
  FrontierStride = 2
  CrossKindPrune = TRUE
  MaxClock = 5
SPECIFICATION Spec
CHECK_DEADLOCK FALSE
INVARIANTS LruOrderIsUseOrder WithinBudget NoDominatedEntry ExactPromptReuse
PROPERTIES PrefillOutlivesGeneration ImplementsPromise
