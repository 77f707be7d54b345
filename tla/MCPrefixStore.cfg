CONSTANTS
  server = server
  Snapshot <- Start2
  Request <- TalkRequest
  none = none
  NoSnapshot = none
  MaxEntries = 1
  MaxBytes = 4
  MaxSnapshotTokens = 2
  FrontierStride = 0
  MaxClock = 3
  InitDisk <- Empty
  MaxDiskBytes = 0
  MaxInFlight = 1
  SaveErrors = {}
  InsertMayRaise = TRUE
SPECIFICATION FairSpec
CHECK_DEADLOCK FALSE
INVARIANTS BracketsBalance NothingAfterShutdown
PROPERTIES ImplementsPromise NeverWorseThanL1 ShutdownReturns QueuedReachesDisk
