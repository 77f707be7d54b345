CONSTANTS
  Proc = {p, q}
  Snapshot <- Sized
  Request <- OneRequest
  none = none
  NoSnapshot = none
  InitDisk <- Full
  Rotten = {}
  MaxBytes = 2
  MaxInFlight = 1
  SaveErrors = {}
  SlowJoin = FALSE
  MaxActive = 1
  MaxEpoch = 0
  p = p
  q = q
SPECIFICATION Spec
CHECK_DEADLOCK FALSE
INVARIANTS TrackedExact
PROPERTIES EvictsToBudget OnlyOwnerChangesFiles
