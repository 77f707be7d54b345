CONSTANTS
  Proc = {p}
  Snapshot <- Three
  Request <- MCRequest
  none = none
  NoSnapshot = none
  InitDisk <- Empty
  Rotten <- RottenOne
  MaxBytes = 3
  MaxInFlight = 1
  SaveErrors = {"os", "other"}
  SlowJoin = FALSE
  MaxActive = 2
  MaxEpoch = 1
  p = p
SPECIFICATION Spec
CHECK_DEADLOCK FALSE
INVARIANTS SlotsAccounted ClearedStaysCleared GateMatchesRequests
PROPERTIES ImplementsPromise
