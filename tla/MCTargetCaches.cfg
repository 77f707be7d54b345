SPECIFICATION Spec
CONSTANTS
  Step = 2
  RingSize = 3
  Keep = 2
  Sink = 1
  Window = 2
  Sliding = 2
  Targets <- MCTargets
  MaxRequests = 2
  MaxSnapshots = 1
  MaxPrompt = 3
  MaxChunk = 3
  Answer = 3
  Blocks = {1, 3}
INVARIANTS
  SnapshotsKeepTheirText
  CachesReadTheText
CHECK_DEADLOCK FALSE
