SPECIFICATION FairSpec
CONSTANTS
  Token <- TokenDef
  Stop = {"end"}
  Suppressed = {"x"}
  Prompt <- PromptDef
  Continuations <- ContinuationsDef
  Runs <- CappedRunsDef
  FullBlock = 4
  TreeBlock = 3
  MinBlock = 2
  WindowSize = 2
  Burst = 2
  LongBurst = 1
  ProbeCycles = 2
  EarlyProbeCycles = 1
  EarlyMin = 1
  EarlyWindow = 1
  EarlyAcceptance <- EarlyAcceptanceDef
  DropAcceptance <- DropAcceptanceDef
  ResumeAcceptance <- ResumeAcceptanceDef
  TpcThreshold <- TpcThresholdDef
  CopyWindow = 2
  ProbeOff = 1
  ProbeOnCopies = 1
  ProbeOnCycles = 2
  Latch = 1
  BackoffCap = 1
  Sink = 1
  Window = 1
  Step = 2
  Stride = 2
  SidecarMin = 3
CHECK_DEADLOCK FALSE
INVARIANT NeverRaises
