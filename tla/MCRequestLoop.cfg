SPECIFICATION FairSpec
CONSTANTS
  Client = {"c", "d"}
  Token = {"a", "b", "end"}
  Stop = {"end"}
  Overrun = 2
  Asked <- AskedDef
CHECK_DEADLOCK FALSE
INVARIANT TypeOK
INVARIANT BracketCoversDecoding
INVARIANT LiveIsServed
PROPERTY KeepsPromise
PROPERTY EveryoneAnswered
