SPECIFICATION FairSpec
CONSTANTS
  Handler = {h1, h2}
  Model = {"a", "b"}
  DefaultModel = "a"
  MaxRequests = 2
  Ask <- MCAsk
  Turn <- MCTurn
  Template <- MCTemplate
  Prompt <- MCPrompt
INVARIANTS
  ReplyWellFormed
  WholeModel
  TurnsContinue
PROPERTIES
  EveryRequestEnds
CHECK_DEADLOCK FALSE
