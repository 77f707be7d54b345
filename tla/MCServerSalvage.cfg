SPECIFICATION Spec
CONSTANTS
  Handler = {h1, h2}
  Model = {"a", "b"}
  DefaultModel = "a"
  MaxRequests = 2
  Ask <- MCAsk
  Turn <- MCTurn
  Template <- MCTemplate
  Prompt <- MCPrompt
INVARIANTS
  SalvageReportsItself
CHECK_DEADLOCK FALSE
