SPECIFICATION Spec
CONSTANTS
  Tokens <- MCTokens
  Sampled = {1}
  Prompts <- MCPrompts
  Layers <- MCLayers
  Routing <- MCRouting
  FailingOps <- MCFailingOps
  Mixed = FALSE
  Cap = 2
  PrefillChunk = 2
  MaxSeq = 4
  FlashMinDepth = 3
  RecurTile = 1
  MaxFailures = 1
  MaxResets = 1
INVARIANT LogitsFollowHistory
INVARIANT CacheFollowsHistory
CHECK_DEADLOCK FALSE
