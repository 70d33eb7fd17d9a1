\* Every checkpoint on every card: the checked load, the suggestion, the clamp.
CONSTANTS
  Files <- MCFiles
  OptionSets <- MCOptions
  Cards <- MCCards
  Modules = 65536
  Headroom = 786432
  Staging = 8192
  Margin = 524288
  MaxCtx = 1000000000
SPECIFICATION Spec
INVARIANTS CheckedLoadSucceeds SuggestionLoads ClampedCtxLoads
CHECK_DEADLOCK FALSE
