CONSTANTS
  Config <- MCConfig
  MayFail <- MCAny
  MaxLost = 1
  MaxTokens = 1
SPECIFICATION Spec
INVARIANT NeverPanics
CHECK_DEADLOCK FALSE
