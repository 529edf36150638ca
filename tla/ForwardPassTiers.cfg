CONSTANTS
  Config <- MCConfig
  MayFail <- MCTolerated
  MaxLost = 2
  MaxTokens = 2
SPECIFICATION Spec
INVARIANTS
  TypeOK
  FollowsReference
  NoRace
  FitsSlots
  NeverPanics
CHECK_DEADLOCK FALSE
