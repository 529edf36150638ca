SPECIFICATION FairSpec
CONSTANTS
  Request = {r1, r2}
  Token = {word, stop}
  StopToken = {stop}
  NumLayers = 5
  NumKvShared = 2
  FullEvery = 2
  Window = 2
  MaxSeqLen = 4
  MaxPrompt = 2
  MaxNew = 3
  MaxOpen = 1
  Failures = {"device"}
INVARIANTS
  TypeOK
  AnswersFromOwnTokens
  CachesLevel
  OverflowsOnlyPastTheEnd
  ShortAnswersStopped
PROPERTY EveryRequestEnds
