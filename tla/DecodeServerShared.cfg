SPECIFICATION Spec
CONSTANTS
  Request = {r1, r2}
  Token = {word, stop}
  StopToken = {stop}
  NumLayers = 4
  NumKvShared = 2
  FullEvery = 2
  Window = 2
  MaxSeqLen = 4
  MaxPrompt = 2
  MaxNew = 2
  MaxOpen = 2
  Failures = {}
INVARIANT RowsAtTheirPositions
