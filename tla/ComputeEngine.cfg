CONSTANTS
  kv = kv
  w1 = w1
  w2 = w2
  narrow = narrow
  wide = wide
  Tensors <- MCTensors
  Sizes <- MCSizes
  SizeOf <- MCSizeOf
  Settings <- MCSettings
  Buffers = {1, 2, 3, 4, 5, 6, 7, 8, 9, 10, 11, 12, 13}
  PoolSets = 2
  MaxInFlight = 2
SPECIFICATION FairSpec
INVARIANTS TypeOK OneOwner InFlightBuffersOwned SetsBounded LiveBounded
PROPERTIES InFlightSetsUntouched ResetIdleWhileSynced ImplementsService
