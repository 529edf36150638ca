SPECIFICATION FairSpec
CONSTANTS
  gate_up = gate_up
  down = down
  small = small
  Weight = {gate_up, down, small}
  Large = {gate_up, down}
  SafeF16 = {gate_up, small}
  Mlp <- AllMlp
  Storage = {s1, s2, s3}
  Settings <- OneOrTheOther
  Failures = {"create", "device", "crash"}
  Junk = Junk
INVARIANTS
  TypeOK
  AnswersUseOwnWeights
  CachesFollowWeights
PROPERTIES
  UploadedOnce
  UnfusedReturns
