SPECIFICATION Spec
CONSTANTS
  gate_up = gate_up
  down = down
  small = small
  Weight = {gate_up, down, small}
  Large = {gate_up, down}
  SafeF16 = {gate_up, small}
  Mlp <- AllMlp
  Storage = {s1, s2, s3}
  Settings <- Both
  Failures = {"create"}
  Junk = Junk
INVARIANT AnswersUseOwnWeights
