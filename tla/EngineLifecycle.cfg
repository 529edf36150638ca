CONSTANTS
  Context = {c1, c2}
  Tensor = {t1, t2}
  Shader = {matvec, add}
  Matvec = {matvec}
  RmsNorm = {}
  MaxPools = 2
SYMMETRY Symmetry
SPECIFICATION Spec
INVARIANTS TypeOK OwnedOnce NothingElseLeaks UsableIsWhole
CHECK_DEADLOCK FALSE
