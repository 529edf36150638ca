CONSTANTS
  Rank = {r0, r1, r2}
  Model <- MCModel
SPECIFICATION FairSpec
INVARIANTS TypeOK InStep SumsAreWhole
PROPERTY EveryRankFinishes
