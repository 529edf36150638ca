SPECIFICATION Spec
CONSTANTS
  Word = 24
  Req = {r1, r2}
  Block = {b1, b2}
  BlockSize = 2
  MaxBlocks = 2
  MaxNew = 2
  MaxVerified = 2
  Val = {v1, v2}
  Zero = zero
  Failures = {"before"}
  Reuse = TRUE
  Decodable = TRUE
SYMMETRY Symmetry
INVARIANT CheckedTokensAreThere
