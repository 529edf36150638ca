SPECIFICATION FairSpec
CONSTANTS
  Word = 24
  Req = {r1, r2}
  Block = {b1, b2}
  BlockSize = 2
  MaxBlocks = 2
  MaxNew = 2
  MaxVerified = 2
  Val = {v1}
  Zero = zero
  Failures = {"before", "after"}
  Reuse = FALSE
  Decodable = TRUE
INVARIANTS
  VerifiedPrefixesAreWritten
  DecodeReadsWhatCpuHolds
  CheckedTokensAreThere
PROPERTY ForwardReturns
CHECK_DEADLOCK FALSE
