CONSTANTS
  Bytes <- MCBytes
  Hash <- MCHash
  Hashes = {0, 1}
  MinMatch = 2
  MaxChain = 3
  NiceLength = 4
  WordSize = 16
  MaxLen = 11
  NumBuckets = 5
SPECIFICATION Spec
INVARIANTS
  RoundTrip
  MatchLegal
  SameModel
  ChainsExact
