CONSTANTS
  Vectors <- MCVectors
  Bitrates <- MCBitrates
  Updates = {0, 1, 2, 3, 4}
SPECIFICATION Spec
INVARIANT TypeOK
PROPERTIES
  DecisionsDoNotStray
  LimitsMatchRates
  BestRateNotAbove
