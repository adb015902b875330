CONSTANTS
  Clients = {c1, c2}
  TopChannel <- MCTopChannel
  Modulus <- MCModulus
  NoReport = NoReport
  MaxJoins = 2
SPECIFICATION FairSpec
INVARIANTS
  RequestsBounded
PROPERTIES
  EachReportCountsOnce
  RatesAreSwept
CHECK_DEADLOCK FALSE
