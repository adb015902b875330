CONSTANTS
  Bytes = {0, 1, 2}
  Payloads <- MCPayloads
SPECIFICATION FairSpec
INVARIANTS
  SlicesAreNals
  AllNalsReturned
PROPERTY Terminates
CHECK_DEADLOCK FALSE
