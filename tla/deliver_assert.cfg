CONSTANTS
  Clients = {c1, c2}
  Kinds = {"sps", "idr", "slice"}
  Payloads <- MCPayloadsWithoutNal
  WaitForIdr = TRUE
  MaxPayloads = 3
SPECIFICATION Spec
INVARIANT NeverDeliversNothing
CHECK_DEADLOCK FALSE
