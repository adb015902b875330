\* Every payload holds a NAL unit.
CONSTANTS
  Clients = {c1, c2}
  Kinds = {"sps", "idr", "slice"}
  Payloads <- MCPayloads
  WaitForIdr = TRUE
  MaxPayloads = 3
SPECIFICATION FairSpec
INVARIANTS
  NoStalledFrame
  NoGap
  StartsAtFirstIdr
PROPERTIES
  ImplementsLiveStream
  FramesAreDelivered
