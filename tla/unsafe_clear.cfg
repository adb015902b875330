CONSTANTS
  lobby = lobby
  stage = stage
  NoChannel = NoChannel
  ChannelIds = {1, 2}
  Names = {lobby, stage}
  Sources = {0, 1}
  Requests <- MCRequests
  MaxPending = 2
  Asserts = FALSE
SPECIFICATION Spec
INVARIANT MapChangedUnderLock
CHECK_DEADLOCK FALSE
