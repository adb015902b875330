\* The service with asserts compiled out, so that every request is carried through.
CONSTANTS
  lobby = lobby
  stage = stage
  NoChannel = NoChannel
  ChannelIds = {1, 2}
  Names = {lobby, stage}
  Sources = {0, 1}
  Requests <- MCRequests
  MaxPending = 2
  Asserts = FALSE
SPECIFICATION FairSpec
INVARIANTS
  InSync
  SlotsFreeWhenAdding
PROPERTIES
  CreatedIsPublished
  RemovedIsWithdrawn
  StopEndsLoop
