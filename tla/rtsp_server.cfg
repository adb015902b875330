\* Asserts are compiled out, so that a refused registration is carried through.
CONSTANTS
  lobby = lobby
  stage = stage
  NoChannel = NoChannel
  NoSms = NoSms
  Clients = {s1, s2, s3}
  Objects = {o1, o2, o3}
  ChannelIds = {1, 2}
  Names = {lobby, stage}
  Sources = {0, 1}
  Tracks = {0, 1}
  Channels <- MCChannels
  Limits = {0, 1, 2}
  Asserts = FALSE
SYMMETRY Symmetric
SPECIFICATION Spec
INVARIANTS
  NoDanglingSubsession
  StreamsAreHeld
  NoCallIntoDestroyedServer
PROPERTIES
  AdmissionWithinLimit
  RemovalEndsStreams
  RemovalSparesOthers
  ServedWhileOpen
