CONSTANTS
  MaxFrameSize = 1
  FramesPerPacket = 2
  fMaxSize = 2
  TicksPerSecond = 4
  ClockTimes = {3}
  FallsShort <- MCFallsShort
  Interval = 1
  MaxGenerated = 4
  Configs <- MCConfigs
  Headers = {0, 132}
  Lengths = {2, 3}
SPECIFICATION Spec
INVARIANT TocIsOwn
CHECK_DEADLOCK FALSE
