SPECIFICATION AdapterSpec
CONSTANTS
  None = None
  FrameItems = 4
  Requests <- PartAndMore
  ReadSizes = {3, 6}
  SamplingFrequency = 3
  TicksPerSec = 7
  TS_TO_NS = 2
  FirstIds = {0, 1}
  IdRange = 16
  SizeRange = 64
  IntRange = 128
  MaxSocket = 2
  MaxClock = 28
  MaxStarts = 2
  Overlap = FALSE
INVARIANT TimestampIsFirstSample
CHECK_DEADLOCK FALSE
