SPECIFICATION Spec
CONSTANTS
  None = None
  FrameItems = 4
  Lengths <- SomeLengths
  Times <- SomeTimes
  SamplingFrequency = 3
  NanosPerSec = 20
  TS_TO_NS = 3
  Nudge = 5
  Window = 50
  IdRange = 8
  SOAPY_SDR_ERROR = 3
  MaxTrials = 5
  MaxBursts = 3
PROPERTY TakenMeansSent
CHECK_DEADLOCK FALSE
