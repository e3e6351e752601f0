SPECIFICATION Spec
CONSTANTS
  Values <- SmallValues
  Step <- RoundedFrequency
  Rates <- ThreeRates
  Boot <- PowerUp
  RateStep = 9
  BootRate = 30719997
  InitConfig <- MainConfig
  InitRate = 1920000
  MaxSets = 4
  MaxFaults = 2
INVARIANTS TypeOK DeviceAsAsked RateCoherent
PROPERTY FailedRateIsRetried
CHECK_DEADLOCK FALSE
