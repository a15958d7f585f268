SPECIFICATION FairSpec
CONSTANTS
  MOTION_WAKE = TRUE
  SensorFaults = TRUE
  PmicFaults = FALSE
  NRF_CLOUD = FALSE
  SETTLE_CYCLES = 1
  FORCE_PUBLISH = FALSE
  ModemFaults = FALSE
  MaxQuiet = 2
  MaxResets = 0
PROPERTIES
  PowerServed
  WatchedWhenParked
  SleepsAgain
  BackstopWhenParked
