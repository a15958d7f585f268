SPECIFICATION FairSpec
CONSTANTS
  MOTION_WAKE = FALSE
  SensorFaults = FALSE
  PmicFaults = FALSE
  NRF_CLOUD = TRUE
  SETTLE_CYCLES = 0
  FORCE_PUBLISH = TRUE
  ModemFaults = FALSE
  MaxQuiet = 2
  MaxResets = 0
PROPERTIES
  SilenceIsNoticed
