SPECIFICATION Spec
CONSTANTS
  MOTION_WAKE = TRUE
  SensorFaults = FALSE
  PmicFaults = FALSE
  NRF_CLOUD = FALSE
  SETTLE_CYCLES = 1
  FORCE_PUBLISH = FALSE
  ModemFaults = FALSE
  MaxQuiet = 0
  MaxResets = 0
PROPERTIES
  WakesWithReason
