SPECIFICATION Spec
CONSTANTS
  MOTION_WAKE = FALSE
  SensorFaults = FALSE
  PmicFaults = FALSE
  NRF_CLOUD = FALSE
  SETTLE_CYCLES = 0
  FORCE_PUBLISH = TRUE
  ModemFaults = FALSE
  MaxQuiet = 1
  MaxResets = 0
PROPERTIES
  EverySilenceIsMet
