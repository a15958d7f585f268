SPECIFICATION Spec
CONSTANTS
  MOTION_WAKE = TRUE
  SensorFaults = FALSE
  PmicFaults = FALSE
  NRF_CLOUD = FALSE
  SETTLE_CYCLES = 2
  FORCE_PUBLISH = TRUE
  ModemFaults = FALSE
  MaxQuiet = 0
  MaxResets = 0
PROPERTIES
  PowerRestartsGrace
