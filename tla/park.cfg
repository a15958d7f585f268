SPECIFICATION Spec
CONSTANTS
  MOTION_WAKE = TRUE
  SensorFaults = FALSE
  PmicFaults = TRUE
  NRF_CLOUD = TRUE
  SETTLE_CYCLES = 2
  FORCE_PUBLISH = TRUE
  ModemFaults = TRUE
  MaxQuiet = 2
  MaxResets = 1
INVARIANTS
  TypeOK
  NoLostWake
  MotionWakeAfterGrace
  PowerWakeIsGraced
  NeverSendPaused
  BounceOncePerSilence
PROPERTIES
  ParksAsPromised
  WholeSignals
