SPECIFICATION Spec
CONSTANTS
  OFFLINE_DEBUG = FALSE
  KEY_IS_SET = TRUE
  MaxReports = 1
  Word = 2
  SURGE = 2
  MaxUptime = 4
  Voltages = {3750}
INVARIANT
  AwakeIsSinceWake
