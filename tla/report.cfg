SPECIFICATION Spec
CONSTANTS
  OFFLINE_DEBUG = FALSE
  KEY_IS_SET = TRUE
  MaxReports = 2
  Word = 4
  SURGE = 2
  MaxUptime = 9
  Voltages = {3199, 3599, 3750, 4199, 4200}
INVARIANTS
  TypeOK
  AtMostOnce
  NothingLeftOpen
  TornReadHarmless
  AwakeCountsWords
  BatteryOnCurve
PROPERTY
  DeliversAsPromised
