SPECIFICATION Spec
CONSTANTS
  PinFaults = FALSE
  EXTERNAL = TRUE
  MODEM_FALLBACK = TRUE
  POWER_CYCLE = TRUE
  AGNSS = TRUE
  STOP_DURING_FETCH = TRUE
  FULL_REQUEST = FALSE
  EXTRA_FIX = TRUE
  MinInterval = 2
  MaxAge = 3
INVARIANTS
  TypeOK
  OneReceiver
  SleepsDark
  NeverOldFix
  DarkWaitHasReason
  RequestOfThisRun
CHECK_DEADLOCK FALSE
PROPERTIES
  InjectionsSpaced
  TakesTurns
