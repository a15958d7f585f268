SPECIFICATION Spec
CONSTANTS
  WDT_TIMEOUT = 19
  WDT_GUARD_PERIOD = 2
  EXTERNAL = TRUE
  MODEM_FALLBACK = TRUE
  AGNSS = TRUE
  FORCE_PUBLISH = FALSE
  SLEEP = 9
  LTE_TIMEOUT = 3
  CONNECT_BUDGET = 5
  AGNSS_BUDGET = 3
  PROACTIVE_WAIT = 1
  FIX_TIMEOUT = 4
  EXTRA_FIX = 2
  CHARGING_INTERVAL = 3
  GLANCE = 1
  SEND = 4
  CALL = 1
INVARIANTS TypeOK NoSpuriousReset HangBounded ResetIsNotReboot MarkerTells
