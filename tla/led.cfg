SPECIFICATION FairSpec
CONSTANTS
  ON_BATTERY = FALSE
  RESUBMIT_SURVIVES = FALSE
  MaxNotices = 1
INVARIANTS
  TypeOK
  SleepsUnlit
  PatternHonoured
  SteadyIsTrue
  AttachIsNews
PROPERTIES
  OnlyEarlyIsMissed
  Blinks
