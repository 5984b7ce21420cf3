SPECIFICATION Spec
CONSTANTS
  Tab = {t1, t2}
  MaxWork = 2
  CallAt = 1
  MaxTroubles = 2
PROPERTY OnlyHolderRuns
CHECK_DEADLOCK FALSE
