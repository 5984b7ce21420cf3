SPECIFICATION Spec
CONSTANTS
  Tab = {t1, t2}
  MaxWork = 2
  CallAt = 3
  MaxTroubles = 2
INVARIANT UnseenIsUnpolled
CHECK_DEADLOCK FALSE
