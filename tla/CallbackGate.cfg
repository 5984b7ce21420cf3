SPECIFICATION FairSpec
CONSTANTS
  Call = {t1, t2, u1}
  Timed = {t1, t2}
INVARIANT ResolutionRules
PROPERTIES AcceptedStands ParkedCallsEnd
CHECK_DEADLOCK FALSE
