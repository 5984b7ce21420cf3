SPECIFICATION FairSpec
CONSTANTS
  Tab = {t1, t2}
  MaxWork = 1
  CallAt = 1
  MaxTroubles = 1
INVARIANTS FollowersAgree WaitingIsDispatched
PROPERTY NewsReach
CHECK_DEADLOCK FALSE
