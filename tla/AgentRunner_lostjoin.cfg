SPECIFICATION FairSpec
CONSTANTS
  a1 = a1
  a2 = a2
  q1 = q1
  q2 = q2
  r1 = r1
  None = None
  Message = {a1, q1}
  MidTurn <- MCMidTurn
  SteeringId = {}
  CloseAfterIdle = FALSE
  CancelEscapes = FALSE

PROPERTY JoinedIsRun
CHECK_DEADLOCK FALSE
