SPECIFICATION FairSpec
CONSTANTS
  a1 = a1
  a2 = a2
  q1 = q1
  q2 = q2
  r1 = r1
  None = None
  Message = {a1, a2, q1, r1}
  MidTurn <- MCMidTurn
  SteeringId = {}
  CloseAfterIdle = TRUE
  CancelEscapes = TRUE
VIEW WithoutLog
INVARIANT TurnAccounting
PROPERTIES MessagesAreRun AgentEnds
CHECK_DEADLOCK FALSE
