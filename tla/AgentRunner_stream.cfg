SPECIFICATION Spec
CONSTANTS
  a1 = a1
  a2 = a2
  q1 = q1
  q2 = q2
  r1 = r1
  None = None
  Message = {a1, a2, q1}
  MidTurn <- MCMidTurn
  SteeringId = {s1}
  CloseAfterIdle = TRUE
  CancelEscapes = FALSE
INVARIANTS StreamWellFormed SteeringSettledOnce
PROPERTY ImplementsSession
CHECK_DEADLOCK FALSE
