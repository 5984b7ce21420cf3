SPECIFICATION Spec
CONSTANTS
  a1 = a1
  q1 = q1
  r1 = r1
  h1 = h1
  Send = {a1, r1}
  Other = {h1}
  Cancellable = {r1}
  MidTurn <- MCMidTurn
  MaxCrashes = 1
  MaxDisturbances = 2
  NoMemo = NoMemo
INVARIANTS ReplyNotLost
CONSTRAINT FewDisturbances
CHECK_DEADLOCK FALSE
