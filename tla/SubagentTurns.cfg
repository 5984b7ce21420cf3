SPECIFICATION FairSpec
CONSTANTS
  a1 = a1
  q1 = q1
  r1 = r1
  h1 = h1
  Send = {a1, r1}
  Other = {h1}
  Cancellable = {r1}
  MidTurn <- MCMidTurn
  MaxCrashes = 1
  MaxDisturbances = 2
  NoMemo = NoMemo
CONSTRAINT FewDisturbances
INVARIANTS BracketsInOrder ParentIsTold
PROPERTY EverySendEnds
CHECK_DEADLOCK FALSE
