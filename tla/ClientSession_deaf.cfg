SPECIFICATION FairSpec
CONSTANTS
  m1 = m1
  o1 = o1
  r1 = r1
  r2 = r2
  r3 = r3
  None = None
  Own = {m1}
  Other = {o1}
  Run = {r1, r2, r3}
  IdlePoll = FALSE
  Budget = 1
  MaxTroubles = 0
PROPERTIES SentIsSeen
CHECK_DEADLOCK FALSE
