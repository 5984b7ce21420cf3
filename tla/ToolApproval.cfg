SPECIFICATION FairSpec
CONSTANTS
  c1 = c1
  c2 = c2
  read = read
  write = write
  Call = {c1, c2}
  Tool = {read, write}
  ToolOf <- MCToolOf
  Safe = {read}
  Policies <- Switch
  InitialPolicy <- AutoMode
  Criteria = {{write}, {}}
  EvaluatorWired = TRUE
  EvaluatorAnswer = {"approve", "deny", "escalate", "raises"}
INVARIANTS NoPendingAllowed StreamIsTrue BracketClosedOnce
PROPERTIES FirstDecisionWins GatesAreFreed
CHECK_DEADLOCK FALSE
