SPECIFICATION FairSpec
CONSTANTS
  c1 = c1
  c2 = c2
  read = read
  write = write
  Call = {c1}
  Tool = {read, write}
  ToolOf <- MCToolOf
  Safe = {read}
  Policies <- Switch
  InitialPolicy <- AutoMode
  Criteria = {{write}, {}}
  EvaluatorWired = TRUE
  EvaluatorAnswer = {"approve", "deny", "escalate", "raises"}
PROPERTY AutoModeOffIsOff
CHECK_DEADLOCK FALSE
