SPECIFICATION Spec
CONSTANTS
  c1 = c1
  c2 = c2
  read = read
  write = write
  Call = {c1, c2}
  Tool = {read, write}
  ToolOf <- MCToolOfEach
  Safe = {read}
  Policies <- Relaxing
  InitialPolicy <- AutoMode
  Criteria = {{write}}
  EvaluatorWired = TRUE
  EvaluatorAnswer = {"approve", "escalate"}
INVARIANT NoPendingAllowed
CHECK_DEADLOCK FALSE
