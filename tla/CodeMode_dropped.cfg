SPECIFICATION Spec
CONSTANTS
  MaxCalls = 3
  MaxSteps = 3
  MaxReplays = 2
  Gated = {1, 2}
INVARIANT EveryCallIsStarted
CHECK_DEADLOCK FALSE
