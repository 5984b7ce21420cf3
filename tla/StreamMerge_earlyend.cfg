SPECIFICATION Spec
CONSTANTS
  a0 = a0
  a1 = a1
  a2 = a2
  Stream = {a0, a1, a2}
  Root = a0
  Scene <- MCScene
INVARIANTS Drained
CHECK_DEADLOCK FALSE
