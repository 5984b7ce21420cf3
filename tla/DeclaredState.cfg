SPECIFICATION Spec
CONSTANTS
  a = a
  b = b
  k1 = k1
  t1 = t1
  t2 = t2
  NoTask = NoTask
  None = None
  Dash = Dash
  Name = {a, b}
  Key = {k1}
  Task = {t1, t2}
  InitialDoc <- Documents
  Careless = {}
  MaxLen = 3
  MaxNodes = 2
  MaxWrites = 2
  MaxVersion = 2
  MaxRewinds = 1
SYMMETRY Symmetric
INVARIANTS ReplicaAgrees DirtyIsWhole StreamIsHistory
CHECK_DEADLOCK FALSE
