SPECIFICATION Spec
CONSTANTS
  s1 = s1
  s2 = s2
  na = na
  nb = nb
  nx = nx
  Script = {s1, s2}
  Name = {na, nb, nx}
  Scenes <- MCScenes
  MaxDepth = 3
  MaxSize = 1
  MaxBytes = 1
INVARIANTS TreeIsWhole OperationIsWhole IndexIsTrue
PROPERTY ChangesLast
