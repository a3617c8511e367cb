SPECIFICATION Spec
CONSTANTS
  s1 = s1
  s2 = s2
  b1 = b1
  k1 = k1
  k2 = k2
  j1 = j1
  j2 = j2
  Null = Null
INVARIANTS OrderCanBePlaced
CHECK_DEADLOCK FALSE
