SPECIFICATION Spec
CONSTANTS
  NoMemory = NoMemory
  Memory = {m1, m2, m3}
  Fact = {f, g}
  Thread = {t1, t2}
  MaxVersion = 4
  MaxRequests = 3
SYMMETRY Symmetry
INVARIANT CanBeChanged
CHECK_DEADLOCK FALSE
