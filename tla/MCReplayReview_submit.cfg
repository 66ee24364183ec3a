SPECIFICATION Spec
CONSTANTS
  Letter = {l1, l2}
  NoLetter = NoLetter
  Item = {i1, i2}
  Request = {r1, r2}
  HasUpdatedAt = TRUE
  DirectCreate = FALSE
  MaxFaults = 1
SYMMETRY Symmetry
INVARIANTS
  IInv
  SubmitsDoNotRace
