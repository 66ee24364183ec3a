SPECIFICATION Spec
CONSTANTS
  NoProject = NoProject
  NoContent = NoContent
  Request = {r1, r2, r3}
  Key = {k1, k2}
  Content = {a, b}
  Project = {p1, p2}
  Processes = 1
  MaxFaults = 2
SYMMETRY Symmetry
INVARIANTS
  IInv
  CreatedIsKept
  DuplicateIsKept
  FailsForAReason
CHECK_DEADLOCK FALSE
