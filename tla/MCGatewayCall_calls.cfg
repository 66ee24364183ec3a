SPECIFICATION Spec
CONSTANTS
  Call = {c1, c2, c3}
  Key = {k1, k2, k3}
  NoKey = NoKey
  Threads = 2
  MaxRequests = 1
  MaxRetries = 1
  MaxFaults = 2
SYMMETRY Symmetry
INVARIANTS
  IInv
  TablesAgree
  KnowsItCalled
  OneCallPerKey
  OverrunIsBounded
PROPERTIES
  RowsFollowTheTable
CHECK_DEADLOCK FALSE
