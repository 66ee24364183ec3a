SPECIFICATION Spec
CONSTANTS
  Event = {1, 2}
  Plain = {}
  Worker = {w1, w2}
  Exclusive = FALSE
  MaxAttempts = 2
  BatchSize = 2
  MaxReplays = 1
  MaxFaults = 0
SYMMETRY Symmetry
INVARIANTS
  NoConcurrentRun
  NothingLost
