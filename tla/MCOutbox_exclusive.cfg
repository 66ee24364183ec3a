SPECIFICATION FairSpec
CONSTANTS
  Event = {1, 2}
  Plain = {}
  Worker = {w1, w2}
  Exclusive = TRUE
  MaxAttempts = 2
  BatchSize = 2
  MaxReplays = 1
  MaxFaults = 2
INVARIANTS
  IInv
  Accounted
  RetryBudget
PROPERTIES
  AckIsFinal
  EventPromise
  Settles
