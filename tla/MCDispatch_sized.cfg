SPECIFICATION Spec
CONSTANTS
  Worker = {w1, w2, w3}
  NoWorker = NoWorker
  TTL = 3
  HB = 1
  MaxIter = 1
  MaxErrors = 1
  Event = {1}
  Plain = {}
  MaxAttempts = 2
  BatchSize = 1
  MaxReplays = 1
  MaxFaults = 2
SYMMETRY Symmetry
INVARIANTS
  ActiveOwnsKey
PROPERTIES
  IsOutbox
