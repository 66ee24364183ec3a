SPECIFICATION FairSpec
CONSTANTS
  Worker = {w1, w2, w3}
  NoWorker = NoWorker
  TTL = 4
  HB = 2
  MaxIter = 2
  MaxFaults = 2
INVARIANTS
  IInv
PROPERTIES
  KeyIsNeverStolen
  LeaderReturns
