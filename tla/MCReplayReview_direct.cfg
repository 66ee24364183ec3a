SPECIFICATION FairSpec
CONSTANTS
  Letter = {l1}
  NoLetter = NoLetter
  Item = {i1, i2}
  Request = {r1, r2}
  HasUpdatedAt = TRUE
  DirectCreate = TRUE
  MaxFaults = 1
INVARIANTS
  ReplayNeedsApproval
  Settleable
PROPERTIES
  VerdictIsExecuted
  VerdictsTakeEffectOnce
