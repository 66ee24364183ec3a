SPECIFICATION FairSpec
CONSTANTS
  Letter = {l1}
  NoLetter = NoLetter
  Item = {i1}
  Request = {r1}
  HasUpdatedAt = FALSE
  DirectCreate = FALSE
  MaxFaults = 0
PROPERTIES
  VerdictIsCertain
