SPECIFICATION FairSpec
CONSTANTS
  r1 = r1
  r2 = r2
  a1 = a1
  Run = {r1, r2}
  Generic = {}
  Asset = {a1}
  AssetOf <- OneAsset
  Workers = 2
  MaxAttempts = 2
  MaxReplays = 1
  MaxAsks = 1
  MaxFaults = 1
INVARIANT IInv
INVARIANT NeverAbandoned
INVARIANT OneDocument
INVARIANT JobTellsTruth
PROPERTY RunHasOneLife
PROPERTY Settles
CHECK_DEADLOCK FALSE
