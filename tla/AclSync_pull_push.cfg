SPECIFICATION FairSpec
CONSTANTS
  None = None
  DefaultMaxStaleness = 1
  ClockSkewTolerance = 0
  d1 = d1
  d2 = d2
  s1 = s1
  s2 = s2
  r1 = r1
  r2 = r2
  Docs = {d1, d2}
  Sources = {s1}
  SourceOf <- OneSource
  Roles = {r1, r2}
  Sites = {}
  Policies <- MCPolicies
  MaxDelay = 1
  Skew = 0
  MaxTime = 3
  MaxChanges = 2
INVARIANTS
  TypeOK
  StampInv
  MatchInv
  BoundedExposure
PROPERTIES
  ReconcileMatches
  StoreSpec
  Converges
