SPECIFICATION Spec
CONSTANTS
  None = None
  DefaultMaxStaleness = 2
  ClockSkewTolerance = 0
  d1 = d1
  d2 = d2
  s1 = s1
  s2 = s2
  r1 = r1
  r2 = r2
  Docs = {d1, d2}
  Sources = {s1, s2}
  SourceOf <- TwoSources
  Roles = {r1, r2}
  Sites = {}
  Policies <- OnePolicy
  MaxDelay = 1
  Skew = 0
  MaxTime = 0
  MaxChanges = 0
PROPERTIES
  SweepDeletesOnlyRevoked
