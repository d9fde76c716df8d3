SPECIFICATION Spec
CONSTANTS
  None = None
  DefaultMaxStaleness = 1
  ClockSkewTolerance = 1
  d1 = d1
  d2 = d2
  r1 = r1
  n1 = n1
  n2 = n2
  c1 = c1
  c2 = c2
  c3 = c3
  d3 = d3
  c4 = c4
  c5 = c5
  q1 = q1
  open = open
  closed = closed
  Docs = {d1}
  Roles = {r1}
  Sites = {n1, n2}
  Policies <- MCPolicies
  Skew = 1
  MaxTime = 2
  Requests = {q1}
  Callers <- MCCallers
  Chunks = {c1, c2}
  DocOf <- MCDocOf
  Uploaded = {d1}
  Weight <- MCWeight
  Family <- MCFamily
  Scope <- MCScope
  Position <- MCPosition
  NumChannels = 2
  MaxEvidence = 2
  MaxPerDocument = 2
INVARIANTS
  TypeOK
  ShownWasVisible
