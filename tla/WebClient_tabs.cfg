SPECIFICATION FairSpec
CONSTANTS
  None = None
  i1 = i1
  i2 = i2
  d1 = d1
  q1 = q1
  q2 = q2
  p1 = p1
  p2 = p2
  p3 = p3
  s1 = s1
  s2 = s2
  k1 = k1
  k2 = k2
  Identities = {i1, i2}
  MaxSwitches = 1
  Reopened = {"uploads", "other"}
  MaxEvents = 1
  Docs = {d1}
  Shares <- MCShares
  MaxInFlight = 2
  MaxAclChanges = 1
  Questions = {q1, q2}
  Passages = {p1, p2, p3}
  Claims = {k1, k2}
  Documents = {s1, s2}
  Source <- MCSource
  Fits <- MCFits
  Weight <- MCWeight
  ChannelLimit = 2
  MaxEvidence = 2
  MaxPerDocument = 1
  Granted <- MCGranted
  MaxChanges = 1
  MaxChecks = 2
INVARIANTS
  ListingIsForIdentity
  DrawerShowsChecked
  MissingHasReason
PROPERTIES
  KeepsUp
CHECK_DEADLOCK FALSE
