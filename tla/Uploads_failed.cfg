SPECIFICATION Spec
CONSTANTS
  cad = cad
  bad = bad
  scan = scan
  Docs = {cad}
  Extractable = {cad}
  HasMesh = {}
  Warns = {}
  NumChunks <- MCNumChunks
  MaxCrashes = 0
INVARIANTS
  FailedIsIsolated
CHECK_DEADLOCK FALSE
