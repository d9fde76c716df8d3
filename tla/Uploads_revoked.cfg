SPECIFICATION Spec
CONSTANTS
  cad = cad
  bad = bad
  scan = scan
  Docs = {cad}
  Extractable = {cad}
  HasMesh = {}
  Warns = {}
  NumChunks <- MCNumChunks
  MaxCrashes = 1
INVARIANTS
  RevokedStaysHidden
CHECK_DEADLOCK FALSE
