SPECIFICATION FairSpec
CONSTANTS
  cad = cad
  bad = bad
  scan = scan
  Docs = {cad, bad, scan}
  Extractable = {cad, scan}
  HasMesh = {cad}
  Warns = {scan}
  NumChunks <- MCNumChunks
  MaxCrashes = 1
INVARIANTS
  TypeOK
  NothingDangles
  CompletedIsWhole
  RefusedLeavesNothing
PROPERTIES
  TerminalIsFinal
  LifecycleSpec
  EventuallyTerminal
CHECK_DEADLOCK FALSE
