SPECIFICATION FairSpec
CONSTANTS
  r1 = r1
  r2 = r2
  r3 = r3
  a = a
  b = b
  None = None
  Runners = {r1, r2, r3}
  Versions = {1, 2, 3}
  Checksums = {a, b}
  Releases <- MCReleases
INVARIANTS
  TypeOK
  InStep
  ExecutedOnce
  ServedBySchema
PROPERTIES
  ReleaseToRelease
  Ends
