SPECIFICATION Spec
CONSTANTS
  None = None
  pump = pump
  old = old
  bad = bad
  junk = junk
  P = P
  S = S
  Docs = {pump, old, bad, junk}
  Numbers = {P, S}
  Recognised <- MCRecognised
  Broken = {bad}
  Convertible = {old}
  Parts <- MCParts
  Optional = {"OCP", "FreeCAD"}
  Workers = 2
INVARIANTS
  TypeOK
  RecognisedIsKept
  ReleasedIsCleared
  OneIdPerPart
  NoCircularAssembly
PROPERTIES
  ReingestKeepsIds
