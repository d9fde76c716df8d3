SPECIFICATION Spec
CONSTANTS
  None = None
  pump = pump
  old = old
  bad = bad
  junk = junk
  P = P
  S = S
  Docs = {pump, old}
  Numbers = {P, S}
  Recognised <- MCRecognised
  Broken = {}
  Convertible = {old}
  Parts <- MCParts
  Optional = {}
  Workers = 2
INVARIANTS
  OneCanonicalId
