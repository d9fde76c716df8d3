SPECIFICATION Spec
CONSTANTS
  s1 = s1
  c1 = c1
  c2 = c2
  c3 = c3
  pump = pump
  valve = valve
  w1 = w1
  w2 = w2
  Chunks = {s1, c1, c2, c3}
  Terms = {pump, valve}
  TermsOf <- MCTermsOf
  Length <- MCLength
  Seed <- MCSeed
  SeedLength = 1
  Writers = {w1, w2}
  Upload <- MCUpload
  Readers = {r1}
INVARIANTS
  TypeOK
  NeverFails
  HitsMatch
  FindsAdded
