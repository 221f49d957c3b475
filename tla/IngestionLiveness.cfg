SPECIFICATION FencesSpec
CONSTANTS
  m1 = m1  m2 = m1  h1 = h1  h2 = h1
  Docs = {d1}
  Owners = {w1, w2}
  Models = {m1}
  Hashes = {h1}
  MaxGen = 1
  MaxAttempts = 2
  None = None
PROPERTIES JobsSettle WithdrawnPointsVanish
CHECK_DEADLOCK FALSE
