SPECIFICATION HistorySpec
CONSTANTS
  m1 = m1  m2 = m1  h1 = h1  h2 = h1
  Docs = {d1}
  Owners = {w1}
  Models = {m1}
  Hashes = {h1}
  MaxGen = 2
  MaxAttempts = 2
  None = None
PROPERTIES CleanupKeepsBarrier
CHECK_DEADLOCK FALSE
