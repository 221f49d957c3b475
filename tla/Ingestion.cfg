SPECIFICATION SceneSpec
CONSTANTS
  m1 = m1  m2 = m2  h1 = h1  h2 = h2
  Docs = {d1, d2}
  Owners = {w1, w2}
  Models = {m1, m2}
  Hashes = {h1, h2}
  MaxGen = 2
  MaxAttempts = 2
  None = None
SYMMETRY Symmetric
INVARIANTS PublishedIsServed SweepStaysExtra
PROPERTIES WithdrawalIsFinal SwitchesAreSafe CleanupKeepsStatus
CHECK_DEADLOCK FALSE
