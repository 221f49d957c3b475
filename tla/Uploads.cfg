SPECIFICATION FairSpec
CONSTANTS
  f1 = f1
  f2 = f2
  f3 = f3
  r1 = r1
  r2 = r2
  Files = {f1, f2, f3}
  Requests = {r1, r2}
  RequestOf <- MCRequestOf
  Clients = {c1, c2}
  Cleaners = {k1}
  Limit = 2
  Batch = 1
  MaxOthers = 1
  MaxUploads = 4
  None = None
INVARIANTS RegisteredObjectKept ObjectsAreTracked
PROPERTIES UploadsRespectLimit AbandonedIsReclaimed
