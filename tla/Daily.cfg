CONSTANTS
  None = None  HistoryLimit = 1  PracticeBound = 1
  Students = {s1, s2}  Contents = {c1, c2}  Visitors = {v1, v2}  Background = {b1}
  Editors = {e1}  LastDay = 1  MaxRetries = 1  RetryBound = 2  SaveBound = 2
SPECIFICATION SceneSpec
INVARIANTS RowsHold
PROPERTIES GivenStays HolderSettles
SYMMETRY Symmetry
CHECK_DEADLOCK FALSE
