CONSTANTS
  None = None  HistoryLimit = 1  PracticeBound = 1
  Students = {s1}  Contents = {c1, c2}  Visitors = {v1}  Background = {}
  Editors = {e1, e2}  LastDay = 0  MaxRetries = 1  RetryBound = 1  SaveBound = 3
SPECIFICATION WholeSpec
PROPERTIES SavesReplaceWhatTheyShowed
CHECK_DEADLOCK FALSE
