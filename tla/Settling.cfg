SPECIFICATION SettlingSpec
CONSTANTS
  Chat = {c1}  Responses = {p1}  Unmetered = {u1}  Settings <- Changing
  None = None  HistoryLimit = 1  PracticeBound = 0
  Students = {s1}  Contents = {d1}  Visitors = {v1}  Background = {b1}
  Editors = {}  LastDay = 0  MaxRetries = 1  RetryBound = 2  SaveBound = 1
INVARIANTS ConcurrencyHeld QuotaHeldUnlessStale
PROPERTIES SlotsReturn PreparationSettles
CHECK_DEADLOCK FALSE
