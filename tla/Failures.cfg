SPECIFICATION FailuresSpec
CONSTANTS
  Starts = {r1}
  Chats = {c1}
  Stops = {s1}
  Bodies = {b1}
  FirstReply = FirstReply
  Troubles = {"delete", "end", "restart", "error"}
  None = None
  Workers = {w1, w2}
  ReminderAttempts = 2
  MaxDoubts = 2
  MaxRequeues = 1
INVARIANTS RepliesSettle ReminderHolds
PROPERTIES WorkFinishes SentStays
CHECK_DEADLOCK FALSE
