SPECIFICATION SchoolSpec
CONSTANTS
  Starts = {r1, r2}
  Chats = {c1}
  Stops = {}
  Bodies = {b1, b2}
  FirstReply = FirstReply
  Troubles = {"delete"}
  None = None
  MaxMessages = 3  MaxClock = 2  PageSize = 1
  Announcements = {1, 2}  Readers = {u1}  MaxEdits = 2
  t1 = t1  g1 = g1  q1 = q1
  Students = {t1, t2}  ClassIds = {g1, g2}  EnrollmentIds = {1, 2}
  NoClass = NoClass  MaxTime = 4  Skews <- ClockSkews
  Problems = {q1, q2}  Options = {"a", "b"}  Concepts = {k0, k1}  Uncategorized = k0
  Calls = {e1, e2}  PlannedDays = 1  Unset = Unset
SYMMETRY Interchangeable
INVARIANTS FirstChatHolds SchoolTypeOK NewsAgree ClassesAgree
PROPERTIES ChargedWhenStored NewsIsSeen PastStands
CHECK_DEADLOCK FALSE
