SPECIFICATION LearningSpec
CONSTANTS
  s1 = s1  s2 = s2
  Chats = {c1, c2, c3}
  None = None
  Clients = {c1, c2}
  SubmissionIds = {s1, s2}
  SuccessTarget = 2
  MaxAttempts = 3
  MaxVersion = 2
  Letters <- TwoLetters  Formulas = {"x", "y"}  MaxExponent = 2
  Pool = {1, 2, 3}  ConceptsOf <- TheConcepts  LevelOf <- TheLevels  Generated = {3}  Concepts = {"limit", "series"}  Levels = {1, 2}
  SequenceLimit = 2  RecentLimit = 1  PracticeTarget = 1
  Pages = {g1, g2}  g1 = g1  g2 = g2  MaxAnswers = 3
  Nodes = {1, 2, 3}  Threshold = 1
  SemesterDays = {1, 2, 6, 7, 8, 152, 153, 211, 212}  Lookback = 3
  Classmates = {1, 2, 3}  Me = 1  MaxCount = 2  MinClassSize = 3  MinAccuracy = 1
  Topics = {1, 2, 3}  MinTopic = 2  Listed = 2  Target = 1
  Contents = {1, 2, 3}  MasteryOf <- TheMastery  PageSize = 2
  Goals = {0, 2}  Weakest = 1  RecentAttempts = 1  HistoryLimit = 2  LastDay = 5
SYMMETRY Interchangeable
INVARIANTS LearningTypeOK StudyHolds LearningHolds FiguresHold
PROPERTIES RecordsStand SubmissionsAreRegistered
CHECK_DEADLOCK FALSE
