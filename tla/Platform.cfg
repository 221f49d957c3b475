SPECIFICATION PlatformSpec
CONSTANTS
  p1 = p1  o1 = o1  ch3 = ch3
  Processes = {p1, p2}  AuthRequests = {a1, a2}  LocalCapacity = 1
  MaxTokens = 2  MaxChanges = 2  MaxRedisFaults = 2
  Puzzles = {1, 2, 3, 4}  LoginRequests = {a1, a2}  MaxLoginFailures = 2
  IssueLimit = 4  MaxLocalSize = 2  MaxGuesses = 5  MaxOutages = 2
  OpenIds = {o1, o2}  Users = {u1}  Times = {1, 2}  Handlers = {a1, a2}
  MaxCallbacks = 3  MaxFailures = 1
  Members = {au, me, a1, a2, ad}  Teachers = {a1, a2}  Admins = {ad}
  Author = au  Replies = {x1, x2}  Nobody = Nobody
  Providers = {pr1}  Models = {x1, x2}  Keys = {k1}  Operators = {a1, a2}
  Nil = Nil  MaxRevision = 2
  Channels = {ch1, ch2, ch3}  Priority <- RelayPriority  Retries = 2
  SpeaksResponses = {ch1, ch3}  Calls = {a1, a2}  EnvChannel = env
  MaxPieces = 3  MaxEvents = 3  MaxTalk = 3
  Learners = {a1, a2}  Teacher = ad  LastDay = 1  Scheduled = {1, 2}
  MaxReminders = 2  MaxCount = 3  MaxAdjustments = 2
  Corpus <- TheCorpus  SearchRequests <- TheRequests  MaxCandidates = 3  MaxScoped = 1
  MaxBatch = 3  MaxBatchSize = 7  DefaultTopK = 2  MaxTopK = 3  MaxContext = 9
  Envelope = 1  MaxPoints = 2  MaxLibraryChanges = 2
  Accounts = {"s1", "s2"}  KnownAccounts = {"s1"}  BatchRows = 2  MaxFileRows = 6
  MaxRosterChanges = 1
  StorageTasks = {a1, a2}  Forms <- TheForms  BucketKeys <- TheBucketKeys  StorageKeys = {1}
  MaxEditions = 2
SYMMETRY Interchangeable
INVARIANTS PlatformTypeOK AccessHolds ServicesHold ResultsHold
PROPERTIES FactsStand
CHECK_DEADLOCK FALSE
