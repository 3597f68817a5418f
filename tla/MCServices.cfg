SPECIFICATION ServicesSpec
CONSTANTS
  NoItem = NoItem
  Items = {q1, q2}
  Mistakes = {q1, q2}
  MaxSessions = 2
  Planned = 2
  DailyLimit = 2
  MaxHandlers = 2
  MaxAborts = 1
  MaxExpiries = 1
  q1 = q1
  q2 = q2
  malformed = malformed
  third = third
  v1 = v1
  v2 = v2
  QuizIds = {q1, q2}
  RequiredRepeats = 2
  RequiredDays = 2
  Available = 2
  MaxAnswers = 3
  MaxBacklog = 3
  MaxJobs = 2
  MaxDays = 2
  TelegramUpdates = {q1, q2, malformed}
  MalformedUpdates = {malformed}
  FlushLimit = 2
  MaxPosts = 4
  MaxRedisFailures = 1
  MaxRestarts = 1
  Arrivals = {q1, q2, third}
  Incoming = {q1, q2}
  InFlightLimit = 1
  LeaseTtl = 2
  SeenTtl = 2
  HitLimit = 1
  Window = 2
  MaxClock = 3
  MaxBackendFaults = 1
  CatalogItems = {q1, q2}
  Versions = {v1, v2}
  Checksums = {1, 2}
  Showable = {2}
  NoCount = NoCount
  CountTtl = 1
  MaxImports = 2
  MaxReaders = 1
  MaxRetries = 1
  Threshold = 2
  ResetTicks = 2
  MaxCalls = 2
  Processes = {q1, q2}
  CacheTtl = 3
  Missing = Missing
  Levels = {q1, q2}
  Themes <- TwoThemes
  Groups = {"group"}
  GroupOf <- OneGroup
  SlugOf <- TwoSlugs
  Offered <- OneThemeOfALevel
  NoChoice = NoChoice
  MaxPresses = 2
CONSTRAINTS OneSetback OneMistake
SYMMETRY ServicesSymmetry
INVARIANTS ServicesTypeOK ChargedPerShownQuestion AnswersCountedOnce OneActiveSession LearnerCanGoOn MistakeMatchesAnswers ResolvedOverDays ScoresSeeEveryMistake OkMeansOnStream SlotsHoldAndComeBack WindowNeverExceeded OneCatalogVersion NoMoreOnlyWhenNoneLeft WrongCountForOneTtl ServedAtMostOnce ValuesWearOut SavedPairIsPlayable
PROPERTIES EndedStaysEnded
CHECK_DEADLOCK FALSE
