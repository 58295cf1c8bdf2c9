SPECIFICATION SuiteSpec
CONSTANTS
  t1 = t1
  t2 = t2
  bad = bad
  keyless = keyless
  task1 = task1
  task2 = task2
  NoTime = NoTime
  Txs = {t1, t2, bad, keyless}
  Keyed = {t1, t2, bad}
  Valid = {t1, t2, keyless}
  MaxPerSync = 2
  DedupWindow = 2
  MaxBatch = 3
  ApiCall = {1, 2, 3}
  MonthlyLimit = 2
  DailyLimit = 1
  MonthOf <- MonthOfDay
  MaxErrors = 1
  Key = {"k"}
  TierRpm = {1, 3}
  DefaultRpm = 2
  PartsPerToken = 4
  MaxSeconds = 8
  MaxAdmitted = 6
  QueryType = {"q1"}
  Cost = {2, 5}
  BudgetCaller = {"b1", "b2"}
  BudgetEpsilon = 5
  WindowLength = 3
  MaxRecent = 2
  MaxWait = 1
  MaxClock = 5
  Worker = {"w"}
  DecisionType = {"LoanApplication", "LoanEligibility"}
  TimeoutSeconds = 1
  MaxTime = 2
  MaxAnswers = 2
  Version = {"v1", "v2", "v3"}
  Share = {5}
  GivenModel <- SomeGiven
  MinSamples = 2
  MaxTests = 1
  MaxOutcomes = 4
  Task = {task1, task2}
  CallLists <- OneResponse
  MaxIterations = 3
  MaxToolCalls = 2
  Threshold = 2
  MaxMessages = 2
  MaxStrategies = 1
  LastSecond = 1
  Caller = {"c1", "c2"}
  MaxRetries = 2
  FailureThreshold = 2
  RecoverySecs = 1
  MaxQueries = 6
  TaskType = {"General"}
  Registrable <- SomeProviders
  Orders <- SomeOrders
  SyncRequest = {"p1", "p2"}
  Messages <- SentMessages
  Cohort = {"A", "B"}
  Sizes = {9, 10}
  MinK = 10
  MaxCalls = 3
  Request = {"r1", "r2", "r3", "r4"}
  Approval = {"r1"}
  MaxBufferSize = 2
  Place = {"n", "s"}
  Trade = {"t", "u"}
  Member = {1, 2, 3, 4, 5}
  K = 3
  MaxLog = 3
  Drained = 2
  MaxDecisions = 4
  Period <- KeptFor
  BatchLimit = 1
  Person = {"p"}
  CohortHash = {"h"}
  LastDay = 2
  MaxRows = 2
  Creator = {"c1", "c2"}
  Receipt = {"x", "y"}
  DaysToPay = 0
  YearDays = 1
  MaxDay = 1
  MaxInvoices = 2
  Sharer = {"c1", "c2"}
  EntryId = {"i", "j"}
  MaxConversation = 2
  MaxEntries = 1
  MaxOperations = 4
  PredictedCohort = {"c1", "c2"}
  Value = {4, 10}
  Confidence = {4, 9}
  DriftWindow = 2
  MinDriftSamples = 2
  MinCohortSamples = 1
  AccuracyThreshold = 7
  ConfidenceThreshold = 5
  DegradationPercent = 15
  Baseline = {5, 9}
  MaxSamples = 3
  LoanCohort = {"c1"}
  LoanId = {"i1", "i2"}
  Score = {3, 10}
  MaxPending = 1
  MaxLoanOutcomes = 2
  MinOutcomes = 2
  RetrainDays = 0
  MaxDays = 1
  MaxRecorded = 3
  Product = {"food", "fuel"}
  Earner = {"w1"}
  Demand = {2000}
  Batches <- SomeBatches
  MinSample = 2
  PriceWindow = 3
  ProfileDays = 2
  EligibleDays = 2
  StableDays = 2
  MinCount = 3
  MinVolume = 3
  MinBroadcasts = 2
  LoadLimit = 2
  CategoryOf <- SomeBroadcasts
  MaxTaken = 3
  MaxStarts = 2
INVARIANTS GatewayTypeOK LimitsHold ConsentGoverns PredictionsAreServed AgentsAccounted LearningKept LearningAddsUp RecordsComplete DataProtected
PROPERTIES CountedAgainOnlyPastWindow SettledStays
CHECK_DEADLOCK FALSE
