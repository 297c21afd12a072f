SPECIFICATION ProgressSpec
CONSTANTS
  Areas = {"accepting", "official", "local", "store"}
  Subjects = {s1}
  MaxTime = 3
  Products <- MCProducts
  Tokens <- MCTokens
  TokenInfo <- MCTokenInfo
  Proofs <- MCProofs
  TrustedRoot <- Root
  StoreStates = {"on_hold", "pending"}
  Period = 2
  MaxChanges = 1
  Requests = {r1}
  QueuedKinds = {"coach"}
  Keys = {k1}
  Payloads <- MCPayloads
  Contents = {i1}
  ForbiddenKeys = {"iban"}
  MaxDepth = 2
  IdempotencyTTL = 1
  JobTTL = 2
  ImageTTL = 1
  BatchSize = 1
  MaxJobs = 2
  MaxUploads = 1
  Calls = {c1}
  Cohorts = {h1}
  Scores = {1, 2}
  MinimumSize = 2
  DayLength = 2
  TTLDays = 1
  Publishers = {p1, p2}
  Sources = {"tuik"}
  Responses <- MCLivelyResponses
  MaximumRedirects = 1
  MaximumAttempts = 2
  MaximumDelay = 2
  MaximumBytes = 1
  Today = 3
  General = 1
  LocalOwners = {s1}
  LocalKinds = {"coach", "receipt"}
  LocalKeys = {k1, k2}
  LocalPayloads = {q1}
  MaxLocalJobs = 3
  MaxLocalImages = 3
  Configurations <- MCConfigurations
  Exchanges <- MCExchanges
  TokenSubjects = {u1}
  DefaultBytes = 2
  ReceiptBytes = 4
  BodyDepth = 2
  PrivateKeys = {"iban"}
  MinTokenLife = 1
  MaxTokenLife = 1
  ClockSkew = 0
  GateEnd = 3
  RequestIds = {n1, n2, n3}
  MaxRequests = 2
  Window = 3
  Grace = 1
  Drift = 1
  FailOpen = TRUE
  RateEnd = 5
  ForecastWorkers = {"w1", "w2"}
  Release <- MCRelease
  ForecastSeries <- MCSeries
  Horizons = {1, 3}
  ProphetRuns <- MCRuns
  InitialTrainingDays = 4
  TestDays = 2
  StepDays = 2
  SeasonDays = 2
  CacheTtl = 1
  ForecastEnd = 1
  MaxForecasts = 2
  Images <- MCImages
  OcrAnswers <- MCAnswers
  MaximumImageBytes = 8
  MaximumPixels = 40
  VerticalTolerance = 5
  MinimumConfidence = 70
  ChatSessions = {"s1", "s2", "s3"}
  ChatQuestions <- MCQuestions
  Intents <- MCIntents
  FinancialIntents = {"debt", "savings"}
  MemoryTtl = 1
  MaxSessions = 2
  MaxTurns = 3
  ChatEnd = 2
  Cards <- MCCards
  CoachQuestions <- MCCoachQuestions
  ProviderReplies <- MCReplies
  SourceLimit = 3
  MaximumCitations = 2
  MaximumQuestion = 4
  MaximumContext = 8
  MaximumPrompt = 13
  Datasets <- MCDatasets
  Scale = 12
  Sigmoid <- MCSigmoid
  PlattCurves <- MCPlatt
  MinimumAuc = 65
  MinimumSamples = 3
  Deliveries <- MCDeliveries
  Checks = {"c1"}
  Handlers = {run1}
  MaxTaps = 2
  MaxFailures = 1
PROPERTIES
  WorkEnds
CHECK_DEADLOCK FALSE
