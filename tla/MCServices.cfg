SPECIFICATION MCSpec
CONSTANTS
  Messages = {"m1", "m2"}
  Triagers = {1, 2}
  Rank <- MCRank
  ReclaimAfter = 2
  WorkTime = 2
  HumanRequests = {"q1", "q2"}
  ExpiryOrder <- MCExpiryOrder
  Runs = {1, 2}
  ReapBatch = 2
  Rows = {"r"}
  Drains = {1, 2}
  DrainBatch = 1
  MaxAttempts = 3
  Payments = {"a", "b"}
  Amount <- MCAmount
  DailyLimit = 1
  MaxScore = 2
  Calls = {1, 2}
  RequestIds = {"i"}
  Grantable = {"write", "pay", "mint"}
  Shapes <- MCShapes
  LawForbids = {"mint"}
  Rules <- MCRules
  Proofs = {"p"}
  Verifiers = {1, 2}
  Processes = {"i", "j"}
  Lifetime = 1
  Table = "table"
  Segments = {"pay", "usdc", "eur", "vote", "*"}
  Star = "*"
  Capabilities <- MCCapabilities
  Requested <- MCRequested
  Limits = {1}
  MaxDepth = 1
  LastTime = 2
  Floor <- MCFloor
  Tiers = 2
  Scores = {}
  Digests = {"a", "b"}
  MaxRejections = 2
  MaxRounds = 3
  Producers = {1, 2}
  Subjects = {"s", "t", "doer"}
  Events <- MCEvents
  Writers <- MCWriters
  Doer = "doer"
  Corpus = {1, 2, 3}
  Batch = 2
  ReplayLimits <- MCReplayLimits
  MaxRuns = 2
INVARIANTS
  TypeOK
  MessagesAreAnsweredOnce
  PaymentsAreAccountedFor
  NoncesAreSpentOnce
  ChainsNarrow
  WorkIsJudged
  RecordsTellTheTruth
PROPERTIES
  DecisionsStand ActionsRunOnce HistoriesAreAppended NothingIsLeftWaiting
CHECK_DEADLOCK FALSE
