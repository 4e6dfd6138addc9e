SPECIFICATION MCSpec
CONSTANTS
  c1 = c1
  c2 = c2
  c3 = c3
  a1 = a1
  a2 = a2
  plain = plain
  floored = floored
  Callers <- MCCallers
  Routed <- OneRouted
  Threshold = 2
  ResetTimeout = 2
  SuccessesToClose = 2
  Attempts <- MCAttempts
  RunTimeout = 4
  IdleTimeout = 2
  Criteria <- MCCriteria
  Scores = {0, 1}
  Floor <- MCFloor
  NoFloor = none
  MaxVerdicts = 3
  Configs <- MCConfigs
  Default <- Small
  Charges = {1, 3}
  LastTime = 4
  MaxAccrued = 8
  MaxAttempts = 4
  InitialDelay = 1
  BackoffFactor = 2
  MaxDelay = 3
  Jitter = 1
  JitterParts = 2
  Confidences = {0, 1, 2}
  MarginFloor = 2
  EarnedFloor = 1
  ConfidenceFloor = 1
  CapPart = 1
  CapWhole = 3
  MaxDecisions = 7
  Validators = {1, 2, 3, 4, 5}
  Weight <- MCWeight
  BarPart = 2
  BarWhole = 3
  MinValidators = 4
  FaultTolerance = 1
  Ranked = {"a", "b", "c"}
  Merit <- MCMerit
  Order <- MCOrder
  ColdUntil = 2
  MaxObservations = 2
  Ids = {"x"}
  Processes = {1, 2}
  MaxOutcomes = 3
  CallTimeout = 3
  Experts = {"a", "b"}
  BaseSlots = 2
  MinSlots = 1
  MaxSlots = 2
  Warmup = 1
  Latencies = {1}
  Workers = 2
  AbortGrace = 2
  Specs <- MCSpecs
  Mistyped <- NotANumber
  Entries <- MCEntries
  Grants <- MCGrants
  Ceiling = "ceiling"
  Target = "limit"
  LastDay = 1
  MaxChanges = 3
INVARIANTS
  TypeOK
  ProbeSlotIsSound ClosedCountsTheStreak
  GivenUpOnce BlamesTheFirstDeadline
  NothingIsAveraged
  LimitsAreKept
  LedgersTellTheTruth
  ProfilesDoNotEscalate
PROPERTIES
  Recovers OneFaultFlipsNothing EveryNewcomerGetsARecord RecordsAreKept
  NeverOverloaded NothingHangsForEver
CHECK_DEADLOCK FALSE
