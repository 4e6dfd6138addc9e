SPECIFICATION FairSpec
CONSTANTS
  low = low
  high = high
  w1 = w1
  w2 = w2
  Entries <- MCEntries
  Workers <- MCWorkers
  LeaseIds = {1, 2, 3, 4}
  Priority <- Equal
  Eligible <- MCEligible
  Slots = 1
  MaxAttempts = 3
  VisibilityTimeout = 2
INVARIANTS TypeOK NothingLostOrDoubled RetryBudget LeaseNamesItsTask
PROPERTIES OnlyHolderEndsLiveLease KeepsPromise TopPriorityIsSettled
