SPECIFICATION FairSpec
CONSTANTS
  low = low
  high = high
  w1 = w1
  w2 = w2
  Entries <- MCEntries
  Workers <- MCWorkers
  LeaseIds = {1, 2, 3, 4}
  Priority <- Ranked
  Eligible <- MCEligible
  Slots = 1
  MaxAttempts = 2
  VisibilityTimeout = 1
PROPERTIES NoStarvation
