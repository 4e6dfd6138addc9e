SPECIFICATION Spec
CONSTANTS
  Corpus = {1, 2, 3}
  Batch = 2
  Limits = {4}
  MaxRuns = 2
INVARIANTS VerifiedMeansMinted
CHECK_DEADLOCK FALSE
