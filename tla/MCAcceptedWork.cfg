SPECIFICATION Spec
CONSTANTS
  Floor <- MCFloor
  Tiers = 2
  Scores = {0, 1}
  Digests = {"a", "b"}
  MaxRejections = 2
  MaxRounds = 3
INVARIANTS DeliveredMeetsTheContract
