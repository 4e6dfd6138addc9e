SPECIFICATION Spec
CONSTANTS
  look = look
  edit = edit
  Tools <- MCTools
  Policies <- EditedEffects
  MaxIterations = 1
  NoProgressAbortAfter = 2
  CallsPerTurn = 2
  CallLimit = 2
INVARIANTS WriteBudgetHolds
