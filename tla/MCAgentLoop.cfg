SPECIFICATION FairSpec
CONSTANTS
  look = look
  edit = edit
  Tools <- MCTools
  Policies <- EditedLists
  MaxIterations = 2
  NoProgressAbortAfter = 2
  CallsPerTurn = 2
  CallLimit = 2
INVARIANTS TypeOK OnlySanctionedCallsRun WriteBudgetHolds CapIsExact VerifiedIsEarned FailedIsSaid
PROPERTIES Terminates
