SPECIFICATION Spec
CONSTANTS
  look = look
  edit = edit
  Tools <- MCTools
  Policies <- OnePolicy
  MaxIterations = 3
  NoProgressAbortAfter = 1
  CallsPerTurn = 1
  CallLimit = 1
PROPERTIES RepeatedRefusalsAreAStall
