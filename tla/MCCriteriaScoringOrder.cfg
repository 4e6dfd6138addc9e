SPECIFICATION Spec
CONSTANTS
  plain = plain
  floored = floored
  none = none
  Criteria <- MCCriteria
  Scores = {0, 1}
  Floor <- MCFloor
  NoFloor = none
  MaxVerdicts = 2
INVARIANTS OrderIsImmaterial
CHECK_DEADLOCK FALSE
