SPECIFICATION Spec
CONSTANTS
  Sizes = {2, 3}
  Skips = {0, 1, 2, 3, 4}
  MaxRecords = 5
  MaxTears = 1
INVARIANT AnsweredSurvive
CHECK_DEADLOCK FALSE
