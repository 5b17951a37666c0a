SPECIFICATION Spec
CONSTANTS
  Value <- MCValue
  NoItem = NoItem
  InitialCapacity = 4
  MaxSize = 5
INVARIANT NeverPanics
CHECK_DEADLOCK FALSE
