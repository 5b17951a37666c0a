SPECIFICATION Spec
CONSTANTS
  Value <- MCValue
  NoItem = NoItem
  InitialCapacity = 2
  MaxSize = 5
INVARIANTS
  TypeOK
  RingCoherent
  LrangeIsSlice
PROPERTIES
  OnlyFullSortStrandsTail
  DequeSemantics
CHECK_DEADLOCK FALSE
