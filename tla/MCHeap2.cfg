SPECIFICATION Spec
CONSTANTS
  Heaps2 <- AllInputs
  Bad = Bad
  Blank = 2
  MaxRounds = 5
\* the caller's loop over Read ends
CHECK_DEADLOCK FALSE
INVARIANTS
  HoldsUnread
PROPERTIES
  ImplementsMerge
  Drained
