SPECIFICATION Spec
CONSTANTS
  Bad = Bad
  Broken = {2}
  MergeInputs <- AllInputs
  IntersectInputs <- FiveInputs
  AnyOrder = TRUE
INVARIANTS
  TypeOK
  OneSlotEach
  RoundsOfEquals
  NothingLost
  HeapOrder
  IntersectExact
PROPERTIES
  ImplementsMerge
  Terminates
