SPECIFICATION Spec
CONSTANTS
  Bad = Bad
  Broken = {}
  MergeInputs <- EightInputs
  IntersectInputs = {}
  AnyOrder = FALSE
INVARIANTS
  MergedInOrder
