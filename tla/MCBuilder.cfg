SPECIFICATION Spec
SYMMETRY SameBuilders
CONSTANTS
  b1 = b1
  b2 = b2
  Builders = {b1, b2}
  Base = 4
  CaseBit = 2
  MaxID = 2
  Letters = {"P"}
  Stamps <- SmallStamps
  Values <- SmallValues
  Slack = 5
  MaxLen = 4
  MaxDepth = 3
INVARIANTS
  OneOwner
  Built
PROPERTIES
  Isolated
CHECK_DEADLOCK FALSE
