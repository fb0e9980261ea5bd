SPECIFICATION LawsSpec
CONSTANTS
  RevMod = 4
  RonBase = 4
  RonDigits = 3
  Inputs <- SpotInputs
  Elements <- AllElements
  ByteBits = 1
  Decimals = {0, 1}
  Exponents = {2}
  \* seven leaves fill the line of three slots, the eighth finds it full
  Slots = 3
  Leaves = {1, 2, 3}
  MaxAppends = 8
INVARIANTS
  TypeOK
  Permuted
  GreatestID
  LastWriteWins
  EulerOrders
  LinearOrders
  MultixOrders
  LWWOrders
  PairZips
  NumbersZip
  TextParses
  TogglesKeepStem
  Commits
PROPERTIES
  Terminates
