SPECIFICATION Spec
CONSTANTS
  RevMod = 4
  RonBase = 4
  RonDigits = 2
  Drafts <- DocDrafts
  MaxUpdates = 3
  MaxBatch = 2
  Places <- DocPlaces
INVARIANTS
  SameAsSeen
  StaysOrdered
  Found
  Flattened
PROPERTIES
  Immune
