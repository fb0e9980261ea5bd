SPECIFICATION Spec
CONSTANTS
  RevMod = 4
  RonBase = 4
  RonDigits = 2
  Drafts <- DocDrafts
  MaxUpdates = 1
  MaxBatch = 1
  Places <- DocPlaces
INVARIANTS
  ValuesKept
