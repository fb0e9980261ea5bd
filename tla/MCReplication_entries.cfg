SPECIFICATION Spec
CONSTANTS
  RevMod = 4
  RonBase = 4
  RonDigits = 2
  Drafts <- EntryDrafts
  MaxUpdates = 5
  MaxBatch = 2
  Places <- EntryPlaces
INVARIANTS
  Converged
