SPECIFICATION TextSpec
CONSTANTS
  NoID = 0
  NoDoc = NoDoc
  Texts <- MCTexts
  Docs <- MCDocs
  Styles = {{"write"}, {"write", "brackets"}, {"comma"}, {}}
INVARIANTS
  Nesting
  InOrder
  RoundTrips
PROPERTIES
  FieldsKept
