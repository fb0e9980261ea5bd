SPECIFICATION Spec
CONSTANTS
  Base = 8
  Letters = {"I", "P"}
  Keys <- MCKeys
  Values <- MCValues
  Payload <- MCPayload
  MaxData = 20
  MaxDepth = 2
  MaxItems = 3
INVARIANTS
  Framed
  RecordsRead
  IterWaits
