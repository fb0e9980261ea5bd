SPECIFICATION TextSpec
CONSTANTS
  NoID = 0
  NoDoc = NoDoc
  Texts = {}
  Docs <- StampedPair
  Styles = {{"comma", "inline"}}
INVARIANTS
  RoundTrips
