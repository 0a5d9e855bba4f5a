SPECIFICATION PageSpec
CONSTANTS
  PageSize = 28
  HeadersSize = 4
  Lengths = {0, 1, 4, 5, 20}
INVARIANTS PageTypeOK TuplesIntact
