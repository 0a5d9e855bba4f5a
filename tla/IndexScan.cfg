SPECIFICATION Spec
CONSTANTS
  Workers = {w1}
  NoOne = NoOne
  Loader = w1
  Calls <- OneScan
  Preloads <- OnePreload
  PreloadRid = 1
  ByteBase = 32
  KeyWidth = 2
  LeafMax = 4
  InnerMax = 3
  MaxPages = 2
  MaxCalls = 1
  MaxErrors = 0
  MaxReloads = 0
INVARIANT ScanComplete
CHECK_DEADLOCK FALSE
