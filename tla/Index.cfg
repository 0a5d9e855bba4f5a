SPECIFICATION FairSpec
CONSTANTS
  Workers = {w1, w2}
  NoOne = NoOne
  Loader = w1
  Calls <- MCCalls
  Preloads <- MCPreloads
  PreloadRid = 1
  ByteBase = 32
  KeyWidth = 2
  LeafMax = 4
  InnerMax = 3
  MaxPages = 12
  MaxCalls = 2
  MaxErrors = 1
  MaxReloads = 2
INVARIANTS IndexTypeOK ChainExact DescentReaches SiblingsAgree AnswersExact ScanExact OnlyMergesBlock
PROPERTIES CallsReturn
CHECK_DEADLOCK FALSE
