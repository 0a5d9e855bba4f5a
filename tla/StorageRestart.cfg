SPECIFICATION Spec
CONSTANTS
  Tasks = {t1}
  Files = {1, 2}
  Calls <- OneCall
  Preloads <- OnePreload
  LeafMax = 2
  InnerMax = 2
  PageSize = 4
  PageNumbers = 64
  MaxDirPages = 4
  MaxCalls = 2
INVARIANT LocationsDistinct
CHECK_DEADLOCK FALSE
