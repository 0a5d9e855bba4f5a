SPECIFICATION Spec
CONSTANTS
  Tasks = {t1, t2}
  Files = {1}
  Calls <- MCCalls
  Preloads <- MCPreloads
  LeafMax = 2
  InnerMax = 2
  PageSize = 4
  PageNumbers = 64
  MaxDirPages = 12
  MaxCalls = 3
SYMMETRY TaskSymmetry
INVARIANTS StorageTypeOK DirectoryExact LookupExact UnmarkedIsSaved ReadsOwn
CHECK_DEADLOCK FALSE
