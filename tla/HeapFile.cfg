SPECIFICATION FairSpec
CONSTANTS
  Tasks = {t1, t2}
  Isolations = {"ReadUncommitted", "Snapshot"}
  Sizes = {1, 3}
  PageCap = 2
  MaxPages = 3
  MaxTuples = 3
  MaxTxns = 2
  MaxErrors = 1
INVARIANTS HeapTypeOK ChainDescends HeapExact ScanExact DeleteExclusive ReadYourWrites
PROPERTIES RecordsStable OperationsReturn
