SPECIFICATION Spec
CONSTANTS
  Tasks = {t1, t2}
  Frames = {f1}
  Pages = {a, n}
  OldPages = {a}
  ByLogical = {a, n}
  ByLocation = {}
  HeaderIds <- MCHeaderIds
  PinMod = 256
  MaxWrites = 1
  MaxErrors = 1
  MaxKeeps = 1
  NoTask = NoTask
  NoFrame = NoFrame
  NoPage = NoPage
  NoContent = NoContent
INVARIANTS TypeOK PinAccounting LatchProtocol UnpinnedIsEvictable CleanNoLostUpdate
PROPERTIES UnevictableStays
SYMMETRY Symmetry
