SPECIFICATION Spec
CONSTANTS
  Tasks = {t1, t2}
  Frames = {f1, f2}
  Pages = {a, b, h}
  OldPages = {a, b, h}
  ByLogical = {a, b}
  ByLocation = {h}
  HeaderIds <- MCHeaderIds
  PinMod = 256
  MaxWrites = 1
  MaxErrors = 0
  MaxKeeps = 0
  NoTask = NoTask
  NoFrame = NoFrame
  NoPage = NoPage
  NoContent = NoContent
INVARIANTS CleanGuardIntegrity CleanPageExclusive VacantIsFree CleanNoLostUpdate
CONSTRAINT Clean
SYMMETRY Symmetry
