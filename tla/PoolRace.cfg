SPECIFICATION Spec
CONSTANTS
  Tasks = {t1, t2}
  Frames = {f1}
  Pages = {a, b}
  OldPages = {a, b}
  ByLogical = {a, b}
  ByLocation = {}
  HeaderIds <- MCHeaderIds
  PinMod = 256
  MaxWrites = 0
  MaxErrors = 0
  MaxKeeps = 0
  NoTask = NoTask
  NoFrame = NoFrame
  NoPage = NoPage
  NoContent = NoContent
INVARIANTS GuardIntegrity
SYMMETRY Symmetry
