SPECIFICATION FairSpec
CONSTANTS
  Tasks = {t1, t2}
  Frames = {f1, f2}
  Pages = {a}
  OldPages = {a}
  ByLogical = {a}
  ByLocation = {}
  HeaderIds <- MCHeaderIds
  PinMod = 256
  MaxWrites = 1
  MaxErrors = 0
  MaxKeeps = 1
  NoTask = NoTask
  NoFrame = NoFrame
  NoPage = NoPage
  NoContent = NoContent
PROPERTIES CallReturns
