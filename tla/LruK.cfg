SPECIFICATION LruSpec
CONSTANTS
  Frames = {f1, f2, f3}
  K = 2
  MaxClock = 5
  NoVictim = NoVictim
INVARIANTS VictimIsLruK HistoryInv
PROPERTIES ImplementsPolicy
