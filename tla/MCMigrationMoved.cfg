SPECIFICATION Spec
CONSTANTS
  MaxVersion = 1
  Databases = {d1, d2}
  NoDb = NoDb
  MaxFaults = 1
  CacheLag = FALSE
  EarlyUpgrade = FALSE
  SlowStart = FALSE
  DbMoves = TRUE
INVARIANT AppOnMigratedSchema
