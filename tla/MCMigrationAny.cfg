SPECIFICATION Spec
CONSTANTS
  MaxVersion = 2
  Databases = {d1, d2}
  NoDb = NoDb
  MaxFaults = 1
  CacheLag = TRUE
  EarlyUpgrade = TRUE
  SlowStart = TRUE
  DbMoves = TRUE
INVARIANT AppDownWhileMigrating
INVARIANT AppFollowsStatus
INVARIANT ProgressMarkHonest
PROPERTY VersionMonotonic
PROPERTY ImplementsRegistry
