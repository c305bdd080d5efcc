SPECIFICATION FairSpec
CONSTANTS
  MaxVersion = 2
  Databases = {d1}
  NoDb = NoDb
  MaxFaults = 3
  CacheLag = FALSE
  EarlyUpgrade = FALSE
  SlowStart = FALSE
  DbMoves = FALSE
INVARIANT TypeOK
INVARIANT AppOnMigratedSchema
INVARIANT VersionIsMigrated
PROPERTY MigrationEnds
 
