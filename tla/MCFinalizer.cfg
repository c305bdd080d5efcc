SPECIFICATION FairSpec
CONSTANTS
  Registries <- Three
  Monitored <- SameName
  Labelled = {"n2"}
  NoNamespace = NoNamespace
  NoRegistry = NoRegistry
  MaxEvents = 2
INVARIANT TypeOK
INVARIANT NoOrphans
PROPERTY SharedLabelKept
PROPERTY MonitoringRestored
PROPERTY DeletionCompletes
CHECK_DEADLOCK FALSE
