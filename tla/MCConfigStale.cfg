SPECIFICATION FairSpec
CONSTANTS
  Configs = {c1, c2}
  NoConfig = NoConfig
  Workloads = {"app", "mirror"}
  Replicas = 1
  MaxSurge = 1
  MaxUnavailable = 0
  MaxEvents = 1
  CacheLag = TRUE
  Deferral = FALSE
PROPERTY CleanupAfterMount
