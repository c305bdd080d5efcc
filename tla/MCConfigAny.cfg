SPECIFICATION FairSpec
CONSTANTS
  Configs = {c1, c2}
  NoConfig = NoConfig
  Workloads = {"app"}
  Replicas = 2
  MaxSurge = 1
  MaxUnavailable = 1
  MaxEvents = 2
  CacheLag = TRUE
  Deferral = TRUE
INVARIANT TypeOK
INVARIANT CleanupAfterUpdate
PROPERTY MountedSecretKept
PROPERTY StrandedBySurge
PROPERTY OldSecretsGo
PROPERTY RolloutCompletes
