SPECIFICATION Spec
CONSTANTS
  Configs = {c1, c2}
  NoConfig = NoConfig
  Workloads = {"app"}
  Replicas = 2
  MaxSurge = 1
  MaxUnavailable = 1
  MaxEvents = 2
  CacheLag = FALSE
  Deferral = TRUE
INVARIANT TemplateSecretExists
