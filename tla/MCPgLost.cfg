SPECIFICATION Spec
CONSTANTS
  Managed = {"quay", "clair"}
  MaxFaults = 0
  CacheLag = FALSE
  Together = FALSE
  DeleteBackup = FALSE
INVARIANT NewServerHasData
