SPECIFICATION FairSpec
CONSTANTS
  Managed = {"quay", "clair"}
  MaxFaults = 1
  CacheLag = TRUE
  Together = FALSE
  DeleteBackup = TRUE
INVARIANT TypeOK
INVARIANT OneServerPerVolume
INVARIANT UpgradeUndisturbed
PROPERTY RecordedUpgradeCopies
PROPERTY RecordedUpgradeEnds
