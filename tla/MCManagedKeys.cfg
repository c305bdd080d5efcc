SPECIFICATION Spec
CONSTANTS
  MaxFaults = 2
  MaxEdits = 2
INVARIANT TypeOK
INVARIANT CredentialsMatch
PROPERTY SecretKeyStable
