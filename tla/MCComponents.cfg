SPECIFICATION FairSpec
CONSTANTS
  Kinds = {"quay", "route", "tls", "objectstorage", "clair", "clairpostgres", "horizontalpodautoscaler"}
  OverrideKinds <- Tried
  MaxEdits = 2
  MaxFaults = 1
INVARIANT TypeOK
INVARIANT RenderedIsConsistent
INVARIANT RenderedHasHost
PROPERTY UserChoicesKept
PROPERTY Settles
PROPERTY ValidIsRendered
