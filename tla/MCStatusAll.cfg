SPECIFICATION FairSpec
CONSTANTS
  Varying <- Components
  MaxChanges = 1
  MaxFaults = 1
  MaxClock = 4
INVARIANT TypeOK
INVARIANT AvailableMeansAll
INVARIANT DependenciesShow
PROPERTY TransitionsAreChanges
PROPERTY StatusConverges
