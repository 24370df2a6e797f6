SPECIFICATION Spec
CONSTANTS
  NumEntries = 3
  WordSize = 2
  MaxIds = 5
  MaxUnmanaged = 2
INVARIANTS
  IdsUnique
PROPERTY
  PoolRefinement
