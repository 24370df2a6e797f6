SPECIFICATION Spec
CONSTANTS
  PoolBlocks = 5
  Reserved = 4
  NumSizes = 3
  ByteBits = 2
  Requests = {0, 1, 2, 3}
  Data = {Zero}
  Zero = Zero
  Null = Null
INVARIANTS
  NeverCorrupt
  NothingLost
  MallocComplete
  BitmapExact
PROPERTY
  StorageRefinement
