SPECIFICATION Spec
CONSTANTS
  Total = 4
  BlockSize = 2
  UintMod = 16
  MaxBlocks = 3
  Sizes <- AllSizes
INVARIANT GrantsInsideHeap
