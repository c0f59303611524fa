SPECIFICATION FairSpec
CONSTANTS
  Total = 5
  BlockSize = 2
  UintMod = 16
  MaxBlocks = 3
  Sizes <- AllSizes
INVARIANTS TypeOK NoOverlap TableMatchesOwners IInv
PROPERTIES FailsOnlyWhenNothingFits ImplementsAllocator CallsReturn
