SPECIFICATION FairSpec
CONSTANTS
  Size = 3
  Wrap = 6
  Table <- SmallTable
  Stray = 67
  ScanCodes <- SomeCodes
  MaxKeys = 7
INVARIANTS TypeOK NoKeyTwice
PROPERTIES ImplementsQueue EveryKeyRead
