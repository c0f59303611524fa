SPECIFICATION FairSpec
CONSTANTS
  SectorSize = 4
  SectorsPerCluster = 2
  FatSector = 2
  FatSectors = 2
  DataSector = 5
  Sectors = 13
  Files = {"a", "b"}
  FirstCluster <- MCFirstCluster
  FileSize <- MCFileSize
  Words = {0, 2, 3, 5, 65535}
  Sizes = {3, 8, 17}
  Counts = {1, 2}
  Offsets <- MCOffsets
  MaxPos = 11
  None = None
INVARIANTS TypeOK ReadExact
PROPERTY ReadsReturn
