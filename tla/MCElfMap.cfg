SPECIFICATION ElfSpec
CONSTANTS
  PageSize = 2
  Pages = 7
  StackAt = 2
  StackPages = 1
  ProgramAt = 6
  FileSizes = {4, 5}
  Headers = 2
  Segments <- MCSegments
INVARIANTS FileBytesInPlace WritesStayInside
