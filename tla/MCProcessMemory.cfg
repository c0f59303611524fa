SPECIFICATION MSpec
CONSTANTS
  p1 = p1
  p2 = p2
  None = None
  Procs = {p1, p2}
  Low = 5
  Program = 3
  StackBlocks = 1
  Total = 6
  MaxBlocks = 2
  Slots = 2
  KernelSizes = {2}
  Files <- MCFiles
SYMMETRY Interchangeable
INVARIANTS MTypeOK WritesStayHome OneHolder StaysMapped
