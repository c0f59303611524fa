SPECIFICATION Spec
CONSTANTS
  MaxObjects = 24
  MaxFds = 3
  MaxProcesses = 2
  Programs <- Kinds
INVARIANTS TypeOK OneHolder OnlyElfsStayOpen LosesOnlyPaths
