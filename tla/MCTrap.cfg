SPECIFICATION FairSpec
CONSTANTS
  Tasks = {shell, blank}
  First = shell
  Values = {v1, v2}
  Kernel = Kernel
INVARIANTS TypeOK AtHome SavedIsCaller
PROPERTIES ResumesExactly EveryTrapEnds
