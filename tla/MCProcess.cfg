SPECIFICATION FairSpec
CONSTANTS
  MaxProcesses = 4
  EISTKN = 1
  Keys = {65, 66}
  MaxKeys = 3
  NULL = NULL
  Garbage = Garbage
INVARIANTS TypeOK ListMatchesTable
PROPERTIES KeyGoesToRunner FailureLeavesAtMostAnOrphan KeysAreRead
