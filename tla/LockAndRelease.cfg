SPECIFICATION FairLockSpec
CONSTANTS
  Servers = {n1, n2, n3}
  Interval = 6
  MaxRun = 4
  MaxCrashes = 3
INVARIANTS
  LockTypeOK
  MutualExclusion
  HolderHasRow
PROPERTY
  RunsAgain
