\* Every mode, and a copy that is stepped; every clash, failure and policy update.
SPECIFICATION Spec
CONSTANTS
  root = root  f1 = f1  d1 = d1  f2 = f2  d2 = d2
  Nodes <- mcNodes
  Files = {f1, f2}
  Root = root
  Parent <- mcParent
  Tasks <- mcTasks
  FileLimit = 1
  DirLimit = 1
  Clashes <- mcClashes
  Globals <- mcGlobals
  Updates <- mcUpdates
  SyncFailures = TRUE
INVARIANTS TreeInv FinishedIsComplete FileConflictIsOpen NothingLost
PROPERTIES LimitsKept
CHECK_DEADLOCK FALSE
