\* A clean copy with two conflicts; a drive with two nested directories, two calls and an error.
SPECIFICATION LiveSpec
CONSTANTS
  root = root  f1 = f1  d1 = d1  f2 = f2  d2 = d2
  a = a  b = b  x = x  c1 = c1  c2 = c2
  Nodes <- mcNodes
  Files = {f1, f2}
  Root = root
  Parent <- mcParent
  Tasks <- mcTasks
  FileLimit = 1
  DirLimit = 1
  Clashes <- mcClashes
  Globals <- mcGlobals
  Updates <- mcUpdates
  SyncFailures = FALSE
PROPERTIES Settles WatchAnswered CallsAnswered ComesToRest
CHECK_DEADLOCK FALSE
