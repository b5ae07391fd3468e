\* Two calls on one directory; two processes on one attribute; two files in two directories.
SPECIFICATION MCSpec
CONSTANTS
  s = s  t = t  none = none
  Calls = {1, 2}
  Ops <- mcOps
  Names = {1, 2, 3, 4}
  Sources = {s, t}
  Begins <- mcBegins
  MaxFaults = 1
  Procs = {1, 2}
  Jobs <- mcJobs
  MaxWrites = 2
  MaxFiles = 3
  Files = {1, 2}
  Dirs = {"d", "e"}
  FileNames = {"n"}
  MaxChanges = 2
  MaxObjects = 12
  Workers = 1
INVARIANTS FilesInv HashTrue
PROPERTIES AsOneStep ReplacesAsTold MarksStay FilesSettle
CHECK_DEADLOCK FALSE
