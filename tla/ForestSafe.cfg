\* Two calls of any kind on a drive with one or two directories, while it is indexed; one thing
\* goes wrong: a read, an entry, or a time that does not change.
SPECIFICATION Spec
CONSTANTS
  root = root  a = a  b = b  x = x  y = y  c1 = c1  c2 = c2  c3 = c3
  Dirs = {root, a, b}
  Root = root
  Names = {x, y}
  Trees <- mcTrees
  Clients = {c1, c2}
  ReadLimit = 2
  MaxFaults <- mcFaults
INVARIANTS IndexInv AgreesAtRest
PROPERTIES AnswerIsFresh
SYMMETRY sym
CHECK_DEADLOCK FALSE
