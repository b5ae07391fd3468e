\* A move seen at its target first.
SPECIFICATION Spec
CONSTANTS
  root = root  a = a  b = b  x = x  y = y  c1 = c1  c2 = c2  c3 = c3
  Dirs = {root, a, b}
  Root = root
  Names = {x, y}
  Trees <- racedTrees
  Clients = {c1, c2}
  ReadLimit = 2
  MaxFaults <- noFaults
INVARIANTS ReadIsEnough
SYMMETRY sym
CHECK_DEADLOCK FALSE
