\* A page of a query that ends below the first level.
SPECIFICATION Spec
CONSTANTS
  s = s  t = t  none = none
INVARIANTS ShortIsComplete
CHECK_DEADLOCK FALSE
