\* A job that waits for the one that failed first.
SPECIFICATION Spec
CONSTANTS
  s = s  t = t  none = none
PROPERTIES PendingFollows
CHECK_DEADLOCK FALSE
