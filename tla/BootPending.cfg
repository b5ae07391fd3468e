\* Pending is not left when the stores load after the bound user came.
SPECIFICATION FairSpec
CONSTANTS
  Devs = {1, 2}
  Vols = {1, 2, 3}
  Users = {"u1", "u2"}
  Requests = {1}
  Machines <- oneMachine
  Bounds <- quiet
  MaxTroubles = 0
PROPERTIES PendingLeaves
CHECK_DEADLOCK FALSE
