\* All properties of Boot.
SPECIFICATION FairSpec
CONSTANTS
  Devs = {1, 2}
  Vols = {1, 2, 3}
  Users = {"u1", "u2"}
  Requests = {1, 2}
  Machines <- mcMachines
  Bounds <- mcBounds
  MaxTroubles = 1
INVARIANTS BootInv ServesOwner RecordIsActual
PROPERTIES RequestsAnswered InitBoots
CHECK_DEADLOCK FALSE
