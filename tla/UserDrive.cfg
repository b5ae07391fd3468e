\* All properties of UserDrive.
SPECIFICATION FairSpec
CONSTANTS
  adm = adm  u1 = u1  u2 = u2
  Users = {adm, u1, u2}
  Admin = adm
  Drives = {1, 2, 3, 4}
  MaxActive = 2
  InitialCloud <- mcCloud
  Bounds <- mcBounds
  MaxEvents = 3
INVARIANTS UserDriveInv ActiveLimit DeletedIsCleaned RootsServeLive
PROPERTIES CloudStored
CHECK_DEADLOCK FALSE
