\* Two adds, a put and a retrieve, two destroys, a crash, a damaged file.
SPECIFICATION FairSpec
CONSTANTS
  r1 = r1  r2 = r2  r3 = r3  r4 = r4  d1 = d1  d2 = d2
  Requests <- mcRequests
  Kind <- mcKind
  Destroyers = {d1, d2}
  Silent = {d2}
  InitialFiles <- mcFiles
  MaxCrashes = 1
INVARIANTS Inv ObserverSeesCurrent AddsSurvive
PROPERTIES AckedOnDisk Implements Answered
CHECK_DEADLOCK FALSE
