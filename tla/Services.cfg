\* The fifteen parts of MCServices, each in an instance of its own: see there for the bounds.
SPECIFICATION Spec
CONSTANTS
  s = s  t = t  none = none
INVARIANTS ServicesInv DoneIsDone InStep
PROPERTIES AsTold VersionsStay ServicesAnswer
CHECK_DEADLOCK FALSE
