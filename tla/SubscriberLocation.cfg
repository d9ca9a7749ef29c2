SPECIFICATION Spec
CONSTANTS
  Threads = {t1, t2}
  LocationIds = {l1, l2, l3}
  Zones = {z1, z2}
  NoLocation = NoLocation
  NoZone = NoZone
  MaxRequests = 4
INVARIANTS
  LocationTypeOK
  FailuresAreRepaired
  SoloOutcome
CHECK_DEADLOCK FALSE
SYMMETRY LocationSymmetry
