SPECIFICATION Spec
CONSTANTS
  Threads = {t1, t2}
  Macs = {m1, m2}
  Foreign = {f1}
  Unknown = {u1}
  NoMac = NoMac
  MaxRequests = 5
  MaxRacing = 3
  MaxLate = 1
INVARIANTS
  OnboardTypeOK
  OneGatewayUnlessRaced
  RecordsWellFormed
  SoloOnboarding
CONSTRAINT BoundedRuns
CHECK_DEADLOCK FALSE
SYMMETRY OnboardingSymmetry
